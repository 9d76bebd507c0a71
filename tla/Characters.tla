----------------------------- MODULE Characters -----------------------------
(***************************************************************************)
(* The characters of a game node (role/): vitals and their ceilings,       *)
(* experience, saving through a queue with retries; and their bags         *)
(* (inventory/): stacks with identities, worn items that wear out and      *)
(* feed the characters' attributes.  A player's bag is found by the        *)
(* player, his attributes by the character last created for him.           *)
(*                                                                         *)
(* One primary attribute stands for the four: stamina, which sets the      *)
(* ceiling of the hit points; the others only grow with the level, and     *)
(* with them the ceiling of the mana.  The counter of versions and the     *)
(* events that repeat a state are left out.                                *)
(***************************************************************************)
EXTENDS Integers, Sequences, FiniteSets, Functions, SequencesExt

CONSTANTS
    Owners,          \* players
    CharIds,         \* character ids
    StartingPrimary, \* RoleDefaults: primary attributes of level 1 ...
    PrimaryPerLevel, \* ... and what a level adds
    HpPerStamina, HpFloor,   \* AttrFormula: hp_per_stamina, hp_base
    MpPerIntellect, MpFloor,
    PrimaryMax, VitalMax,    \* DefaultLimits
    ExpNeeds,        \* ExpNeeds[l]: experience from level l to l + 1
    ExpTop,          \* largest value of the counter of experience (2^64 - 1)
    ItemTable,       \* ItemTable[d]: [stack, level, wear, slots, bonus]
    ItemFiles,       \* directories: sequences of files; a file is the sequence
                     \* of its definitions, or BadFile
    BadFile,
    BagSlots,        \* kMaxInventorySlots
    EquipSlots,
    HpDeltas, MpDeltas, ExpGrants, ItemCounts, Damages,  \* arguments of the calls
    MaxGuids,        \* bound: stacks ever opened
    MaxSaveFailures, \* bound: refusals of the persistence queue
    MaxCharCalls     \* bound: calls

ASSUME CharactersAssumption ==
    /\ BagSlots \in Nat \ {0} /\ ExpTop \in Nat /\ ExpNeeds \in Seq(Nat \ {0})
    /\ PrimaryMax \in Nat /\ VitalMax \in Nat \ {0}
    /\ {StartingPrimary, PrimaryPerLevel, HpPerStamina, HpFloor, MpPerIntellect, MpFloor} \subseteq Int
    /\ HpDeltas \cup MpDeltas \subseteq Int /\ ExpGrants \cup ItemCounts \cup Damages \subseteq Nat

NoItem == "noitem"
ASSUME ItemsAssumption ==
    /\ IsFiniteSet(EquipSlots) /\ {NoItem, BadFile} \cap DOMAIN ItemTable = {}
    /\ \A d \in DOMAIN ItemTable :
          ItemTable[d] \in [stack : Nat, level : Nat, wear : Nat, slots : SUBSET EquipSlots, bonus : Int]

VARIABLES
    roChars,     \* chars_
    roByPlayer,  \* by_player_
    roRetry,     \* retry_queue_
    roStored,    \* by character: the level and the hit points last enqueued
    roFailed,    \* auxiliary: characters whose last save was refused
    roGained,    \* auxiliary: experience granted since creation or overflow
    roDeaths,    \* auxiliary: by character, deaths announced less revivals
    roRefusals,  \* refusals used
    itDefs,      \* ItemDefStore: the definitions loaded
    itBags,      \* inv_: by player
    itGuid,      \* NewItemGuid: the last identity given
    itMade,      \* auxiliary: units of each definition a player was given less
                 \* those removed
    chCalls      \* calls made

roVars == <<roChars, roByPlayer, roRetry, roStored, roFailed, roGained, roDeaths, roRefusals>>
itVars == <<itDefs, itBags, itGuid, itMade>>
charVars == <<roVars, itVars, chCalls>>

EmptyStack == [def |-> NoItem, n |-> 0, wear |-> 0, guid |-> 0]
NewBag == [bag |-> [i \in 1..BagSlots |-> EmptyStack], free |-> <<>>, next |-> 1,
             worn |-> [s \in EquipSlots |-> EmptyStack]]

CharactersInit ==
    /\ roChars = << >> /\ roByPlayer = << >> /\ roRetry = <<>> /\ roStored = << >>
    /\ roFailed = {} /\ roGained = << >> /\ roDeaths = << >> /\ roRefusals = 0
    /\ itDefs = {} /\ itBags = << >> /\ itGuid = 0
    /\ itMade = [p \in Owners |-> [d \in DOMAIN ItemTable |-> 0]]
    /\ chCalls = 0

-----------------------------------------------------------------------------
(* Attributes.                                                              *)

MaxLevel == Len(ExpNeeds) + 1

Within(v, low, high) == CASE v < low -> low [] v > high -> high [] OTHER -> v

MaxHpOf(c) ==
    Within(HpPerStamina * Within(c.base + c.gear, 0, PrimaryMax) + HpFloor, 1, VitalMax)
MaxMpOf(c) == Within(MpPerIntellect * Within(c.base, 0, PrimaryMax) + MpFloor, 0, VitalMax)

ClampVitals(c) ==
    [c EXCEPT !.hp = Within(@, 0, MaxHpOf(c)), !.mp = Within(@, 0, MaxMpOf(c))]

Has(c) == c \in DOMAIN roChars
Put(f, k, v) == [x \in DOMAIN f \cup {k} |-> IF x = k THEN v ELSE f[x]]
\* Those of the list that are in the set, in the list's order.
Kept(list, set) ==
    LET at == CHOOSE at \in SetToSeqs({i \in DOMAIN list : list[i] \in set}) :
                  \A i, j \in DOMAIN at : i < j => at[i] < at[j]
    IN  [i \in DOMAIN at |-> list[at[i]]]

-----------------------------------------------------------------------------
(* RoleSystem.                                                              *)

\* A new character is in full health, and is the one its player is found by;
\* one that exists is returned as it is, whoever asks.
LoadOrCreate(p, c) ==
    LET fresh == [owner |-> p, level |-> 1, exp |-> 0, base |-> StartingPrimary, gear |-> 0,
                  hp |-> 0, mp |-> 0, dirty |-> TRUE, dead |-> FALSE]
    IN  /\ ~Has(c)
        /\ roChars' = Put(roChars, c, [fresh EXCEPT !.hp = MaxHpOf(fresh), !.mp = MaxMpOf(fresh)])
        /\ roByPlayer' = Put(roByPlayer, p, c)
        /\ roGained' = Put(roGained, c, 0) /\ roDeaths' = Put(roDeaths, c, 0)
        /\ UNCHANGED <<roRetry, roStored, roFailed, roRefusals, itVars>>

\* A death is announced as the hit points reach zero; what heals revives.
RoleModifyHp(c, delta) ==
    LET ch == roChars[c]
        hp == Within(ch.hp + delta, 0, MaxHpOf(ch))
        dies == hp = 0 /\ ~ch.dead
        revives == hp > 0 /\ ch.dead
    IN  /\ Has(c)
        /\ roChars' = [roChars EXCEPT ![c].hp = hp, ![c].dirty = TRUE, ![c].dead = (hp = 0)]
        /\ roDeaths' = [roDeaths EXCEPT ![c] = @ + (IF dies THEN 1 ELSE 0)
                                                 - (IF revives THEN 1 ELSE 0)]
        /\ UNCHANGED <<roByPlayer, roRetry, roStored, roFailed, roGained, roRefusals, itVars>>

ModifyMp(c, delta) ==
    /\ Has(c)
    /\ roChars' = [roChars EXCEPT ![c].mp = Within(@ + delta, 0, MaxMpOf(roChars[c])),
                                  ![c].dirty = TRUE]
    /\ UNCHANGED <<roByPlayer, roRetry, roStored, roFailed, roGained, roDeaths, roRefusals, itVars>>

\* One level after the other, as long as the experience pays for it.
LevelUps(c) ==
    LET f[n \in 0..MaxLevel] ==
            IF n = 0 THEN c
            ELSE LET b == f[n - 1]
                 IN  IF b.level < MaxLevel /\ b.exp >= ExpNeeds[b.level]
                       THEN ClampVitals([b EXCEPT !.exp = @ - ExpNeeds[b.level],
                                                  !.level = @ + 1,
                                                  !.base = @ + PrimaryPerLevel])
                       ELSE b
    IN  f[MaxLevel]

AddExp(c, amount) ==
    LET up == LevelUps([roChars[c] EXCEPT !.exp = @ + amount])
    IN  /\ Has(c)
        /\ IF amount > ExpTop - roChars[c].exp
             THEN /\ roChars' = [roChars EXCEPT ![c].exp = ExpTop]
                  /\ roGained' = [roGained EXCEPT ![c] = ExpTop - roChars[c].exp + @]
             ELSE /\ roChars' = [roChars EXCEPT ![c] =
                         [up EXCEPT !.exp = IF up.level >= MaxLevel THEN 0 ELSE @, !.dirty = TRUE]]
                  /\ roGained' = [roGained EXCEPT ![c] =
                         IF up.level >= MaxLevel THEN 0 ELSE @ + amount]
        /\ UNCHANGED <<roByPlayer, roRetry, roStored, roFailed, roDeaths, roRefusals, itVars>>

\* The queue takes the character, or refuses: what the call leaves behind.
Enqueued(c) ==
    /\ roStored' = Put(roStored, c, [level |-> roChars[c].level, hp |-> roChars[c].hp])
    /\ roChars' = [roChars EXCEPT ![c].dirty = FALSE]
    /\ roFailed' = roFailed \ {c}

Save(c) ==
    /\ Has(c)
    /\ \/ Enqueued(c) /\ UNCHANGED <<roRetry, roRefusals>>
       \/ /\ roRefusals < MaxSaveFailures /\ roRefusals' = roRefusals + 1
          /\ roRetry' = IF Contains(roRetry, c) THEN roRetry ELSE Append(roRetry, c)
          /\ roFailed' = roFailed \cup {c}
          /\ UNCHANGED <<roChars, roStored>>
    /\ UNCHANGED <<roByPlayer, roGained, roDeaths, itVars>>

\* Every queued character is tried once; those refused again are kept in order.
FlushRetries(refused) ==
    LET queued == ToSet(roRetry)
    IN  /\ roRetry # <<>> /\ refused \subseteq queued
        /\ roRefusals + Cardinality(refused) <= MaxSaveFailures
        /\ roRefusals' = roRefusals + Cardinality(refused)
        /\ roRetry' = Kept(roRetry, refused)
        /\ roFailed' = (roFailed \ queued) \cup refused
        /\ roChars' = [c \in DOMAIN roChars |->
                         IF c \in queued \ refused THEN [roChars[c] EXCEPT !.dirty = FALSE]
                         ELSE roChars[c]]
        /\ roStored' = [c \in DOMAIN roStored \cup (queued \ refused) |->
                          IF c \in queued \ refused
                            THEN [level |-> roChars[c].level, hp |-> roChars[c].hp]
                            ELSE roStored[c]]
        /\ UNCHANGED <<roByPlayer, roGained, roDeaths, itVars>>

-----------------------------------------------------------------------------
(* ItemDefStore.                                                            *)

\* The files in the order the directory gives them; the first that cannot be
\* read, or repeats a definition, ends the loading and leaves what came before.
Loaded(files, defs) ==
    LET items == FlattenSeq([i \in 1..Len(files) |-> files[i]])
        repeats(n) == items[n] = BadFile \/ items[n] \in defs
                      \/ \E m \in 1..(n - 1) : items[m] = items[n]
        stops == {n \in 1..Len(items) : repeats(n)}
        good == IF stops = {} THEN Len(items) ELSE Min(stops) - 1
    IN  defs \cup {items[n] : n \in 1..good}

LoadDir(files) ==
    \E order \in Permutations(1..Len(files)) :
        /\ itDefs' = Loaded([i \in 1..Len(files) |-> files[order[i]]], itDefs)
        /\ itDefs' # itDefs
        /\ UNCHANGED <<roVars, itBags, itGuid, itMade>>

-----------------------------------------------------------------------------
(* Inventory.                                                               *)

Find(b, guid) == {i \in 1..BagSlots : guid # 0 /\ b.bag[i].guid = guid}

\* AllocateSlot: the slot freed last, else the next never used, else none (0).
FreeSlot(b) ==
    CASE b.free # <<>> -> Last(b.free)
      [] b.free = <<>> /\ b.next <= BagSlots -> b.next
      [] OTHER -> 0
Placed(b, st) ==
    LET i == FreeSlot(b)
    IN  [b EXCEPT !.bag[i] = st,
                  !.free = IF b.free # <<>> THEN Front(@) ELSE @,
                  !.next = IF b.free = <<>> THEN @ + 1 ELSE @]

\* One unit of an Add: into the first stack with room, else into a new one.
\* A state of the loop: the bag, the last identity, the units added.
AddOne(s, d) ==
    LET open == {i \in 1..BagSlots : /\ ItemTable[d].stack > 1 /\ s.bag.bag[i].guid # 0
                                     /\ s.bag.bag[i].def = d
                                     /\ s.bag.bag[i].n < ItemTable[d].stack}
        new == [def |-> d, n |-> 1, wear |-> ItemTable[d].wear, guid |-> s.guid + 1]
    IN  CASE open # {} -> [s EXCEPT !.bag.bag[Min(open)].n = @ + 1, !.added = @ + 1]
          [] open = {} /\ FreeSlot(s.bag) # 0 ->
                [bag |-> Placed(s.bag, new), guid |-> s.guid + 1, added |-> s.added + 1]
          [] OTHER -> s
AddLoop(b, d, count) ==
    LET f[n \in 0..count] ==
            IF n = 0 THEN [bag |-> b, guid |-> itGuid, added |-> 0] ELSE AddOne(f[n - 1], d)
    IN  f[count]

Taken(b, i, count) ==
    IF b.bag[i].n > count THEN [b EXCEPT !.bag[i].n = @ - count]
    ELSE [b EXCEPT !.bag[i] = EmptyStack, !.free = Append(@, i)]

BagOf(p) == IF p \in DOMAIN itBags THEN itBags[p] ELSE NewBag

\* What fits of the count is added, and the call succeeds if anything did.
AddItem(p, d, count) ==
    LET s == AddLoop(BagOf(p), d, count)
    IN  /\ d \in itDefs /\ s.guid <= MaxGuids
        /\ itBags' = Put(itBags, p, s.bag)
        /\ itGuid' = s.guid
        /\ itMade' = [itMade EXCEPT ![p][d] = @ + s.added]
        /\ UNCHANGED <<roVars, itDefs>>

RemoveItem(p, guid, count) ==
    /\ p \in DOMAIN itBags
    /\ \E i \in Find(itBags[p], guid) :
          /\ count <= itBags[p].bag[i].n
          /\ itBags' = [itBags EXCEPT ![p] = Taken(itBags[p], i, count)]
          /\ itMade' = [itMade EXCEPT ![p][itBags[p].bag[i].def] = @ - count]
    /\ UNCHANGED <<roVars, itDefs, itGuid>>

\* An item gives its whole bonus, half of it when worn below a half, then none.
WornBonus(st) ==
    LET def == ItemTable[st.def]
        factor == CASE def.wear = 0 -> 2
                    [] def.wear > 0 /\ st.wear = 0 -> 0
                    [] def.wear > 0 /\ st.wear > 0 /\ 2 * st.wear < def.wear -> 1
                    [] OTHER -> 2
    IN  (def.bonus * factor) \div 2

GearOf(b) ==
    LET on == {s \in EquipSlots : b.worn[s].guid # 0}
    IN  SumFunctionOnSet([s \in on |-> WornBonus(b.worn[s])], on)

\* RecomputeEquipmentAttrs and RecomputeAttributes, on the character the
\* player is found by.
Geared(p, b) ==
    IF p \notin DOMAIN roByPlayer THEN roChars
    ELSE [roChars EXCEPT ![roByPlayer[p]] = ClampVitals([@ EXCEPT !.gear = GearOf(b)])]

\* One unit leaves the bag and the whole stack's copy is worn.
Equip(p, guid, s) ==
    /\ p \in DOMAIN itBags /\ p \in DOMAIN roByPlayer
    /\ \E i \in Find(itBags[p], guid) :
          LET st == itBags[p].bag[i]
              after == [Taken(itBags[p], i, 1) EXCEPT !.worn[s] = st]
          IN  /\ s \in ItemTable[st.def].slots
              /\ roChars[roByPlayer[p]].level >= ItemTable[st.def].level
              /\ itBags[p].worn[s].guid = 0
              /\ itBags' = [itBags EXCEPT ![p] = after]
              /\ roChars' = Geared(p, after)
    /\ UNCHANGED <<roByPlayer, roRetry, roStored, roFailed, roGained, roDeaths, roRefusals,
                   itDefs, itGuid, itMade>>

\* A full bag refuses what is taken off; an identity the bag still holds is
\* taken for the item itself.
Unequip(p, s) ==
    /\ p \in DOMAIN itBags /\ itBags[p].worn[s].guid # 0
    /\ LET b == itBags[p]
           st == b.worn[s]
           held == Find(b, st.guid) # {}
           after == [(IF held THEN b ELSE Placed(b, st)) EXCEPT !.worn[s] = EmptyStack]
       IN  /\ held \/ FreeSlot(b) # 0
           /\ itBags' = [itBags EXCEPT ![p] = after]
           /\ roChars' = Geared(p, after)
    /\ UNCHANGED <<roByPlayer, roRetry, roStored, roFailed, roGained, roDeaths, roRefusals,
                   itDefs, itGuid, itMade>>

DamageDurability(p, s, amount) ==
    /\ p \in DOMAIN itBags /\ itBags[p].worn[s].guid # 0
    /\ LET from == itBags[p].worn[s].wear
           after == [itBags[p] EXCEPT !.worn[s].wear = IF amount >= from THEN 0 ELSE from - amount]
       IN  /\ from > 0
           /\ itBags' = [itBags EXCEPT ![p] = after]
           /\ roChars' = Geared(p, after)
    /\ UNCHANGED <<roByPlayer, roRetry, roStored, roFailed, roGained, roDeaths, roRefusals,
                   itDefs, itGuid, itMade>>

-----------------------------------------------------------------------------
RolesNext ==
    \/ \E p \in Owners, c \in CharIds : LoadOrCreate(p, c)
    \/ \E c \in CharIds : \/ \E delta \in HpDeltas : RoleModifyHp(c, delta)
                          \/ \E delta \in MpDeltas : ModifyMp(c, delta)
                          \/ \E amount \in ExpGrants : AddExp(c, amount)
                          \/ Save(c)
    \/ \E refused \in SUBSET ToSet(roRetry) : FlushRetries(refused)

ItemsNext ==
    \/ \E files \in ItemFiles : LoadDir(files)
    \/ \E p \in Owners :
          \/ \E d \in DOMAIN ItemTable, n \in ItemCounts : AddItem(p, d, n)
          \/ \E g \in 1..itGuid :
                \/ \E n \in ItemCounts : RemoveItem(p, g, n)
                \/ \E s \in EquipSlots : Equip(p, g, s)
          \/ \E s \in EquipSlots : Unequip(p, s) \/ \E n \in Damages : DamageDurability(p, s, n)

CharactersNext ==
    /\ chCalls < MaxCharCalls /\ chCalls' = chCalls + 1
    /\ RolesNext \/ ItemsNext
CharactersSpec == CharactersInit /\ [][CharactersNext]_charVars

-----------------------------------------------------------------------------
(* A character's vitals keep to what its level and gear allow, and it is    *)
(* dead exactly when its hit points are spent, which was announced once     *)
(* since it last lived: gear that is taken off, wears out or falls away     *)
(* lowers the ceiling under hit points that were legal (role_system.cpp).   *)
VitalsAreSound ==
    \A c \in DOMAIN roChars :
        LET ch == roChars[c]
        IN  /\ ch.hp \in 0..MaxHpOf(ch) /\ ch.mp \in 0..MaxMpOf(ch)
            /\ ch.dead <=> ch.hp = 0
            /\ roDeaths[c] = (IF ch.dead THEN 1 ELSE 0)

(* Below the top the level and the experience left account for all that was *)
(* granted: several levels in one call, a grant that would overflow, and    *)
(* the grants after it neither lose nor repeat any (role_system.cpp:164).   *)
LevelsAreEarned ==
    \A c \in DOMAIN roChars :
        roChars[c].level < MaxLevel =>
            roGained[c] = roChars[c].exp
                          + SumFunctionOnSet(ExpNeeds, 1..(roChars[c].level - 1))

(* A character whose last save was refused waits for a retry, and one that  *)
(* is not marked as changed has its level stored.                           *)
SavesAreNotForgotten ==
    /\ roFailed \subseteq ToSet(roRetry)
    /\ \A c \in DOMAIN roChars :
          ~roChars[c].dirty => c \in DOMAIN roStored /\ roStored[c].level = roChars[c].level

SingleUnit(d) == ItemTable[d].slots = {} \/ ItemTable[d].stack = 1
UnitsIn(bag, d) ==
    SumFunctionOnSet([i \in 1..BagSlots |-> IF bag[i].def = d THEN bag[i].n ELSE 0], 1..BagSlots)

(* What a player was given is in the bag or worn, each identity in one      *)
(* place, and the bag's slots are the held, the freed and those never used: *)
(* for definitions that either cannot be worn or do not stack.              *)
ItemsAreConserved ==
    \A p \in DOMAIN itBags :
        LET b == itBags[p]
            worn(d) == {s \in EquipSlots : b.worn[s].def = d}
        IN  /\ \A d \in {e \in DOMAIN ItemTable : SingleUnit(e)} :
                  itMade[p][d] = UnitsIn(b.bag, d) + Cardinality(worn(d))
            /\ \A i, j \in 1..BagSlots :
                  i # j /\ b.bag[i].guid # 0 => b.bag[i].guid # b.bag[j].guid
            /\ \A i \in 1..BagSlots :
                  b.bag[i].guid = 0 <=> (i >= b.next \/ Contains(b.free, i))
            /\ IsInjective(b.free)

(* The player who plays one character has the attributes his gear gives.    *)
GearCounts ==
    \A p \in DOMAIN itBags :
        /\ p \in DOMAIN roByPlayer
        /\ Cardinality({c \in DOMAIN roChars : roChars[c].owner = p}) = 1
        => roChars[roByPlayer[p]].gear = GearOf(itBags[p])

(* Refuted: a character that is not marked as changed is stored as it is    *)
(* (character.h: the flag means changes not saved); gear lowers its hit     *)
(* points and does not mark it.                                             *)
CleanIsStored ==
    \A c \in DOMAIN roChars : ~roChars[c].dirty => roStored[c].hp = roChars[c].hp

(* Refuted: a worn item is one unit that is no longer in the bag            *)
(* (inventory_system.cpp:143): of a stack the whole is worn, the rest stays.*)
WornLeftTheBag ==
    \A p \in DOMAIN itBags : \A s \in EquipSlots :
        itBags[p].worn[s].guid # 0 => Find(itBags[p], itBags[p].worn[s].guid) = {}
=============================================================================
