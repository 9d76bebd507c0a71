------------------------------- MODULE Combat -------------------------------
(***************************************************************************)
(* Fights of one scene: CombatSystem (who is in combat, the threat         *)
(* tables, the flags), SkillSystem (costs, cooldowns, casts, projectiles), *)
(* DamageSystem (one settled hit or heal), BuffSystem (instances, what     *)
(* they add up to, their periodic effects) and the hit points of           *)
(* RoleSystem they all write.  One thread runs them in a frame; their      *)
(* events wait in the bus until it is drained.  Times are distances from   *)
(* now in frames.  Positions are left out: whether a target is in range,   *)
(* and whether a projectile meets its target in this frame, is a choice.   *)
(***************************************************************************)
EXTENDS Integers, FiniteSets, Sequences, SequencesExt, Functions

CONSTANTS
    Fighters,        \* entities bound to a character
    Side,            \* Entity::Type of each: hostile when different
    SkillTable,      \* SkillRegistry: name -> [aim, mana, hp, cool, cast, effects]
    BuffTable,       \* BuffRegistry: name -> [rule, most, lasts, every, heals,
                     \*   amount, shield, maxHp, percent, mask]; percent is the
                     \*   multiplier of MaxHp in units of 1 / RateScale
    BaseHp, BaseMp,  \* MaxHp and MaxMp of a new character, without buffs
    PlainHps,        \* what levels and gear make of MaxHp without buffs
    Defense,         \* of every fighter (the attack is part of the effects)
    RateScale, MitigationK, MitigationMax, CritDamage, MinDamage,
    FlightFrames,    \* frames after which a projectile is out of reach
    LeaveAfter,      \* leave_ms_
    ThreatCapacity,  \* ThreatTable::kCapacity (16)
    BuffSlots,       \* kMaxBuffsPerChar
    MaxFightCalls, MaxCombatEvents         \* bounds

\* A shield below zero is skipped wherever shields are read, as if there were none.
CombatAssumption ==
    /\ RateScale \in Nat \ {0} /\ MitigationK \in Nat \ {0}
    /\ MitigationMax \in 0 .. (RateScale - 1)
    /\ {Defense, CritDamage, MinDamage} \subseteq Int
    /\ BaseHp \in Nat \ {0} /\ PlainHps \subseteq Int /\ BaseMp \in Nat /\ ThreatCapacity \in Nat \ {0}
    /\ IsFiniteSet(Fighters) /\ FlightFrames \in Nat
    /\ \A s \in DOMAIN SkillTable :
          /\ SkillTable[s].aim \in {"self", "single", "shot", "aoe"} /\ SkillTable[s].cast \in Nat
          /\ SkillTable[s].effects \in Seq([kind : {"damage", "heal"}, amount : Int])
          /\ {SkillTable[s].hp, SkillTable[s].mana} \subseteq Int
    /\ \A b \in DOMAIN BuffTable :
          /\ {BuffTable[b].most, BuffTable[b].shield, BuffTable[b].lasts, BuffTable[b].every} \subseteq Nat
          /\ {BuffTable[b].maxHp, BuffTable[b].percent, BuffTable[b].amount} \subseteq Int

ASSUME CombatAssumption

Nobody2 == 0         \* the entity id 0
NoCast == [skill |-> "none"]
Untouched == -1      \* last_combat_at is the zero time

VARIABLES
    coHere,      \* EntityManager: the fighters whose entity exists
    coRoles,     \* [hp, mp, dead] of each character
    coBuffs,     \* by_char_: the instances of each, oldest first
    coPlain,     \* MaxHp without buffs: base, equipment and their formula
    coBonus,     \* attrs.from_buff (MaxHp)
    coBasis,     \* ghost: the coPlain that coBonus was computed from
    coMask,      \* control_mask_
    coCasts,     \* active_casts_
    coCool,      \* CooldownTracker: frames left
    coFlights,   \* projectiles_
    coFlags,     \* CombatEntity::flags, {} for who never fought
    coKnown,     \* the keys of combatants_
    coFoe,       \* CombatEntity::target
    coThreat,    \* ThreatTable: <<source, threat>> pairs
    coQuiet,     \* frames since last_combat_at, or Untouched
    coTicked,    \* now_ is set: a frame was run
    coSilenced,  \* silenced_ of SkillSystem
    coEvents,    \* the events the bus holds
    coOwed,      \* ghost: deaths of each less the EntityDied published
    coCalls      \* calls from outside so far (bound)

coBodies == << coHere, coRoles, coBuffs, coPlain, coBonus, coBasis, coMask, coOwed >>
coFights == << coFlags, coKnown, coFoe, coThreat, coQuiet, coTicked >>
coSkills == << coCasts, coCool, coSilenced >>
combatVars == << coBodies, coSkills, coFlights, coFights, coEvents, coCalls >>

CombatInit ==
    /\ coHere = Fighters
    /\ coRoles = [f \in Fighters |-> [hp |-> BaseHp, mp |-> BaseMp, dead |-> FALSE]]
    /\ coBuffs = [f \in Fighters |-> << >>]
    /\ coPlain = [f \in Fighters |-> BaseHp]
    /\ coBonus = [f \in Fighters |-> 0]
    /\ coBasis = [f \in Fighters |-> BaseHp]
    /\ coMask = [f \in Fighters |-> {}]
    /\ coCasts = [f \in Fighters |-> NoCast]
    /\ coCool = [f \in Fighters |-> [s \in DOMAIN SkillTable |-> 0]]
    /\ coFlights = << >>
    /\ coFlags = [f \in Fighters |-> {}]
    /\ coKnown = {}
    /\ coFoe = [f \in Fighters |-> Nobody2]
    /\ coThreat = [f \in Fighters |-> << >>]
    /\ coQuiet = [f \in Fighters |-> Untouched]
    /\ coTicked = FALSE
    /\ coSilenced = {}
    /\ coEvents = << >>
    /\ coOwed = [f \in Fighters |-> 0]
    /\ coCalls = 0

(***************************************************************************)
(* What a settlement reads and writes, passed along while one handler      *)
(* settles several hits.                                                   *)
(***************************************************************************)
Scene2 == [roles |-> coRoles, buffs |-> coBuffs, plain |-> coPlain, bonus |-> coBonus,
           basis |-> coBasis, mask |-> coMask, flights |-> coFlights, events |-> coEvents,
           owed |-> coOwed]

Becomes(st) ==
    /\ coRoles' = st.roles
    /\ coBuffs' = st.buffs
    /\ coPlain' = st.plain
    /\ coBonus' = st.bonus
    /\ coBasis' = st.basis
    /\ coMask' = st.mask
    /\ coFlights' = st.flights
    /\ coEvents' = st.events
    /\ coOwed' = st.owed

Published(st, kind, source, target, amount) ==
    [st EXCEPT !.events = Append(@, [kind |-> kind, source |-> source,
                                     target |-> target, amount |-> amount])]

Between(n, lo, hi) == IF n < lo THEN lo ELSE IF n > hi THEN hi ELSE n

\* Total(MaxHp): whatever the buffs take away, one hit point is left.
MaxHpWith(plain, bonus) == IF plain + bonus < 1 THEN 1 ELSE plain + bonus

\* RoleSystem::ModifyHp clamps to the maximum of now; zero means dead.
ModifyHp(st, f, delta) ==
    LET old == st.roles[f].hp
        new == Between(old + delta, 0, MaxHpWith(st.plain[f], st.bonus[f]))
    IN [st EXCEPT !.roles[f].hp = new,
                  !.roles[f].dead = new = 0,
                  !.owed[f] = @ + IF old > 0 /\ new = 0 THEN 1 ELSE 0]

\* A call from outside; the bound is on their number.
CallsIn == coCalls < MaxFightCalls /\ coCalls' = coCalls + 1

(***************************************************************************)
(* DamageSystem.                                                           *)
(***************************************************************************)
Crit(raw) == (raw * CritDamage) \div RateScale

\* raw * K / (K + Defense), no less than the cap and MinDamage, no more than raw.
Mitigate(raw, defense) ==
    LET byDefense == (raw * MitigationK) \div (MitigationK + Between(defense, 0, defense))
        byCap == (raw * (RateScale - MitigationMax)) \div RateScale
        least == Max({byDefense, byCap, MinDamage})
    IN IF raw <= 0 THEN 0 ELSE IF least > raw THEN raw ELSE least

\* What the rolls can make of a hit: missed, plain or critical.  (TrueDamage,
\* which is neither mitigated nor dodged, is left out of the schools.)
Settled(raw) == {0, Mitigate(raw, Defense), Mitigate(Crit(raw), Defense)}

ShieldsOf(instances) == [n \in DOMAIN instances |-> instances[n].shield]
ShieldOf(st, f) == SumFunctionOnSet(ShieldsOf(st.buffs[f]), DOMAIN st.buffs[f])

\* ConsumeShield drains the instances in their order.
Drained(instances, amount) ==
    [n \in DOMAIN instances |->
        LET older == SumFunctionOnSet(ShieldsOf(instances), 1 .. (n - 1))
        IN [instances[n] EXCEPT !.shield = @ - Between(amount - older, 0, @)]]

\* ApplyDamage: refused for a negative amount, the gone and the dead; the shield
\* first; a death is announced in the step that causes it.
ApplyDamage(st, source, target, amount) ==
    IF amount < 0 \/ target \notin coHere \/ st.roles[target].hp = 0 THEN {st}
    ELSE { LET absorbed == IF hit < ShieldOf(st, target) THEN hit ELSE ShieldOf(st, target)
               final == hit - absorbed
               spent == [st EXCEPT !.buffs[target] = Drained(@, absorbed)]
               struck == IF final > 0 THEN ModifyHp(spent, target, -final) ELSE spent
               told == Published(struck, "damage", source, target, final)
           IN IF struck.roles[target].hp = 0
              THEN [Published(told, "died", source, target, 0)
                       EXCEPT !.owed[target] = @ - 1]
              ELSE told
           : hit \in Settled(amount) }

\* ApplyHeal: refused like damage; what exceeds the maximum is cut off, and a
\* heal of which all is cut off is not told.
ApplyHeal(st, source, target, amount) ==
    LET room == MaxHpWith(st.plain[target], st.bonus[target]) - st.roles[target].hp
        Effective(raw) == Between(raw, 0, Between(room, 0, room))
        healed(raw) == IF Effective(raw) > 0 THEN ModifyHp(st, target, Effective(raw)) ELSE st
    IN IF amount < 0 \/ target \notin coHere \/ st.roles[target].hp = 0 THEN {st}
       ELSE { IF raw > 0 /\ Effective(raw) = 0 THEN st
              ELSE Published(healed(raw), "heal", source, target, Effective(raw))
              : raw \in {amount, Crit(amount)} }

(***************************************************************************)
(* BuffSystem.                                                             *)
(***************************************************************************)
\* llround: halves go away from zero.
Rounded(n, d) == IF n < 0 THEN -((d - 2 * n) \div (2 * d)) ELSE (2 * n + d) \div (2 * d)

\* An instance adds its flat modifier and its percentage of the value without
\* buffs, whatever its stacks.
Gain(b, plain) == BuffTable[b].maxHp + Rounded(BuffTable[b].percent * plain, RateScale)

BonusOf(instances, plain) ==
    SumFunctionOnSet([n \in DOMAIN instances |-> Gain(instances[n].buff, plain)],
                     DOMAIN instances)

MaskOf(instances) == UNION { BuffTable[instances[n].buff].mask : n \in DOMAIN instances }

\* RecomputeFromBuff and RecomputeControlMask: the hit points are not clamped.
Recomputed(st, f) ==
    [st EXCEPT !.bonus[f] = BonusOf(st.buffs[f], st.plain[f]), !.basis[f] = st.plain[f],
               !.mask[f] = MaskOf(st.buffs[f])]

PositionsOf(instances, b) == { n \in DOMAIN instances : instances[n].buff = b }

Instance(b, source) ==
    [buff |-> b, source |-> source, stacks |-> 1, shield |-> BuffTable[b].shield,
     left |-> BuffTable[b].lasts, next |-> BuffTable[b].every]

\* The instance lasts from now on; a Refresh is one stack more, up to the most.
Renewed(i, d) ==
    [i EXCEPT !.left = d.lasts,
              !.stacks = IF d.rule = "Refresh" /\ @ < d.most THEN @ + 1 ELSE @]

ApplyBuff(f, b, source) ==
    LET d == BuffTable[b]
        held == PositionsOf(coBuffs[f], b)
        first == Min(held)
        kept == IF held # {} /\ Cardinality(held) >= d.most
                THEN RemoveAt(coBuffs[f], first) ELSE coBuffs[f]
    IN /\ CallsIn
       /\ \/ /\ held # {} /\ d.rule \in {"None", "Refresh"}
             /\ Becomes([Scene2 EXCEPT !.buffs[f][first] = Renewed(@, d)])
          \/ /\ held = {} \/ d.rule = "Independent"
             /\ IF Len(kept) >= BuffSlots
                THEN Becomes(Recomputed([Scene2 EXCEPT !.buffs[f] = kept], f))
                ELSE Becomes(Recomputed([Scene2 EXCEPT !.buffs[f] =
                                             Append(kept, Instance(b, source))], f))
       /\ UNCHANGED << coHere, coSkills, coFights >>

WithoutBuff(instances, b) ==
    LET at == CHOOSE at \in SetToSeqs(DOMAIN instances \ PositionsOf(instances, b)) :
                  \A m, n \in DOMAIN at : m < n => at[m] < at[n]
    IN [n \in DOMAIN at |-> instances[at[n]]]

\* Mutant: what the buffs add up to is not computed again.
RemoveBuffOnly(f, b) ==
    /\ CallsIn
    /\ PositionsOf(coBuffs[f], b) # {}
    /\ Becomes([Scene2 EXCEPT !.buffs[f] = WithoutBuff(@, b)])
    /\ UNCHANGED << coHere, coSkills, coFights >>

\* Dispel, and Remove, which asks nothing of the buff.
RemoveBuff(f, b) ==
    /\ CallsIn
    /\ PositionsOf(coBuffs[f], b) # {}
    /\ Becomes(Recomputed([Scene2 EXCEPT !.buffs[f] = WithoutBuff(@, b)], f))
    /\ UNCHANGED << coHere, coSkills, coFights >>

BuffsOnDeath(st, f) == Recomputed([st EXCEPT !.buffs[f] = << >>], f)

\* One instance in the pass over a character, newest first: it ends, or its
\* periodic effect, if it has an interval, is settled and put off by one.
InstanceTicks(st, f, n) ==
    LET i == st.buffs[f][n]
        d == BuffTable[i.buff]
        after == [st EXCEPT !.buffs[f][n].next = d.every]
    IN IF d.lasts > 0 /\ i.left = 0 THEN {[st EXCEPT !.buffs[f] = RemoveAt(@, n)]}
       ELSE IF d.amount = 0 \/ d.every = 0 \/ i.next > 0 THEN {st}
       ELSE IF d.heals THEN ApplyHeal(after, i.source, f, d.amount * i.stacks)
       ELSE ApplyDamage(after, i.source, f, d.amount * i.stacks)

CharacterTicks(st, f) ==
    LET count == Len(st.buffs[f])
        ends[k \in 0 .. count] ==
            IF k = 0 THEN {st} ELSE UNION { InstanceTicks(s, f, count + 1 - k) : s \in ends[k - 1] }
    IN { IF Len(s.buffs[f]) < count THEN Recomputed(s, f) ELSE s : s \in ends[count] }

BuffsTick(st, order) ==
    LET ends[k \in 0 .. Len(order)] ==
            IF k = 0 THEN {st} ELSE UNION { CharacterTicks(s, order[k]) : s \in ends[k - 1] }
    IN ends[Len(order)]

\* A level or a piece of gear: RoleSystem recomputes the total and clamps the
\* hit points to it.  The buffs' part stays what it was, percentages included.
Refit(f, plain) ==
    /\ CallsIn
    /\ plain # coPlain[f]
    /\ coPlain' = [coPlain EXCEPT ![f] = plain]
    /\ coRoles' = [coRoles EXCEPT ![f].hp = Between(@, 0, MaxHpWith(plain, coBonus[f]))]
    /\ UNCHANGED << coHere, coBuffs, coBonus, coBasis, coMask, coOwed, coSkills,
                    coFlights, coFights, coEvents >>

(***************************************************************************)
(* SkillSystem.                                                            *)
(***************************************************************************)
\* ApplyEffects writes the hit points itself: no shield, no mitigation, no
\* look at the dead, and the death it causes is nobody's event.
EffectOn(st, caster, target, effect) ==
    LET told == Published(st, effect.kind, caster, target, effect.amount)
        delta == IF effect.kind = "heal" THEN effect.amount ELSE -effect.amount
    IN IF target \in coHere THEN ModifyHp(told, target, delta) ELSE told

EffectsOn(st, caster, target, effects) ==
    LET after[k \in 0 .. Len(effects)] ==
            IF k = 0 THEN st ELSE EffectOn(after[k - 1], caster, target, effects[k])
    IN after[Len(effects)]

ApplyEffects(st, caster, effects, targets) ==
    LET after[k \in 0 .. Len(targets)] ==
            IF k = 0 THEN st ELSE EffectsOn(after[k - 1], caster, targets[k], effects)
    IN after[Len(targets)]

Hostile(f) == { g \in coHere : Side[g] # Side[f] }

\* The targets TryCast takes, or << >> for NoTarget / InvalidTarget.
TargetsOf(f, s, t) ==
    CASE SkillTable[s].aim = "self" -> << f >>
      [] SkillTable[s].aim \in {"single", "shot"} ->
            IF t \in Hostile(f) THEN << t >> ELSE << >>
      [] SkillTable[s].aim = "aoe" -> SetToSeq(Hostile(f))

Affordable(f, s) ==
    /\ coRoles[f].mp >= SkillTable[s].mana
    /\ coRoles[f].hp >= SkillTable[s].hp

\* The costs and the cooldown fall due when the cast begins.
Paid(st, f, s) ==
    LET mana == [st EXCEPT !.roles[f].mp = Between(@ - SkillTable[s].mana, 0, BaseMp)]
    IN IF SkillTable[s].hp > 0 THEN ModifyHp(mana, f, -SkillTable[s].hp) ELSE mana

\* The time of the last frame, which is the zero time before the first one.
Touch(touched) ==
    /\ coQuiet' = [f \in Fighters |-> IF f \in touched
                                      THEN IF coTicked THEN 0 ELSE Untouched
                                      ELSE coQuiet[f]]
    /\ UNCHANGED coTicked

\* CombatSystem::CastSkill after TryCast: refusals are answers too, so they
\* count as an act of combat, and the flag follows active_casts_ of now.
NotedAsFighter(f, casts) ==
    /\ coKnown' = coKnown \cup {f}
    /\ Touch({f})
    /\ coFlags' = [coFlags EXCEPT ![f] = @ \cup IF casts[f] # NoCast THEN {"Casting"} ELSE {}]
    /\ CallsIn
    /\ UNCHANGED << coFoe, coThreat, coHere, coSilenced >>

CastRefused(f, s, t) ==
    /\ \/ f \notin coHere \/ f \in coSilenced
       \/ coCool[f][s] > 0
       \/ ~ Affordable(f, s)
       \/ TargetsOf(f, s, t) = << >>
       \/ SkillTable[s].aim \in {"single", "shot"}      \* out of range
    /\ NotedAsFighter(f, coCasts)
    /\ Becomes(Scene2)
    /\ UNCHANGED << coCasts, coCool >>

TryCast(f, s, t) ==
    LET skill == SkillTable[s]
        targets == TargetsOf(f, s, t)
        paid == Paid(Scene2, f, s)
    IN /\ f \in coHere \ coSilenced /\ coCool[f][s] = 0
       /\ Affordable(f, s) /\ targets # << >>
       /\ coCool' = [coCool EXCEPT ![f][s] = skill.cool]
       /\ CASE skill.aim = "shot" ->
                 /\ Becomes([paid EXCEPT !.flights = Append(@,
                        [caster |-> f, target |-> t, skill |-> s, left |-> FlightFrames])])
                 /\ coCasts' = coCasts
            [] skill.aim # "shot" /\ skill.cast > 0 ->
                 /\ Becomes(paid)
                 /\ coCasts' = [coCasts EXCEPT ![f] =
                                  [skill |-> s, left |-> skill.cast, targets |-> targets]]
            [] OTHER ->
                 /\ Becomes(ApplyEffects(paid, f, skill.effects, targets))
                 /\ coCasts' = coCasts
       /\ NotedAsFighter(f, coCasts')

Interrupt(f) ==
    /\ CallsIn
    /\ f \in coKnown
    /\ coCasts' = [coCasts EXCEPT ![f] = NoCast]
    /\ coFlags' = [coFlags EXCEPT ![f] = @ \ {"Casting"}]
    /\ UNCHANGED << coBodies, coCool, coSilenced, coFlights, coKnown, coFoe, coThreat,
                    coQuiet, coTicked, coEvents >>

SetSilenced(f, silenced) ==
    /\ CallsIn
    /\ coSilenced' = IF silenced THEN coSilenced \cup {f} ELSE coSilenced \ {f}
    /\ UNCHANGED << coBodies, coCasts, coCool, coFlights, coFights, coEvents >>

\* Casts whose time has come, then the projectiles: gone with their target,
\* at their target, out of reach, or one frame further.
CastsDone == { f \in Fighters : coCasts[f] # NoCast /\ coCasts[f].left <= 1 }

CastEnds(st, f) ==
    IF f \in CastsDone
    THEN ApplyEffects(st, f, SkillTable[coCasts[f].skill].effects, coCasts[f].targets) ELSE st

CastsEnd(st, order) ==
    LET after[k \in 0 .. Len(order)] == IF k = 0 THEN st ELSE CastEnds(after[k - 1], order[k])
    IN after[Len(order)]

FlightEnds(st, p) ==
    LET further == [st EXCEPT !.flights = Append(@, [p EXCEPT !.left = @ - 1])]
    IN IF p.target \notin coHere THEN {st}
       ELSE { ApplyEffects(st, p.caster, SkillTable[p.skill].effects, << p.target >>),
              IF p.left <= 1 THEN st ELSE further }

FlightsEnd(st) ==
    LET ends[k \in 0 .. Len(coFlights)] ==
            IF k = 0 THEN {[st EXCEPT !.flights = << >>]}
            ELSE UNION { FlightEnds(s, coFlights[k]) : s \in ends[k - 1] }
    IN ends[Len(coFlights)]

(***************************************************************************)
(* CombatSystem.                                                           *)
(***************************************************************************)
EnterFight(f, g) ==
    /\ CallsIn
    /\ coKnown' = coKnown \cup {f, g}
    /\ coFlags' = [h \in Fighters |-> IF h \in {f, g} THEN coFlags[h] \cup {"InCombat"}
                                      ELSE coFlags[h]]
    /\ coFoe' = [coFoe EXCEPT ![f] = g, ![g] = f]
    /\ Touch({f, g})
    /\ UNCHANGED << coBodies, coSkills, coFlights, coThreat, coEvents >>

\* LeaveCombat leaves the cast itself, and the buffs, alone.
LeaveFights(out) ==
    /\ coThreat' = [f \in Fighters |-> IF f \in out THEN << >> ELSE coThreat[f]]
    /\ coFoe' = [f \in Fighters |-> IF f \in out THEN Nobody2 ELSE coFoe[f]]

LeaveFight(f) ==
    /\ CallsIn
    /\ f \in coKnown
    /\ LeaveFights({f})
    /\ coFlags' = [coFlags EXCEPT ![f] = @ \ {"InCombat", "Casting"}]
    /\ UNCHANGED << coBodies, coSkills, coFlights, coKnown, coQuiet, coTicked, coEvents >>

Sooner(n) == IF n = 0 THEN 0 ELSE n - 1

Controls == {"Stunned", "Rooted", "Silenced", "Invulnerable"}

\* One frame: time passes, the casts and projectiles of SkillSystem::Update,
\* the pass of BuffSystem::Tick over its characters in any order, and
\* CombatSystem::Update for who is in combat.
FightFrame ==
    LET Aged(i) == [i EXCEPT !.left = Sooner(@), !.next = Sooner(@)]
        aged == [Scene2 EXCEPT !.buffs = [f \in Fighters |->
                    [n \in DOMAIN coBuffs[f] |-> Aged(coBuffs[f][n])]]]
        quiet(f) == IF "InCombat" \in coFlags[f] /\ coQuiet[f] \in 0 .. (LeaveAfter - 1)
                    THEN coQuiet[f] + 1 ELSE coQuiet[f]
        out == { f \in coKnown : "InCombat" \in coFlags[f] /\ quiet(f) >= LeaveAfter }
        in == { f \in coKnown : "InCombat" \in coFlags[f] } \ out
    IN /\ Len(coEvents) < MaxCombatEvents
       /\ \E order \in SetToSeqs(Fighters) :
            \E cast \in {CastsEnd(aged, order)} :
              \E flown \in FlightsEnd(cast) :
                \E st \in BuffsTick(flown, order) :
                   /\ Becomes(st)
                   /\ coFlags' = [f \in Fighters |->
                         IF f \in out THEN coFlags[f] \ {"InCombat", "Casting"}
                         ELSE IF f \in in THEN (coFlags[f] \ Controls) \cup st.mask[f]
                         ELSE coFlags[f]]
       /\ LeaveFights(out)
       /\ coQuiet' = [f \in Fighters |-> quiet(f)]
       /\ coTicked' = TRUE
       /\ coCool' = [f \in Fighters |-> [s \in DOMAIN SkillTable |-> Sooner(coCool[f][s])]]
       /\ coCasts' = [f \in Fighters |->
                        IF f \in CastsDone THEN NoCast
                        ELSE IF coCasts[f] = NoCast THEN NoCast
                        ELSE [coCasts[f] EXCEPT !.left = @ - 1]]
       /\ UNCHANGED << coHere, coSilenced, coKnown, coCalls >>

\* ThreatTable::Add: known sources add up; a full table gives up its lowest.
ThreatAdded(table, source, amount) ==
    LET known == { n \in DOMAIN table : table[n][1] = source }
        least == CHOOSE n \in DOMAIN table :
                    /\ \A m \in DOMAIN table : table[n][2] <= table[m][2]
                    /\ \A m \in 1 .. (n - 1) : table[m][2] > table[n][2]
    IN IF known # {} THEN [table EXCEPT ![Min(known)] = << source, @[2] + amount >>]
       ELSE IF Len(table) < ThreatCapacity THEN Append(table, << source, amount >>)
       ELSE [table EXCEPT ![least] = << source, amount >>]

\* The bus hands over its oldest event: OnDamageEvent and OnHealEvent, and the
\* host, which hears of an EntityDied, calls OnDeath.
DeliverEvent ==
    /\ coEvents # << >>
    /\ LET e == Head(coEvents)
           left == Tail(coEvents)
           amount == IF e.kind = "heal" THEN e.amount \div 2 ELSE e.amount
       IN \/ /\ e.kind \in {"damage", "heal"}
             /\ Becomes([Scene2 EXCEPT !.events = left])
             /\ coThreat' = IF e.target \in coKnown
                            THEN [coThreat EXCEPT ![e.target] =
                                     ThreatAdded(@, e.source, amount)]
                            ELSE coThreat
             /\ UNCHANGED << coFlags, coFoe >>
          \/ /\ e.kind = "died" /\ e.target \in coKnown
             /\ Becomes(BuffsOnDeath([Scene2 EXCEPT !.events = left], e.target))
             /\ LeaveFights({e.target})
             /\ coFlags' = [coFlags EXCEPT ![e.target] =
                               (@ \ {"InCombat", "Casting"}) \cup {"Dead"}]
          \/ /\ e.kind = "died" /\ e.target \notin coKnown
             /\ Becomes([Scene2 EXCEPT !.events = left])
             /\ UNCHANGED << coFlags, coFoe, coThreat >>
    /\ UNCHANGED << coHere, coSkills, coKnown, coQuiet, coTicked, coCalls >>

\* The entity goes and SkillSystem::UnbindAvatar forgets it; a cast of its own
\* goes with it, a projectile of its own does not.
Depart(f) ==
    /\ CallsIn
    /\ f \in coHere
    /\ coHere' = coHere \ {f}
    /\ coCasts' = [coCasts EXCEPT ![f] = NoCast]
    /\ coCool' = [coCool EXCEPT ![f] = [s \in DOMAIN SkillTable |-> 0]]
    /\ coSilenced' = coSilenced \ {f}
    /\ UNCHANGED << coRoles, coBuffs, coPlain, coBonus, coBasis, coMask, coOwed,
                    coFlights, coFights, coEvents >>

CombatNext ==
    \/ \E f, g \in Fighters : EnterFight(f, g)
    \/ \E f \in Fighters : LeaveFight(f) \/ Interrupt(f) \/ Depart(f)
    \/ \E f \in Fighters, silenced \in BOOLEAN : SetSilenced(f, silenced)
    \/ \E f, g \in Fighters, s \in DOMAIN SkillTable : CastRefused(f, s, g)
    \/ \E f, g \in Fighters, s \in DOMAIN SkillTable : TryCast(f, s, g)
    \/ \E f, g \in Fighters, b \in DOMAIN BuffTable : ApplyBuff(f, b, g)
    \/ \E f \in Fighters, b \in DOMAIN BuffTable : RemoveBuff(f, b)
    \/ \E f \in Fighters, plain \in PlainHps : Refit(f, plain)
    \/ FightFrame
    \/ DeliverEvent

CombatSpec == CombatInit /\ [][CombatNext]_combatVars

-----------------------------------------------------------------------------
(***************************************************************************)
(* Properties.                                                             *)
(***************************************************************************)

\* What the character's attributes and control mask hold is what the live
\* instances add up to, through stacking, eviction, expiry, dispelling and
\* death (BuffSystem keeps both as running results): flat modifiers exactly,
\* percentages of the value without buffs at the last change of a buff, which
\* levels and gear may have left behind (BonusIsCurrent); a shield never owes; a
\* definition has no more instances than it allows, or one if it allows none;
\* the threat tables keep one entry per source and stay within their capacity.
BuffsAddUp ==
    \A f \in Fighters :
        /\ coBonus[f] = BonusOf(coBuffs[f], coBasis[f])
        /\ coMask[f] = MaskOf(coBuffs[f])
        /\ \A n \in DOMAIN coBuffs[f] :
              coBuffs[f][n].shield \in 0 .. BuffTable[coBuffs[f][n].buff].shield
        /\ \A b \in DOMAIN BuffTable :
              Cardinality(PositionsOf(coBuffs[f], b)) <= IF BuffTable[b].most = 0 THEN 1 ELSE BuffTable[b].most
        /\ Len(coThreat[f]) <= ThreatCapacity
        /\ \A m, n \in DOMAIN coThreat[f] : coThreat[f][m][1] = coThreat[f][n][1] => m = n

\* The buffs' part is that of the level and the gear of now, as buff_def.h says of
\* a multiplier.  RecomputeAttributes and ApplyLevelUp add the layers up again and
\* leave from_buff alone: a percentage is stale until the next change of a buff.
BonusIsCurrent == \A f \in Fighters : coBonus[f] = BonusOf(coBuffs[f], coPlain[f])

\* EntityDied is never sent for a death that did not happen, nor twice for
\* one, whichever of hits, periodic effects and projectiles caused it.
ObituariesAreDeaths ==
    \A f \in Fighters :
        /\ coOwed[f] >= 0
        /\ coRoles[f].dead <=> coRoles[f].hp = 0

\* Every change from alive to dead is announced by DamageSystem, as the
\* comment in CombatSystem::OnDeath says.  Skills, and the price of a skill
\* in hit points, kill without a word.
DeathsAreAnnounced == \A f \in Fighters : coOwed[f] = 0

\* Hit points stay within the maximum.  The end of a buff lowers the maximum
\* and leaves them.
HpWithinMax == \A f \in Fighters : coRoles[f].hp <= MaxHpWith(coPlain[f], coBonus[f])

\* The dead hold no threat.  An event of the dying moment, or a projectile
\* that lands later, is delivered after the table was cleared.
DeadHoldNoThreat ==
    \A f \in Fighters : "Dead" \in coFlags[f] => coThreat[f] = << >>

\* The Casting flag says that a cast is going on.
CastingIsTold == \A f \in Fighters : "Casting" \in coFlags[f] => coCasts[f] # NoCast

\* A dead fighter stays dead: only a heal of DamageSystem is refused.
DeadStayDead ==
    [][\A f \in Fighters : coRoles[f].dead => coRoles'[f].dead]_combatVars

=============================================================================
