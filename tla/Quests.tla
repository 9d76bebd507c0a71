-------------------------------- MODULE Quests --------------------------------
(***************************************************************************)
(* QuestSystem: quest definitions, loaded from files or registered one by  *)
(* one while the server runs, the instances the players hold, and the      *)
(* index that leads an event to the objectives that wait for it.  All of   *)
(* it runs on one thread.  An event's type and target are one value; no    *)
(* definition waits for the same one twice.                                *)
(***************************************************************************)
EXTENDS Integers, Sequences, FiniteSets, SequencesExt

CONSTANTS QuestPlayers, QuestIds,
          Levels,           \* what the role system may say of a player's level
          QuestDirs,        \* directories LoadQuests may be given: sequences of definitions
          DefsOffered,      \* definitions RegisterDef may be given
          OneShot,          \* events of type TalkNpc or ReachLocation
          EventCounts,      \* the counts events carry
          MaxRegistrations, \* bound: calls of LoadQuests and RegisterDef after the first
          MaxGrantFailures  \* bound: rewards the sink refuses

\* What a definition is; QuestIds are all the ids that a definition has or asks for.
QuestDefs == [id : QuestIds, level : Int, pre : SUBSET QuestIds,
              objectives : Seq([event : STRING, count : Int])]
ASSUME QuestsAssumption ==
    DefsOffered \subseteq QuestDefs /\ QuestDirs \subseteq Seq(QuestDefs) /\ EventCounts \subseteq Nat

VARIABLES
    quDefs,           \* defs_: quest -> its definition [id, level, pre, objectives], or NoDef
    quHeld,           \* players_: player -> quest -> instance [status, progress, needs]; needs is
                      \* a ghost, the prerequisites it was accepted under
    quIndex,          \* index_: entries [player, quest, objective, event]
    quTurnedIn,       \* turned_in_: pairs of player and quest
    quGranted,        \* player -> quest -> rewards granted
    quRegistrations, quGrantFailures

questVars == <<quDefs, quHeld, quIndex, quTurnedIn, quGranted, quRegistrations, quGrantFailures>>

NoDef == [id |-> 0, level |-> 0, pre |-> {}, objectives |-> <<>>]
NotHeld == [status |-> "None", progress |-> <<>>, needs |-> {}]
QuestEvents == UNION {{o.event : o \in ToSet(d.objectives)} : d \in DefsOffered \cup UNION {ToSet(f) : f \in QuestDirs}}

QuestsInit ==
    /\ quDefs = [q \in QuestIds |-> NoDef]
    /\ quHeld = [p \in QuestPlayers |-> [q \in QuestIds |-> NotHeld]]
    /\ quGranted = [p \in QuestPlayers |-> [q \in QuestIds |-> 0]]
    /\ quIndex = {} /\ quTurnedIn = {} /\ quRegistrations = 0 /\ quGrantFailures = 0

----------------------------------------------------------------------------
(* Definitions. *)

DefIsSound(d) == d.objectives # <<>> /\ \A i \in DOMAIN d.objectives : d.objectives[i].count > 0

\* One unsound definition in one file refuses the whole directory; a later one of an id wins.
LoadQuests(dir) ==
    /\ quRegistrations <= MaxRegistrations /\ quRegistrations' = quRegistrations + 1
    /\ \A i \in DOMAIN dir : DefIsSound(dir[i])
    /\ quDefs' = [q \in QuestIds |-> LET at == {i \in DOMAIN dir : dir[i].id = q}
                                      IN IF at = {} THEN quDefs[q] ELSE dir[Max(at)]]
    /\ UNCHANGED <<quHeld, quIndex, quTurnedIn, quGranted, quGrantFailures>>

RegisterDef(d) ==
    /\ quRegistrations <= MaxRegistrations /\ quRegistrations' = quRegistrations + 1
    /\ DefIsSound(d)
    /\ quDefs' = [quDefs EXCEPT ![d.id] = d]
    /\ UNCHANGED <<quHeld, quIndex, quTurnedIn, quGranted, quGrantFailures>>

----------------------------------------------------------------------------
(* The life of a quest. *)

InsertObjectives(p, q, d) ==
    {[player |-> p, quest |-> q, objective |-> i, event |-> d.objectives[i].event] : i \in DOMAIN d.objectives}
EraseQuest(index, p, q) == {e \in index : ~(e.player = p /\ e.quest = q)}

CanAccept(p, d, level) ==
    /\ level >= d.level
    /\ \A pre \in d.pre : quHeld[p][pre].status = "TurnedIn"

Accept(p, q, level) ==
    LET d == quDefs[q]
    IN /\ d # NoDef
       /\ quHeld[p][q].status \notin {"Accepted", "Completed", "TurnedIn"}
       /\ CanAccept(p, d, level)
       /\ quHeld' = [quHeld EXCEPT ![p][q] = [status |-> "Accepted", needs |-> d.pre,
                                              progress |-> [i \in DOMAIN d.objectives |-> 0]]]
       /\ quIndex' = EraseQuest(quIndex, p, q) \cup InsertObjectives(p, q, d)
       /\ UNCHANGED <<quDefs, quTurnedIn, quGranted, quRegistrations, quGrantFailures>>

Abandon(p, q) ==
    /\ quHeld[p][q].status \notin {"None", "TurnedIn"}
    /\ quHeld' = [quHeld EXCEPT ![p][q].status = "Abandoned", ![p][q].progress = [i \in DOMAIN @ |-> 0]]
    /\ quIndex' = EraseQuest(quIndex, p, q)
    /\ UNCHANGED <<quDefs, quTurnedIn, quGranted, quRegistrations, quGrantFailures>>

\* A refused reward leaves the quest Completed, to be turned in again.
TurnIn(p, q) ==
    /\ quDefs[q] # NoDef /\ <<p, q>> \notin quTurnedIn
    /\ quHeld[p][q].status = "Completed"
    /\ \/ /\ quGranted' = [quGranted EXCEPT ![p][q] = @ + 1]
          /\ quHeld' = [quHeld EXCEPT ![p][q].status = "TurnedIn"]
          /\ quTurnedIn' = quTurnedIn \cup {<<p, q>>}
          /\ quIndex' = EraseQuest(quIndex, p, q)
          /\ UNCHANGED quGrantFailures
       \/ /\ quGrantFailures < MaxGrantFailures /\ quGrantFailures' = quGrantFailures + 1
          /\ UNCHANGED <<quGranted, quHeld, quTurnedIn, quIndex>>
    /\ UNCHANGED <<quDefs, quRegistrations>>

----------------------------------------------------------------------------
(* Events. *)

\* The entry e still agrees with the current definition, and its objective is not reached.
Advances(e) ==
    LET inst == quHeld[e.player][e.quest]  objectives == quDefs[e.quest].objectives
    IN /\ inst.status = "Accepted"
       /\ e.objective \in DOMAIN objectives \cap DOMAIN inst.progress
       /\ objectives[e.objective].event = e.event
       /\ inst.progress[e.objective] < objectives[e.objective].count

Progressed(e, count) ==
    LET required == quDefs[e.quest].objectives[e.objective].count
        current  == quHeld[e.player][e.quest].progress[e.objective] + (IF count = 0 THEN 1 ELSE count)
    IN IF e.event \in OneShot \/ current > required THEN required ELSE current

RefreshCompletion(inst, d) ==
    IF \A i \in DOMAIN d.objectives : i \in DOMAIN inst.progress /\ inst.progress[i] >= d.objectives[i].count
    THEN [inst EXCEPT !.status = "Completed"] ELSE inst

OnEvent(p, event, count) ==
    LET hit == {e \in quIndex : e.player = p /\ e.event = event /\ Advances(e)}
        After(e) == RefreshCompletion([quHeld[p][e.quest] EXCEPT !.progress[e.objective] = Progressed(e, count)],
                                      quDefs[e.quest])
    IN /\ hit # {}
       /\ quHeld' = [quHeld EXCEPT ![p] = [q \in QuestIds |->
                        IF \E e \in hit : e.quest = q THEN After(CHOOSE e \in hit : e.quest = q) ELSE @[q]]]
       /\ quIndex' = quIndex \ {e \in hit : Progressed(e, count) >= quDefs[e.quest].objectives[e.objective].count}
       /\ UNCHANGED <<quDefs, quTurnedIn, quGranted, quRegistrations, quGrantFailures>>

QuestsNext ==
    \/ \E dir \in QuestDirs : LoadQuests(dir)
    \/ \E d \in DefsOffered : RegisterDef(d)
    \/ \E p \in QuestPlayers, q \in QuestIds :
          Abandon(p, q) \/ TurnIn(p, q) \/ \E level \in Levels : Accept(p, q, level)
    \/ \E p \in QuestPlayers, event \in QuestEvents, count \in EventCounts : OnEvent(p, event, count)

QuestsSpec == QuestsInit /\ [][QuestsNext]_questVars

----------------------------------------------------------------------------
\* A reward is granted exactly once to a player whose quest is turned in and to nobody else, a quest
\* is held only by those who turned in what it required, and no event reaches a quest that is over.
RewardsAreEarned ==
    \A p \in QuestPlayers, q \in QuestIds :
        LET inst == quHeld[p][q]
        IN /\ quGranted[p][q] = IF inst.status = "TurnedIn" THEN 1 ELSE 0
           /\ <<p, q>> \in quTurnedIn <=> inst.status = "TurnedIn"
           /\ \A pre \in inst.needs : quHeld[p][pre].status = "TurnedIn"
           /\ inst.status \in {"None", "Abandoned", "TurnedIn"} => EraseQuest(quIndex, p, q) = quIndex

\* Registering a definition does not strand who holds the quest: whatever its objectives still lack
\* can be reached by events, and something is lacking as long as it is not Completed.
HeldQuestsCanComplete ==
    \A p \in QuestPlayers, q \in QuestIds :
        LET inst == quHeld[p][q]  objectives == quDefs[q].objectives
            Lacks(i) == i \notin DOMAIN inst.progress \/ inst.progress[i] < objectives[i].count
        IN inst.status = "Accepted" =>
              /\ \E i \in DOMAIN objectives : Lacks(i)
              /\ \A i \in DOMAIN objectives : Lacks(i) =>
                    \E e \in quIndex : /\ e.player = p /\ e.quest = q /\ e.objective = i
                                       /\ e.event = objectives[i].event /\ Advances(e)
=============================================================================
