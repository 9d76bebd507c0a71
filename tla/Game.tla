-------------------------------- MODULE Game --------------------------------
(* The systems of a game node (social, quests, scenes and instances,        *)
(* creatures, combat, characters and their bags, what drives a simulation,  *)
(* the keys of economy commands several nodes race for), which share no     *)
(* state: a behaviour picks a part of one of them and runs it.              *)
EXTENDS Social, Quests, World, Creatures, Combat, Characters, Simulation, Idempotency

CONSTANT Foci        \* the parts there are

VARIABLE focus

fightVars == <<creatureVars, combatVars>>
playVars == <<socialVars, questVars, worldVars>>
driverVars == <<simVars, idVars>>
gameVars == <<focus, playVars, fightVars, charVars, driverVars>>

GameInit ==
    /\ focus \in Foci
    /\ SocialInit /\ QuestsInit /\ WorldInit /\ CreaturesInit /\ CombatInit
    /\ CharactersInit /\ SimulationInit /\ IdempotencyInit

OnSocial ==
    /\ \/ focus = "parties" /\ PartiesNext
       \/ focus = "friends" /\ FriendsNext
       \/ focus = "guilds" /\ GuildsNext
       \/ focus = "mails" /\ MailsNext
    /\ UNCHANGED <<focus, questVars, worldVars, fightVars, charVars, driverVars>>
OnQuests ==
    /\ focus = "quests" /\ QuestsNext
    /\ UNCHANGED <<focus, socialVars, worldVars, fightVars, charVars, driverVars>>
OnPlayers ==
    /\ focus = "players" /\ PlayersNext
    /\ UNCHANGED <<focus, socialVars, questVars, fightVars, charVars, driverVars>>
OnInstances(A) ==
    /\ focus = "instances" /\ A
    /\ UNCHANGED <<focus, socialVars, questVars, fightVars, charVars, driverVars>>
OnCreatures ==
    /\ focus = "creatures" /\ CreaturesNext
    /\ UNCHANGED <<focus, playVars, combatVars, charVars, driverVars>>
OnCombat ==
    /\ focus = "combat" /\ CombatNext
    /\ UNCHANGED <<focus, playVars, creatureVars, charVars, driverVars>>
OnCharacters ==
    /\ focus = "characters" /\ CharactersNext
    /\ UNCHANGED <<focus, playVars, fightVars, driverVars>>
OnSimulation ==
    /\ \/ focus = "scheduler" /\ SchedulerNext
       \/ focus = "frames" /\ FramesNext
       \/ focus = "recovery" /\ RecoveryNext
    /\ UNCHANGED <<focus, playVars, fightVars, charVars, idVars>>
OnKeys ==
    /\ focus = "keys" /\ IdempotencyNext
    /\ UNCHANGED <<focus, playVars, fightVars, charVars, simVars>>

GameNext ==
    OnSocial \/ OnQuests \/ OnPlayers \/ OnInstances(InstancesNext) \/ OnCreatures \/ OnCombat
    \/ OnCharacters \/ OnSimulation \/ OnKeys

\* The fairness of the world: the host goes on ticking.
GameSpec == GameInit /\ [][GameNext]_gameVars /\ WF_gameVars(OnInstances(WorldTick))

-----------------------------------------------------------------------------
(* What the players hold is what was earned: parties and guilds keep their  *)
(* limits, the store follows memory, mutual friendship and one grant for a  *)
(* mail; a quest's reward is granted once, to who turned it in; items stay  *)
(* in one place, experience buys its levels and saves are not forgotten; a  *)
(* command whose key expired under nobody takes effect once, on one node.   *)
PlayersAreServed ==
    /\ GroupsAreSound /\ StoreFollowsMemory /\ RewardsAreEarned
    /\ ItemsAreConserved /\ LevelsAreEarned /\ SavesAreNotForgotten
    /\ OneRunUntilReaped /\ AnswersAreOfRuns

(* The scene is consistent with itself: scenes and live entities with the   *)
(* instances they belong to, sights with distances, monsters with their     *)
(* counts and timers; its ticks keep their beat, and a client's frames.     *)
ScenesAreSound ==
    NothingOutlivesItsScene /\ SightsAndStatesAreTold /\ TicksKeepTheBeat /\ LoopKeepsTime

(* A fighter's attributes are what the live buffs add up to, and no death   *)
(* is announced that was not one, or twice; a character's vitals keep to    *)
(* what its level and the gear it wears allow.                              *)
FightsAddUp == BuffsAddUp /\ ObituariesAreDeaths /\ VitalsAreSound /\ GearCounts

(* Who is within the world and no faster than allowed is carried no further *)
(* than a legal step at a time; no checkpoint of a scene is lost or replaced *)
(* by anything but the next; the answer kept for a command stays until its  *)
(* row is seen expired.                                                     *)
StepsAndRecordsAdvance == StepsAreLegal /\ CheckpointsGrow /\ CompletedStays
=============================================================================
