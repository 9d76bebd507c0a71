------------------------------- MODULE MCGame -------------------------------
(* A game node on small instances, and beside it the files its definitions  *)
(* are read from.                                                           *)
EXTENDS Game, Definitions

MCFoci == {"parties", "friends", "guilds", "mails", "quests", "players", "instances",
           "creatures", "combat", "characters", "scheduler", "frames", "recovery", "keys",
           "texts", "tables"}

Objective(event, count) == [event |-> event, count |-> count]
QuestDef(id, level, pre, objectives) ==
    [id |-> id, level |-> level, pre |-> pre, objectives |-> objectives]
MCQuestDirs ==
    {<<QuestDef(1, 1, {}, <<Objective("kill", 2), Objective("talk", 1)>>),
       QuestDef(2, 2, {1}, <<Objective("kill", 1)>>)>>,
     <<QuestDef(2, 1, {}, <<>>)>>}
MCDefsOffered ==
    {QuestDef(1, 1, {}, <<Objective("kill", 1)>>), QuestDef(2, 1, {}, <<Objective("kill", 0)>>)}

InstanceDef(limit, most, spawns, open) == [limit |-> limit, most |-> most, spawns |-> spawns, open |-> open]
MCInstanceConfigs ==
    {<<InstanceDef(2, 1, 1, FALSE), InstanceDef(0, 2, 2, TRUE)>>, <<InstanceDef(0, 1, 1, FALSE)>>}

MCWishes == -5 .. 5
MCHomes == (11 :> 0) @@ (1 :> 2)

Skill(aim, mana, hp, cool, cast, effects) ==
    [aim |-> aim, mana |-> mana, hp |-> hp, cool |-> cool, cast |-> cast, effects |-> effects]
Effect(kind, amount) == [kind |-> kind, amount |-> amount]
MCSkills ==
    [slash |-> Skill("single", 1, 0, 1, 0, <<Effect("damage", 2)>>),
     mend  |-> Skill("self", 1, 0, 2, 2, <<Effect("heal", 1)>>),
     bolt  |-> Skill("shot", 0, 1, 1, 0, <<Effect("damage", 1)>>),
     nova  |-> Skill("aoe", 1, 0, 1, 1, <<Effect("damage", 1)>>)]
Buff(rule, most, lasts, every, amount, shield, maxHp, percent, mask) ==
    [rule |-> rule, most |-> most, lasts |-> lasts, every |-> every, heals |-> FALSE,
     amount |-> amount, shield |-> shield, maxHp |-> maxHp, percent |-> percent, mask |-> mask]
MCBuffs ==
    [poison |-> Buff("Refresh", 2, 2, 1, 1, 0, 0, 0, {}),
     ward   |-> Buff("Independent", 1, 1, 0, 0, 1, -1, 9, {"Stunned"})]
MCSides == (1 :> 1) @@ (2 :> 2)

Item(stack, level, wear, slots, bonus) ==
    [stack |-> stack, level |-> level, wear |-> wear, slots |-> slots, bonus |-> bonus]
MCItems ==
    [sword  |-> Item(1, 2, 3, {"hand"}, 2), dart |-> Item(2, 1, 0, {"hand"}, 1),
     potion |-> Item(2, 1, 0, {}, 0)]
MCItemFiles ==
    {<< <<"potion">>, <<"sword", "dart">> >>, << <<"sword", "sword">>, <<"bad">>, <<"potion">> >>}
MCExpNeeds == <<1, 2>>
MCHpDeltas == {-1, 1}
MCMpDeltas == {-1}

MCUptime == (1 :> 0) @@ (2 :> 1)

FileEntry(id, fine) == [id |-> id, fine |-> fine]
SkillEntry(id, fine, buffs) == [id |-> id, fine |-> fine, buffs |-> buffs]
PriceEntry(item, least, most) == [item |-> item, fine |-> TRUE, least |-> least, most |-> most]
InstanceEntry(id, least, most) == [id |-> id, fine |-> TRUE, least |-> least, most |-> most]
WorldFile(ids, instances) ==
    [worlds |-> SetToSeq({FileEntry(id, TRUE) : id \in ids}), instances |-> instances]
MCBuffFiles ==
    {<<FileEntry(1, TRUE), FileEntry(2, FALSE)>>,
     <<FileEntry(2, TRUE), FileEntry(3, TRUE), FileEntry(4, TRUE)>>}
MCSkillFiles ==
    {<<SkillEntry(1, TRUE, {1}), SkillEntry(2, TRUE, {2})>>,
     <<SkillEntry(0, TRUE, {}), SkillEntry(1, TRUE, {0})>>,
     <<SkillEntry(2, TRUE, {4}), SkillEntry(3, FALSE, {})>>}
MCPriceFiles ==
    {<<PriceEntry(1, 0, 2), PriceEntry(2, 1, 3)>>, <<PriceEntry(1, 2, 2), PriceEntry(4, 1, 1)>>,
     <<PriceEntry(2, 2, 1)>>}
MCWorldDirs ==
    {<<WorldFile({1}, <<InstanceEntry(1, 0, 2)>>), WorldFile({}, <<InstanceEntry(2, 1, 1)>>)>>,
     <<WorldFile({1}, <<>>), WorldFile({4}, <<>>)>>,
     <<WorldFile({}, <<InstanceEntry(1, 1, 1), InstanceEntry(4, 1, 1)>>)>>,
     <<WorldFile({}, <<InstanceEntry(3, 0, 3)>>)>>, <<WorldFile({}, <<InstanceEntry(2, 2, 1)>>)>>}


(* The instances are defined in several ways where a run is about them.     *)
MCInit ==
    /\ GameInit /\ DefinitionsInit
    /\ focus # "instances" => woDefs = <<InstanceDef(0, 1, 1, FALSE)>>

OnGame == GameNext /\ UNCHANGED deVars
OnDefinitions ==
    /\ \/ focus = "texts" /\ TextsNext
       \/ focus = "tables" /\ TablesNext
    /\ UNCHANGED gameVars

MCNext == OnGame \/ OnDefinitions
MCSpec == MCInit /\ [][MCNext]_<<gameVars, deVars>> /\ WF_gameVars(OnInstances(WorldTick))
=============================================================================
