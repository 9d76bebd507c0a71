----------------------------- MODULE Definitions -----------------------------
(* The files a game node's definitions come from. Every module has a JSON   *)
(* reader of its own, all of one shape: a descent that looks at one token   *)
(* at a time; they differ in what they do when the token is not the one     *)
(* expected. The tables of buffs, skills, prices, worlds and instances are  *)
(* filled from what was read, entry by entry, ids cut to the table's width. *)
EXTENDS Integers, Sequences, FiniteSets, SequencesExt

CONSTANTS TextMax,      \* the longest text, in tokens
          JsonMaxDepth, \* how deep the core's reader follows
          IdWidth,      \* ids and counts are kept modulo this (2^32)
          BuffFiles,    \* sequences of [id, fine]
          SkillFiles,   \* sequences of [id, fine, buffs]
          PriceFiles,   \* sequences of [item, fine, least, most]
          MaxVersion,   \* price tables loaded
          WorldDirs     \* sequences of [worlds |-> ids, instances |-> sequences of [id, fine, least, most]]

VARIABLES deText,   \* the text being read
          deBuffs,  \* ids BuffRegistry holds
          deSkills, \* SkillRegistry::skills_
          deIndex,  \* SkillRegistry::id_to_index_
          dePrices, \* [entries, version] of PriceTable
          dePriced, \* the price file last accepted
          deBundle  \* [worlds, instances] of the WorldConfigBundle in use
tableVars == <<deBuffs, deSkills, deIndex, dePrices, dePriced, deBundle>>
deVars == <<deText, tableVars>>

-----------------------------------------------------------------------------
(* Tokens: punctuation, one string, one number, a word and a misspelt one.  *)
String == "k"
Number == "1"
Word == "true"
Misspelt == "trap"
Tokens == {"{", "}", "[", "]", ",", ":", String, Number, Word, Misspelt}

Scalar(token) == [type |-> token, items |-> <<>>]
Array(items) == [type |-> "array", items |-> items]
Object(fields) == [type |-> "object", items |-> fields]
Field(key, value) == [key |-> key, value |-> value]
Null == Scalar("null")

(* A reader. misspelt: any four letters pass for the word. mends: what was  *)
(* not expected becomes a null and reading goes on from there. deepest: how *)
(* many brackets may be open.                                               *)
StrictReader == [misspelt |-> FALSE, mends |-> FALSE, deepest |-> TextMax]
ConfigReader == [StrictReader EXCEPT !.deepest = JsonMaxDepth]
BuffReader == StrictReader
SkillReader == StrictReader
QuestReader == StrictReader
ClientReader == StrictReader
PriceReader == [StrictReader EXCEPT !.misspelt = TRUE]
NpcReader == [PriceReader EXCEPT !.mends = TRUE]
WorldReader == [PriceReader EXCEPT !.mends = TRUE]
Readers == {ConfigReader, BuffReader, SkillReader, QuestReader, ClientReader,
            PriceReader, NpcReader, WorldReader}

\* What a parse returns: whether it goes on, where the cursor is, the value.
Got(value, at) == [ok |-> TRUE, at |-> at, value |-> value]
Unexpected(reader, at) == [ok |-> reader.mends, at |-> at, value |-> Null]
Peek(text, at) == IF at \in DOMAIN text THEN text[at] ELSE "end"

RECURSIVE ParseValue(_, _, _, _), ParseObject(_, _, _, _, _), ParseArray(_, _, _, _, _)
ParseValue(reader, text, at, depth) ==
    LET token == Peek(text, at) IN
    CASE token \in {"{", "["} /\ depth >= reader.deepest -> [ok |-> FALSE, at |-> at, value |-> Null]
      [] token = "{" /\ depth < reader.deepest ->
             IF Peek(text, at + 1) = "}" THEN Got(Object(<<>>), at + 2)
             ELSE ParseObject(reader, text, at + 1, depth + 1, <<>>)
      [] token = "[" /\ depth < reader.deepest ->
             IF Peek(text, at + 1) = "]" THEN Got(Array(<<>>), at + 2)
             ELSE ParseArray(reader, text, at + 1, depth + 1, <<>>)
      [] token \in {String, Number, Word} -> Got(Scalar(token), at + 1)
      [] token = Misspelt /\ reader.misspelt -> Got(Scalar(Word), at + 1)
      [] OTHER -> Unexpected(reader, at)

\* From a key on, with the fields read so far.
ParseObject(reader, text, at, depth, fields) ==
    IF Peek(text, at) # String THEN Unexpected(reader, at)
    ELSE IF Peek(text, at + 1) # ":" THEN Unexpected(reader, at + 1)
    ELSE LET got == ParseValue(reader, text, at + 2, depth)
             read == Append(fields, Field(Peek(text, at), got.value))
         IN  IF ~got.ok THEN got
             ELSE CASE Peek(text, got.at) = "," -> ParseObject(reader, text, got.at + 1, depth, read)
                    [] Peek(text, got.at) = "}" -> Got(Object(read), got.at + 1)
                    [] OTHER -> Unexpected(reader, got.at)

\* From an element on, with the elements read so far.
ParseArray(reader, text, at, depth, items) ==
    LET got == ParseValue(reader, text, at, depth)
        read == Append(items, got.value)
    IN  IF ~got.ok THEN got
        ELSE CASE Peek(text, got.at) = "," -> ParseArray(reader, text, got.at + 1, depth, read)
               [] Peek(text, got.at) = "]" -> Got(Array(read), got.at + 1)
               [] OTHER -> Unexpected(reader, got.at)

Parse(reader, text) ==
    LET got == ParseValue(reader, text, 1, 0)
    IN  [accepted |-> got.ok /\ got.at = Len(text) + 1, value |-> got.value]

-----------------------------------------------------------------------------
(* The reference: the texts of exactly n tokens that are JSON, each with    *)
(* its value, generated from the values up.                                 *)
Json[n \in 0 .. TextMax] ==
    LET Pair(text, value) == [text |-> text, value |-> value]
        values == {Pair(<<t>>, Scalar(t)) : t \in IF n = 1 THEN {String, Number, Word} ELSE {}}
                  \cup (IF n = 2 THEN {Pair(<<"[", "]">>, Array(<<>>)), Pair(<<"{", "}">>, Object(<<>>))} ELSE {})
                  \cup (IF n < 3 THEN {} ELSE
                        {Pair(<<"[">> \o l.text \o <<"]">>, Array(l.value)) : l \in Json[n - 2].lists}
                        \cup {Pair(<<"{">> \o l.text \o <<"}">>, Object(l.value)) : l \in Json[n - 2].fields})
        One == {Pair(v.text, <<v.value>>) : v \in values}
        OneField == IF n < 3 THEN {} ELSE
                    {Pair(<<String, ":">> \o v.text, <<Field(String, v.value)>>) : v \in Json[n - 2].values}
        More(left, right) == {Pair(l.text \o <<",">> \o r.text, l.value \o r.value) : l \in left, r \in right}
    IN  [values |-> values,
         lists  |-> One \cup UNION {More({Pair(v.text, <<v.value>>) : v \in Json[i].values}, Json[n - 1 - i].lists)
                                    : i \in 1 .. n - 2},
         fields |-> OneField \cup UNION {More({Pair(<<String, ":">> \o v.text, <<Field(String, v.value)>>)
                                               : v \in Json[i - 2].values}, Json[n - 1 - i].fields)
                                         : i \in 3 .. n - 2}]
JsonTexts == UNION {Json[n].values : n \in 0 .. TextMax}
MeaningOf == [text \in {j.text : j \in JsonTexts} |-> (CHOOSE j \in JsonTexts : j.text = text).value]

\* A text of a file: JSON, or JSON with one token dropped, added or replaced.
DamagedOf(text) ==
    {RemoveAt(text, i) : i \in DOMAIN text}
    \cup {ReplaceAt(text, i, t) : i \in DOMAIN text, t \in Tokens}
    \cup (IF Len(text) = TextMax THEN {} ELSE {InsertAt(text, i, t) : i \in 1 .. Len(text) + 1, t \in Tokens})
Texts == UNION {{text} \cup DamagedOf(text) : text \in DOMAIN MeaningOf}

\* At no token are more than depth brackets open.
NestsWithin(depth, text) ==
    \A i \in DOMAIN text :
        Cardinality({j \in 1 .. i : text[j] \in {"[", "{"}})
            <= depth + Cardinality({j \in 1 .. i : text[j] \in {"]", "}"}})
\* The text as a reader that takes four letters for the word sees it.
AsSpelt(reader, text) ==
    [i \in DOMAIN text |-> IF reader.misspelt /\ text[i] = Misspelt THEN Word ELSE text[i]]

RECURSIVE HasNull(_)
HasNull(value) ==
    \/ value = Null
    \/ value.type = "array" /\ \E i \in DOMAIN value.items : HasNull(value.items[i])
    \/ value.type = "object" /\ \E i \in DOMAIN value.items : HasNull(value.items[i].value)

-----------------------------------------------------------------------------
CutId(n) == n % IdWidth
NoSkills == [ok |-> TRUE, skills |-> <<>>, index |-> <<>>]
NoBundle == [ok |-> TRUE, worlds |-> {}, instances |-> <<>>]

DefinitionsInit ==
    /\ deText = <<>>
    /\ deBuffs = {}
    /\ deSkills = <<>> /\ deIndex = <<>>
    /\ dePrices = [entries |-> <<>>, version |-> 0] /\ dePriced = <<>>
    /\ deBundle = NoBundle

\* A text is given to the readers.
ReadText == deText = <<>> /\ deText' \in Texts /\ UNCHANGED tableVars

\* Entries are taken one after the other; the first that is refused ends the file.
AddBuff(loaded, entry) ==
    IF loaded.ok /\ entry.fine /\ entry.id # 0 /\ CutId(entry.id) \notin loaded.buffs
    THEN [loaded EXCEPT !.buffs = @ \cup {CutId(entry.id)}]
    ELSE [loaded EXCEPT !.ok = FALSE]
LoadBuffs(file) ==
    /\ deBuffs' = FoldLeft(AddBuff, [ok |-> TRUE, buffs |-> deBuffs], file).buffs
    /\ UNCHANGED <<deText, deSkills, deIndex, dePrices, dePriced, deBundle>>

ParseSkill(entry) == [id |-> CutId(entry.id), buffs |-> {CutId(b) : b \in entry.buffs}]
AddSkill(loaded, entry) ==
    LET skill == ParseSkill(entry) IN
    IF loaded.ok /\ entry.fine /\ skill.buffs \subseteq deBuffs \cup {0} /\ skill.id \notin DOMAIN loaded.index
    THEN [loaded EXCEPT !.skills = Append(@, skill), !.index = @ @@ (skill.id :> Len(loaded.skills))]
    ELSE [loaded EXCEPT !.ok = FALSE]
LoadAppend(loaded, file) == FoldLeft(AddSkill, loaded, file)
SkillsBecome(loaded) ==
    /\ deSkills' = loaded.skills /\ deIndex' = loaded.index
    /\ UNCHANGED <<deText, deBuffs, dePrices, dePriced, deBundle>>
LoadSkills(file) == SkillsBecome(LoadAppend(NoSkills, file))
LoadSkillDir(files) == SkillsBecome(FoldLeft(LoadAppend, NoSkills, files))

PriceOf(entry) ==
    [least |-> IF entry.least <= 0 THEN 1 ELSE CutId(entry.least),
     most  |-> IF entry.most <= 0 THEN 0 ELSE CutId(entry.most)]
Priceable(entry) ==
    entry.fine /\ entry.item > 0 /\ (PriceOf(entry).most # 0 => PriceOf(entry).most >= PriceOf(entry).least)
(* Mutant: the first entry of an item counts. *)
AddPriceOnce(entries, entry) == entries @@ (CutId(entry.item) :> PriceOf(entry))
AddPrice(entries, entry) == (CutId(entry.item) :> PriceOf(entry)) @@ entries
LoadPrices(file) ==
    /\ dePrices.version < MaxVersion
    /\ IF \A i \in DOMAIN file : Priceable(file[i])
       THEN /\ dePrices' = [entries |-> FoldLeft(AddPrice, <<>>, file), version |-> dePrices.version + 1]
            /\ dePriced' = file
       ELSE UNCHANGED <<dePrices, dePriced>>
    /\ UNCHANGED <<deText, deBuffs, deSkills, deIndex, deBundle>>
ClearPrices ==
    /\ dePrices.version < MaxVersion
    /\ dePrices' = [entries |-> <<>>, version |-> dePrices.version + 1] /\ dePriced' = <<>>
    /\ UNCHANGED <<deText, deBuffs, deSkills, deIndex, deBundle>>
Allows(price, count) == count >= price.least /\ (price.most # 0 => count <= price.most)

AddWorld(bundle, entry) ==
    IF bundle.ok /\ entry.fine /\ CutId(entry.id) \notin bundle.worlds
    THEN [bundle EXCEPT !.worlds = @ \cup {CutId(entry.id)}]
    ELSE [bundle EXCEPT !.ok = FALSE]
ToInstanceDef(entry) == [least |-> CutId(entry.least), most |-> CutId(entry.most)]
AddInstance(bundle, entry) ==
    LET def == ToInstanceDef(entry) IN
    IF /\ bundle.ok /\ entry.fine /\ def.most >= 1 /\ def.least <= def.most
       /\ CutId(entry.id) \notin DOMAIN bundle.instances
    THEN [bundle EXCEPT !.instances = @ @@ (CutId(entry.id) :> def)]
    ELSE [bundle EXCEPT !.ok = FALSE]
AddFile(bundle, file) == FoldLeft(AddInstance, FoldLeft(AddWorld, bundle, file.worlds), file.instances)
LoadWorldConfig(dir) == FoldLeft(AddFile, NoBundle, dir)
LoadWorlds(dir) ==
    /\ deBundle' = IF LoadWorldConfig(dir).ok THEN LoadWorldConfig(dir) ELSE deBundle
    /\ UNCHANGED <<deText, deBuffs, deSkills, deIndex, dePrices, dePriced>>

TextsNext == ReadText
TablesNext ==
    \/ \E file \in BuffFiles : LoadBuffs(file)
    \/ \E file \in SkillFiles : LoadSkills(file)
    \/ \E first, second \in SkillFiles : LoadSkillDir(<<first, second>>)
    \/ \E file \in PriceFiles : LoadPrices(file)
    \/ ClearPrices
    \/ \E dir \in WorldDirs : LoadWorlds(dir)

-----------------------------------------------------------------------------
(* Every reader accepts every JSON text it has the depth for, with the      *)
(* value that text is written for. What it accepts beyond that is JSON but  *)
(* for a misspelt word, or left a null where the damage was: no reader      *)
(* takes a damaged file for a sound one with other contents.                *)
ReadersMeanJson ==
    deText # <<>> => \A reader \in Readers :
        LET got == Parse(reader, deText)
            text == AsSpelt(reader, deText)
            sound == text \in DOMAIN MeaningOf /\ NestsWithin(reader.deepest, text)
        IN  /\ sound => got.accepted /\ got.value = MeaningOf[text]
            /\ got.accepted => sound \/ (reader.mends /\ HasNull(got.value))

(* The readers of monsters and worlds make nothing up either ("a failure    *)
(* returns an error, defaults are never filled in silently",                *)
(* npc_config.cpp:5). Refuted: [{"k":}] is a list of one sound definition   *)
(* whose field is a null, read as the number nought.                        *)
NothingIsMadeUp ==
    \A reader \in Readers :
        LET got == Parse(reader, deText)
            definitions == got.value.type = "array"
                           /\ \A i \in DOMAIN got.value.items : got.value.items[i].type = "object"
        IN  got.accepted /\ definitions => AsSpelt(reader, deText) \in DOMAIN MeaningOf

(* However loads succeed, stop half way or are repeated, the index leads to *)
(* each skill and nowhere else, and every buff a skill names is registered. *)
SkillsAreIndexed ==
    /\ DOMAIN deIndex = {deSkills[i].id : i \in DOMAIN deSkills}
    /\ \A i \in DOMAIN deSkills : deIndex[deSkills[i].id] = i - 1 /\ deSkills[i].buffs \subseteq deBuffs \cup {0}

(* A load of skills is atomic (skill_registry.cpp:389). Refuted: what was   *)
(* there is cleared first and a bad entry leaves the ones before it.        *)
SkillLoadIsAtomic ==
    [][\A file \in SkillFiles :
           LoadSkills(file) /\ deSkills' # deSkills => LoadAppend(NoSkills, file).ok]_deVars

(* The price table is that of one whole file, the last accepted: the last   *)
(* entry of an item counts, and its bounds, if no wider than the table's    *)
(* integers, let through exactly the counts the file means.                 *)
PricesAreOfOneFile ==
    \A item \in 0 .. IdWidth - 1 :
        LET of == {i \in DOMAIN dePriced : CutId(dePriced[i].item) = item} IN
        /\ of = {} <=> item \notin DOMAIN dePrices.entries
        /\ of # {} =>
             LET entry == dePriced[Max(of)] IN
             \A count \in 1 .. IdWidth - 1 :
                 entry.least < IdWidth /\ entry.most < IdWidth =>
                     (Allows(dePrices.entries[item], count)
                         <=> count >= entry.least /\ (entry.most > 0 => count <= entry.most))

(* No bound is cut silently (price_table.cpp:219). Refuted: a most of 2^32  *)
(* becomes nought, which is no bound at all.                                *)
NoPriceIsCut ==
    \A i \in DOMAIN dePriced : PriceOf(dePriced[i]).most = 0 <=> dePriced[i].most <= 0

(* The bundle in use is the whole of one directory, with no id twice, and   *)
(* every instance has room for as many players as it asks for.              *)
BundleIsOfOneDir ==
    /\ \/ deBundle = NoBundle
       \/ \E dir \in WorldDirs :
              /\ deBundle = LoadWorldConfig(dir)
              /\ FoldLeft(LAMBDA n, file : n + Len(file.instances), 0, dir) = Cardinality(DOMAIN deBundle.instances)
    /\ \A id \in DOMAIN deBundle.instances :
           deBundle.instances[id].most >= 1 /\ deBundle.instances[id].least <= deBundle.instances[id].most

DefinitionsAreSound == ReadersMeanJson /\ SkillsAreIndexed /\ PricesAreOfOneFile /\ BundleIsOfOneDir
=============================================================================
