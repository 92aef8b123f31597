---------------------------- MODULE Configuration ----------------------------
(***************************************************************************)
(* The simulator's configuration: parse_args and handle_args read the      *)
(* command line, the files and settings it names are merged into a tree of *)
(* sections, components look keys up, and the tree is written to sim.cfg.  *)
(*                                                                         *)
(* A path is a sequence of names, a text the values between the commas of  *)
(* the right-hand side of a setting ("" for nothing), a file a sequence of *)
(* [section, keys] records whose keys are [name, text] records.  Escaping  *)
(* and the types of values are left out.                                   *)
(***************************************************************************)
EXTENDS Integers, Sequences, FiniteSets, SequencesExt, TLC

CONSTANTS CfFiles,    \* file -> its contents
          CfDefault,  \* the file used when the command line names none
          CfArgs,     \* arguments: [opt, file, path, text] records
          CfLower,    \* name -> name in lower case
          CfPaths,    \* paths of keys that components look up
          CfIndices,  \* indices (core numbers) they are looked up with
          MaxCfArgs   \* length of a command line

VARIABLES cf_line,    \* argv
          cf_at,      \* next argument to parse
          cf_base,    \* config_path
          cf_set,     \* set_config_path
          cf_args,    \* args: what parse_args leaves to handle_args
          cf_phase,   \* "parse", "load", "args", "run", "saved", or an exit
          cf_tree,    \* m_root: path of a section -> its keys
          cf_saved    \* contents of sim.cfg

cfVars == <<cf_line, cf_at, cf_base, cf_set, cf_args, cf_phase, cf_tree, cf_saved>>

Default == -1         \* UINT64_MAX: a key without an index

(* boost::to_lower on names, when the configuration is not case sensitive. *)
LowerPath(path) == [i \in DOMAIN path |-> CfLower[path[i]]]

SectionOf(path) == Front(path)
KeyOf(path) == Last(path)

-----------------------------------------------------------------------------
EmptySection == [keys |-> <<>>, arrays |-> <<>>]

EmptyTree == (<<>> :> EmptySection)

(* Config::getSection_unsafe creates every section on the way.             *)
WithSection(tree, path) ==
  tree @@ [p \in {SubSeq(LowerPath(path), 1, n) : n \in 0 .. Len(path)} |-> EmptySection]

(* Mutant: the overrides of a key survive a new default.                   *)
AddDefaultKeeps(section, key, value) == [section EXCEPT !.keys = (key :> value) @@ @]

(* Section::addKeyInternal without an index: the overrides go as well.     *)
AddDefault(section, key, value) ==
  [keys |-> (key :> value) @@ section.keys,
   arrays |-> [k \in DOMAIN section.arrays \ {key} |-> section.arrays[k]]]

(* ... and with one: the array grows as needed, its gaps are NULL ("").    *)
AddElement(section, key, value, index) ==
  LET old == IF key \in DOMAIN section.arrays THEN section.arrays[key] ELSE <<>>
      size == IF Len(old) > index THEN Len(old) ELSE index + 1
      arr == [i \in 1 .. size |-> IF i = index + 1 THEN value
                                  ELSE IF i <= Len(old) THEN old[i] ELSE ""]
  IN [section EXCEPT !.arrays = (key :> arr) @@ @]

(* evalTree for a key: one value is the default, several values separated  *)
(* by commas are the elements that are not empty.                          *)
AddText(section, key, text) ==
  IF Len(text) = 1 THEN AddDefault(section, key, text[1])
  ELSE FoldLeft(LAMBDA s, i : IF text[i] = "" THEN s ELSE AddElement(s, key, text[i], i - 1),
                section, [i \in DOMAIN text |-> i])

(* evalTree for a section and its keys.                                    *)
AddSection(tree, part) ==
  LET path == LowerPath(part.section)
      add(s, k) == AddText(s, CfLower[k.name], k.text)
  IN [WithSection(tree, path) EXCEPT ![path] = FoldLeft(add, @, part.keys)]

(* The grammar: a file is a list of sections, no key stands before them.   *)
Parses(contents) == \A i \in DOMAIN contents : contents[i].section # <<>>

(* ConfigFile::parse of a file that parses.                                *)
Load(tree, contents) == FoldLeft(AddSection, tree, contents)

(* Section::hasKey and Section::getKey.                                    *)
Overridden(section, key, index) ==
  /\ index # Default /\ key \in DOMAIN section.arrays
  /\ Len(section.arrays[key]) > index /\ section.arrays[key][index + 1] # ""

HasKey(section, key, index) ==
  \/ key \in DOMAIN section.keys
  \/ IF index = Default THEN key \in DOMAIN section.arrays
     ELSE Overridden(section, key, index)

GetKey(section, key, index) ==
  IF Overridden(section, key, index) THEN section.arrays[key][index + 1]
  ELSE IF key \in DOMAIN section.keys THEN section.keys[key]
  ELSE "null pointer"

(* Config::getKey; the program ends when there is no such key.             *)
Lookup(tree, path, index) ==
  LET sections == WithSection(tree, SectionOf(path))
      section == sections[LowerPath(SectionOf(path))]
      key == CfLower[KeyOf(path)]
  IN IF HasKey(section, key, index) THEN GetKey(section, key, index) ELSE "not found"

-----------------------------------------------------------------------------
(* Mutant: the overrides are written first.                                *)
SaveSectionArraysFirst(section) ==
  LET defaults == [k \in DOMAIN section.keys |-> <<section.keys[k]>>]
      line(texts, k) == [name |-> k, text |-> texts[k]]
      lines(texts) == [i \in 1 .. Cardinality(DOMAIN texts) |->
                         line(texts, SetToSeq(DOMAIN texts)[i])]
  IN lines(section.arrays) \o lines(defaults)

(* SaveTreeAs: the defaults of a section, then its arrays.                 *)
SaveSection(section) ==
  LET defaults == [k \in DOMAIN section.keys |-> <<section.keys[k]>>]
      line(texts, k) == [name |-> k, text |-> texts[k]]
      lines(texts) == [i \in 1 .. Cardinality(DOMAIN texts) |->
                         line(texts, SetToSeq(DOMAIN texts)[i])]
  IN lines(defaults) \o lines(section.arrays)

(* The root comes first, without a header.                                 *)
SaveTree(tree) ==
  LET part(p) == [section |-> p, keys |-> SaveSection(tree[p])]
      rest == SetToSeq(DOMAIN tree \ {<<>>})
  IN (IF SaveSection(tree[<<>>]) = <<>> THEN <<>> ELSE <<part(<<>>)>>)
     \o [i \in DOMAIN rest |-> part(rest[i])]

-----------------------------------------------------------------------------
(* Mutant: the last file named is the base file.                           *)
ParseConfigLast(arg) ==
  /\ cf_base' = arg.file /\ cf_set' = TRUE
  /\ cf_args' = IF cf_set THEN Append(cf_args, [arg EXCEPT !.opt = "config", !.file = cf_base])
                ELSE cf_args

(* parse_args for -c and --config: the first names the base file, wherever *)
(* it stands; the others are merged in their turn.                         *)
ParseConfig(arg) ==
  IF cf_set THEN /\ cf_args' = Append(cf_args, [arg EXCEPT !.opt = "config"])
                 /\ UNCHANGED <<cf_base, cf_set>>
  ELSE cf_base' = arg.file /\ cf_set' = TRUE /\ UNCHANGED cf_args

(* parse_args for one argument: "--" ends the options, settings and what   *)
(* looks like one are kept, other arguments are skipped.                   *)
ParseArg ==
  /\ cf_phase = "parse" /\ cf_at <= Len(cf_line)
  /\ LET arg == cf_line[cf_at]
     IN /\ cf_phase' = IF arg.opt = "--" THEN "load" ELSE "parse"
        /\ cf_at' = cf_at + 1
        /\ CASE arg.opt \in {"-c", "config"} -> ParseConfig(arg)
             [] arg.opt \in {"set", "malformed"} ->
                  cf_args' = Append(cf_args, arg) /\ UNCHANGED <<cf_base, cf_set>>
             [] OTHER -> UNCHANGED <<cf_base, cf_set, cf_args>>
  /\ UNCHANGED <<cf_line, cf_tree, cf_saved>>

ParseDone ==
  /\ cf_phase = "parse" /\ cf_at > Len(cf_line)
  /\ cf_phase' = "load"
  /\ UNCHANGED <<cf_line, cf_at, cf_base, cf_set, cf_args, cf_tree, cf_saved>>

(* main(): Config::load of the base file.                                  *)
LoadBase ==
  /\ cf_phase = "load"
  /\ IF cf_base \in DOMAIN CfFiles
       THEN cf_tree' = Load(cf_tree, CfFiles[cf_base]) /\ cf_phase' = "args"
       ELSE cf_phase' = "no file" /\ UNCHANGED cf_tree
  /\ UNCHANGED <<cf_line, cf_at, cf_base, cf_set, cf_args, cf_saved>>

(* The file handle_generic_arg builds for a setting: the names before the  *)
(* last are the section, which is "" when there are none.                  *)
BuiltFile(arg) ==
  <<[section |-> IF Len(arg.path) = 1 THEN <<"">> ELSE SectionOf(arg.path),
     keys |-> <<[name |-> KeyOf(arg.path), text |-> arg.text]>>]>>

(* handle_args, one argument.                                              *)
HandleArg ==
  /\ cf_phase = "args" /\ cf_args # <<>>
  /\ LET arg == Head(cf_args)
     IN CASE arg.opt = "malformed" -> cf_phase' = "usage" /\ UNCHANGED cf_tree
          [] arg.opt = "config" /\ arg.file \notin DOMAIN CfFiles ->
               cf_phase' = "no file" /\ UNCHANGED cf_tree
          [] arg.opt = "config" /\ arg.file \in DOMAIN CfFiles ->
               cf_tree' = Load(cf_tree, CfFiles[arg.file]) /\ UNCHANGED cf_phase
          [] OTHER -> cf_tree' = Load(cf_tree, BuiltFile(arg)) /\ UNCHANGED cf_phase
  /\ cf_args' = Tail(cf_args)
  /\ UNCHANGED <<cf_line, cf_at, cf_base, cf_set, cf_saved>>

HandleDone ==
  /\ cf_phase = "args" /\ cf_args = <<>>
  /\ cf_phase' = "run"
  /\ UNCHANGED <<cf_line, cf_at, cf_base, cf_set, cf_args, cf_tree, cf_saved>>

(* A component looks a key up or asks whether it is there: the sections on *)
(* the way are created.  getKey follows a null pointer for a key that only *)
(* has elements.                                                           *)
Ask(path, index, has) ==
  /\ cf_phase = "run"
  /\ cf_tree' = WithSection(cf_tree, SectionOf(path))
  /\ cf_phase' = CASE has -> cf_phase
                   [] ~has /\ Lookup(cf_tree, path, index) = "not found" -> "key error"
                   [] ~has /\ Lookup(cf_tree, path, index) = "null pointer" -> "crash"
                   [] OTHER -> cf_phase
  /\ UNCHANGED <<cf_line, cf_at, cf_base, cf_set, cf_args, cf_saved>>

(* Simulator::start: ConfigFile::saveAs.                                   *)
SaveAs ==
  /\ cf_phase = "run"
  /\ cf_saved' = SaveTree(cf_tree) /\ cf_phase' = "saved"
  /\ UNCHANGED <<cf_line, cf_at, cf_base, cf_set, cf_args, cf_tree>>

-----------------------------------------------------------------------------
CfInit ==
  /\ cf_line \in UNION {[1 .. n -> CfArgs] : n \in 0 .. MaxCfArgs}
  /\ cf_at = 1 /\ cf_base = CfDefault /\ cf_set = FALSE /\ cf_args = <<>>
  /\ cf_phase = "parse" /\ cf_tree = EmptyTree /\ cf_saved = <<>>

CfNext ==
  \/ ParseArg \/ ParseDone \/ LoadBase \/ HandleArg \/ HandleDone \/ SaveAs
  \/ \E path \in CfPaths, index \in CfIndices \cup {Default}, has \in BOOLEAN :
       Ask(path, index, has)

-----------------------------------------------------------------------------
(* What the command line says, without the tree: the additions of keys, in *)
(* the order in which they count.                                          *)
AdditionsOf(contents) ==
  LET ofKey(path, k) ==
        LET at == LowerPath(Append(path, k.name))
        IN IF Len(k.text) = 1 THEN <<[at |-> at, index |-> Default, value |-> k.text[1]]>>
           ELSE SelectSeq([i \in DOMAIN k.text |->
                             [at |-> at, index |-> i - 1, value |-> k.text[i]]],
                          LAMBDA a : a.value # "")
      ofPart(part) == FlattenSeq([i \in DOMAIN part.keys |-> ofKey(part.section, part.keys[i])])
  IN FlattenSeq([i \in DOMAIN contents |-> ofPart(contents[i])])

Additions(line) ==
  LET ends == {i \in DOMAIN line : line[i].opt = "--"}
      options == IF ends = {} THEN line
                 ELSE SubSeq(line, 1, (CHOOSE i \in ends : \A j \in ends : i <= j) - 1)
      isFile(a) == a.opt \in {"-c", "config"}
      files == SelectSeq(options, isFile)
      base == IF files = <<>> THEN CfDefault ELSE files[1].file
      rest == RemoveFirstMatch(options, isFile)
      of(a) == CASE a.opt = "set" -> AdditionsOf(BuiltFile(a))
                 [] isFile(a) -> AdditionsOf(CfFiles[a.file])
                 [] OTHER -> <<>>
  IN AdditionsOf(CfFiles[base]) \o FlattenSeq([i \in DOMAIN rest |-> of(rest[i])])

Matching(adds, path, index) ==
  {i \in DOMAIN adds : adds[i].at = LowerPath(path) /\ adds[i].index \in {index, Default}}

-----------------------------------------------------------------------------
(* Variables have the types the C++ members give them.                     *)
CfTypeOK ==
  /\ cf_at \in 1 .. Len(cf_line) + 1 /\ cf_set \in BOOLEAN
  /\ cf_phase \in {"parse", "load", "args", "run", "saved", "usage", "no file", "key error", "crash"}
  /\ \A p \in DOMAIN cf_tree : \A n \in 0 .. Len(p) : SubSeq(p, 1, n) \in DOMAIN cf_tree

(* However files and settings are ordered on the command line, a lookup    *)
(* gives the value that was added last for the key, by itself or for all   *)
(* indices, where the first file named counts as first, and lookups do not *)
(* change what later ones give (parse_args, handle_args, addKeyInternal,   *)
(* getKey).  Without an index this needs a value for all indices.          *)
LookupIsLatest ==
  cf_phase \in {"run", "saved"} =>
    \A adds \in {Additions(cf_line)} : \A path \in CfPaths, index \in CfIndices \cup {Default} :
      LET at == Matching(adds, path, index)
          arrayOnly == /\ index = Default /\ at = {}
                       /\ \E i \in DOMAIN adds : adds[i].at = LowerPath(path)
      IN \/ arrayOnly
         \/ Lookup(cf_tree, path, index) =
              IF at = {} THEN "not found"
              ELSE adds[CHOOSE i \in at : \A j \in at : j <= i].value

(* The file written for reference is accepted by the parser and gives the  *)
(* same answers as the configuration in memory, except for arrays of one   *)
(* element (SaveTreeAs, evalTree).                                         *)
SavedAnswersSame ==
  cf_phase = "saved" =>
    /\ Parses(cf_saved)
    /\ \A copy \in {Load(EmptyTree, cf_saved)} :
       \A path \in CfPaths, index \in CfIndices \cup {Default} :
         LET section == WithSection(cf_tree, SectionOf(path))[LowerPath(SectionOf(path))]
             key == CfLower[KeyOf(path)]
         IN \/ key \in DOMAIN section.arrays /\ Len(section.arrays[key]) = 1
            \/ Lookup(copy, path, index) = Lookup(cf_tree, path, index)

(* A component gets the value that was given last for its key, wherever the *)
(* first file stands on the command line, and the saved copy of the         *)
(* configuration parses and answers alike, arrays of one element excepted.  *)
ConfigCorrect == CfTypeOK /\ LookupIsLatest /\ SavedAnswersSame
=============================================================================
