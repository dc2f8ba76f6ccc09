--------------------------- MODULE RegistryImport ---------------------------
(***************************************************************************)
(* regimp, the tool that writes a file of settings into the registry: the  *)
(* reader of the file, the dictionary it fills, and the import.            *)
(*                                                                         *)
(* A text is a base with what the reader changes of it: capital letters    *)
(* (up) and blanks at the end (pad).  The name of a section is a root, a   *)
(* stem and a last letter.  A value is a type and the tokens of its data.  *)
(* The dictionary has one array of names, in which a section is a name     *)
(* without a key.                                                          *)
(***************************************************************************)
EXTENDS Integers, Sequences, FiniteSets, FiniteSetsExt

CONSTANTS
  FileLines,   \* the lines a file is made of
  MaxLines,    \* bound: lines of a file
  Roots,       \* HKEY_LOCAL_MACHINE and the others that are recognised
  HashOf,      \* dictionary_hash of the base of a key, never 0
  DICTMINSZ,   \* the least size of a dictionary
  NoKey, NoSection, NULL,
  TwoQuotes,   \* a pair of quotes
  Blank,       \* what no hexadecimal number is read from
  Uninit       \* the value of a variable nothing was assigned to

ASSUME ImportAssumption ==
  /\ MaxLines \in Nat /\ DICTMINSZ \in Nat \ {0}
  /\ \A k \in DOMAIN HashOf : HashOf[k] \in Nat \ {0}
  /\ NoKey \in DOMAIN HashOf

VARIABLES
  stage,     \* "read", "import", "flush" or "over"
  sec,       \* iniparser_load: the section of the lines that follow
  dict,      \* the dictionary
  said,      \* what the lines so far say: the last value of each entry
  iSect, mainKey,   \* ImportRegistry: the section, the root last recognised
  keys,      \* the registry: values by root, rest of the section and name
  refused,   \* sections that could not be created
  unsaved,   \* roots with changes not flushed to the memory that lasts
  lines      \* how many lines were read
importVars == <<stage, sec, dict, said, iSect, mainKey, keys, refused, unsaved, lines>>

-----------------------------------------------------------------------------
(* strlib *)

strlwc(t)   == [t EXCEPT !.up = FALSE]
strcrop(t)  == [t EXCEPT !.pad = FALSE]

\* The names of sections and keys as the reader makes them.
FileSections == {strlwc(l.sec) : l \in {l \in FileLines : l.kind = "section"}}
FileKeys == {strlwc(strcrop(l.key)) : l \in {l \in FileLines : l.kind = "entry"}}

\* What lines are made of; no name of a line stands for one of the marks.
ASSUME LinesAssumption ==
  /\ \A l \in FileLines :
       /\ l.kind = "section" =>
            l.sec = [root |-> l.sec.root, stem |-> l.sec.stem, last |-> l.sec.last, up |-> l.sec.up]
       /\ l.kind = "entry" =>
            /\ l.key = [text |-> l.key.text, up |-> l.key.up, pad |-> l.key.pad]
            /\ IF l.data = TwoQuotes THEN l.type = "REG_SZ"
               ELSE l.data \in Seq({l.data[i] : i \in DOMAIN l.data})
  /\ FileKeys \subseteq DOMAIN HashOf
  /\ NoKey \notin FileKeys /\ NoSection \notin FileSections
  /\ NULL \notin [sec : FileSections \cup {NoSection}, key : FileKeys \cup {NoKey}]

-----------------------------------------------------------------------------
(* The dictionary: slots, of which n are in use, with the hash of each. *)

EmptySlot == [name |-> NULL, val |-> NULL, hash |-> 0]
InUse(slot) == slot.name # NULL
EntryNames(d) == {d.slots[i].name : i \in {i \in DOMAIN d.slots : InUse(d.slots[i])}}

dictionary_hash(name) == HashOf[name.key]
dictionary_new(size) ==
  [slots |-> [i \in 1 .. Max({size, DICTMINSZ}) |-> EmptySlot], n |-> 0]

\* The first slot with the hash and the name.
At(d, name) ==
  {i \in DOMAIN d.slots : d.slots[i].hash = dictionary_hash(name) /\ d.slots[i].name = name}
dictionary_get(d, name, def) ==
  IF At(d, name) = {} THEN def ELSE d.slots[Min(At(d, name))].val

mem_double(slots) == slots \o [i \in DOMAIN slots |-> EmptySlot]

\* Mutant: a name is not looked for among those there are.
SetWithoutLooking(d, name, val) ==
  LET slots == IF d.n = Len(d.slots) THEN mem_double(d.slots) ELSE d.slots
      new == [name |-> name, val |-> val, hash |-> dictionary_hash(name)]
  IN  [slots |-> [slots EXCEPT ![Min({i \in DOMAIN slots : ~InUse(slots[i])})] = new], n |-> d.n + 1]

dictionary_set(d, name, val) ==
  LET slots == IF d.n = Len(d.slots) THEN mem_double(d.slots) ELSE d.slots
      free == Min({i \in DOMAIN slots : ~InUse(slots[i])})
      new == [name |-> name, val |-> val, hash |-> dictionary_hash(name)]
  IN  IF d.n > 0 /\ At(d, name) # {} THEN [d EXCEPT !.slots[Min(At(d, name))].val = val]
      ELSE [slots |-> [slots EXCEPT ![free] = new], n |-> d.n + 1]

-----------------------------------------------------------------------------
(* The file. *)

Section(s) == [sec |-> s, key |-> NoKey]
Entry(s, key) == [sec |-> s, key |-> key]
IsSection(name) == name.key = NoKey

iniparser_add_entry(d, s, key, val) ==
  dictionary_set(d, IF key = NoKey THEN Section(s) ELSE Entry(s, key), val)

\* A value as the formats of sscanf leave it: in quotes as it is there, else
\* without the comment that follows, in either case without blanks at the end.
\* Two quotes with nothing between them match the last format only, which reads
\* on to the end of the line and keeps the newline that fgets left there.  Their
\* comparison comes before strcrop: they are the empty value in a last line that
\* ends without a newline, and in any other the two quotes themselves.
ValueOf(text, newline) == IF text = TwoQuotes /\ ~newline THEN <<>> ELSE text

\* Lines that are blank, comments or without an equals sign change nothing.
Read(line, newline) ==
  CASE line.kind = "section" ->
         LET s == strlwc(line.sec)
         IN  /\ sec' = s
             /\ dict' = iniparser_add_entry(dict, s, NoKey, NULL)
             /\ said' = said
    [] line.kind = "entry" ->
         LET key == strlwc(strcrop(line.key))
             val == [type |-> line.type, data |-> ValueOf(line.data, newline)]
             name == Entry(sec, key)
         IN  /\ dict' = iniparser_add_entry(dict, sec, key, val)
             /\ said' = [m \in DOMAIN said \cup {name} |-> IF m = name THEN val ELSE said[m]]
             /\ sec' = sec
    [] OTHER -> UNCHANGED <<sec, dict, said>>

\* A line without a newline is the last one.
iniparser_load ==
  /\ stage = "read" /\ lines < MaxLines
  /\ \E line \in FileLines, newline \in BOOLEAN :
       Read(line, newline) /\ stage' = IF newline THEN stage ELSE "import"
  /\ lines' = lines + 1
  /\ UNCHANGED <<iSect, mainKey, keys, refused, unsaved>>

\* Whether memcmp without the last letter takes one section for another.
Alike(s, t) == s # NoSection /\ t # NoSection /\ s.root = t.root /\ s.stem = t.stem

SectionsOf(d) == {i \in DOMAIN d.slots : InUse(d.slots[i]) /\ IsSection(d.slots[i].name)}
KeysLike(d, s) ==
  {i \in DOMAIN d.slots : /\ InUse(d.slots[i]) /\ ~IsSection(d.slots[i].name)
                          /\ Alike(d.slots[i].name.sec, s)}
\* Slots are counted from 0 on.
Nth(slots, n) == CHOOSE i \in slots : Cardinality({j \in slots : j < i}) = n

iniparser_getnsec(d) == Cardinality(SectionsOf(d))
iniparser_getsecname(d, n) == d.slots[Nth(SectionsOf(d), n)].name.sec
iniparser_getnkey(d, s) == Cardinality(KeysLike(d, s))
iniparser_getkeyname(d, s, n) == d.slots[Nth(KeysLike(d, s), n)].name.key
iniparser_getstring(d, s, key, def) == dictionary_get(d, Entry(s, strlwc(key)), def)
EmptyString == [type |-> "REG_SZ", data |-> <<>>]

-----------------------------------------------------------------------------
(* The import. *)

\* StrToBytes: where no number is read the variable keeps the one before.
StrToBytes(tokens) ==
  LET numbers(i) == {j \in 1 .. i : tokens[j] # Blank}
  IN  [i \in DOMAIN tokens |-> IF numbers(i) = {} THEN Uninit ELSE tokens[Max(numbers(i))]]

\* The name and the value RegSetValueEx is called with.
ValueName(key, val) ==
  IF val.type = "REG_SZ" /\ key.text = "@" THEN [key EXCEPT !.text = "Default"] ELSE key
Stored(val) ==
  IF val.type \in {"REG_BINARY", "REG_MULTI_SZ"}
  THEN [val EXCEPT !.data = StrToBytes(val.data)] ELSE val

FoundRoot(s) == IF s.root \in Roots THEN s.root ELSE mainKey

\* The entries of one section in the order of the slots, of which a later one
\* replaces an earlier.  A name that belongs to a section that is alike is not
\* found in this one, unless it has one too.
Place(root, s, name) == [key |-> <<root, s.stem, s.last>>, name |-> name]
Got(s, i) == iniparser_getstring(dict, s, iniparser_getkeyname(dict, s, i), EmptyString)
Imported(root, s) ==
  LET at(i) == Place(root, s, ValueName(iniparser_getkeyname(dict, s, i), Got(s, i)))
      written == {i \in 0 .. iniparser_getnkey(dict, s) - 1 : Got(s, i).data # <<>>}
      of(a) == {i \in written : at(i) = a}
  IN  [a \in DOMAIN keys \cup {at(i) : i \in written} |->
         IF of(a) = {} THEN keys[a] ELSE Stored(Got(s, Max(of(a))))]

ImportRegistry ==
  /\ stage = "import" /\ iSect < iniparser_getnsec(dict)
  /\ LET s == iniparser_getsecname(dict, iSect)
         root == FoundRoot(s)
     IN  /\ mainKey' = root
         /\ \/ keys' = Imported(root, s) /\ unsaved' = unsaved \cup {root} /\ refused' = refused
            \/ refused' = refused \cup {s} /\ UNCHANGED <<keys, unsaved>>
  /\ iSect' = iSect + 1
  /\ UNCHANGED <<stage, sec, dict, said, lines>>

\* The file is at its end: what comes next takes the dictionary as it is.
StartImport ==
  /\ stage = "read" /\ stage' = "import"
  /\ UNCHANGED <<sec, dict, said, iSect, mainKey, keys, refused, unsaved, lines>>

\* iniparser_freedict, and then the flush that InitInstance asks for or not.
EndImport ==
  /\ stage = "import" /\ iSect = iniparser_getnsec(dict)
  /\ stage' \in {"flush", "over"}
  /\ UNCHANGED <<sec, dict, said, iSect, mainKey, keys, refused, unsaved, lines>>

\* The roots in the order they are flushed; the first that fails ends it.
FlushOrder ==
  <<"HKEY_LOCAL_MACHINE", "HKEY_CURRENT_USER", "HKEY_CLASSES_ROOT", "HKEY_CLASSES_ROOT">>
FlushRegistry ==
  /\ stage = "flush" /\ stage' = "over"
  /\ \E n \in 0 .. Len(FlushOrder) :
       unsaved' = unsaved \ {FlushOrder[i] : i \in 1 .. n}
  /\ UNCHANGED <<sec, dict, said, iSect, mainKey, keys, refused, lines>>

ImportInit ==
  /\ stage = "read" /\ sec = NoSection
  /\ dict = dictionary_new(0) /\ said = [m \in {} |-> NULL]
  /\ iSect = 0 /\ mainKey = Uninit
  /\ keys = [k \in {} |-> NULL] /\ refused = {} /\ unsaved = {}
  /\ lines = 0

ImportNext ==
  \/ iniparser_load
  \/ StartImport \/ ImportRegistry \/ EndImport \/ FlushRegistry
ImportSpec == ImportInit /\ [][ImportNext]_importVars

-----------------------------------------------------------------------------
Complete(val) ==
  val.type \in {"REG_BINARY", "REG_MULTI_SZ"} => \A i \in DOMAIN val.data : val.data[i] # Blank
\* The value under a name; the unnamed value and one that is called Default
\* are one, of which the later is kept.
SaidOf(s, name) ==
  {val \in {said[m] : m \in {m \in DOMAIN said :
     m.sec = s /\ ValueName(m.key, said[m]) = name}} : val.data # <<>>}

\* Although names are found by hash in slots that grow, and the keys of a
\* section are counted with those of any section that differs in its last
\* letter, the registry holds in the end what the file says: of each section
\* that could be created every entry with its last value, as ValueOf takes it
\* from the line, where the numbers of the values can all be read, and nothing
\* that the file does not say.  A file with a section of an unknown root is not
\* looked at: that section is written under the root of the section before.
RegistryIsFile ==
  stage = "over" /\ (\A name \in EntryNames(dict) : name.sec # NoSection => name.sec.root \in Roots) =>
    /\ \A m \in DOMAIN said :
         LET val == said[m]
             s == m.sec
             name == ValueName(m.key, val)
             at == Place(s.root, s, name)
         IN  /\ s # NoSection /\ s \notin refused /\ val.data # <<>>
             /\ \A v \in SaidOf(s, name) : Complete(v)
             => at \in DOMAIN keys /\ keys[at] \in SaidOf(s, name)
    /\ \A at \in DOMAIN keys :
         \E m \in {m \in DOMAIN said : m.sec # NoSection} :
           at = Place(m.sec.root, m.sec, ValueName(m.key, said[m]))
=============================================================================
