------------------------------ MODULE Settings ------------------------------
(***************************************************************************)
(* The settings from a page of vncconfig to the registry, from there to    *)
(* the parameters of a process, which are read once, and to the pages that  *)
(* show them: vncconfig with its three pages and its password dialog,       *)
(* RegKey, RegConfig, Configuration and the kinds of its parameters.        *)
(*                                                                         *)
(* A text is a sequence of characters: the sixteen hexadecimal digits are   *)
(* 0 .. 15, and everything else, whole words among them, is a number above. *)
(***************************************************************************)
EXTENDS Integers, Sequences, FiniteSets, SequencesExt

CONSTANTS
  Numbers,          \* what may stand in an edit control for numbers, or
  NoNumber,         \*   what is none
  Comma, Colon, Star, WordNone, WordVncAuth, WordOn, WordOff,  \* characters
  Everybody,        \* the text of Hosts at first
  NotYet, Removed,  \* no page applied or password entered; password taken away
  HostPatterns,     \* patterns of hosts (texts)
  PlainPasswords,        \* plain passwords, <<>> among them, with what is stored of
  StoredForm,       \*   each: a sequence of bytes (see module Handshake)
  LogWriters,       \* names (characters) of the log writers
  Loggers,          \* and of the loggers of a process
  NoLogger,
  FirstRegistries,  \* what the key holds at first
  PlatformNT,       \* OSVersion::isPlatformNT
  RfbDefault, HttpDefault, IdleDefault,   \* 5900, 5800, 3600 in the code
  MaxHosts, MaxPageEdits, MaxSheets   \* bounds

Digit == 0 .. 15
Pages == <<"authentication", "connections", "sharing">>
Page == {Pages[i] : i \in DOMAIN Pages}

VARIABLES
  registry,    \* values of the key in the order of their creation
  tool,        \* parameters of vncconfig
  winvnc,      \* of the server, once it has read the key as it is now, or NotYet
  sheet,       \* the property sheet: at, pages to be applied, whether to close
               \*   then, and useNone and useVNC of the first page
  controls,    \* contents of the controls of the pages that exist, or NotYet
  changed,     \* pages marked as changed
  applied,     \* by page: the controls when it was applied
  stored,      \* the password entered last, or NotYet
  count        \* edits and sheets so far
settingsVars == <<registry, tool, winvnc, sheet, controls, changed, applied, stored, count>>

Made == {p \in Page : controls[p] # NotYet}

-----------------------------------------------------------------------------
(* Texts. *)

decimal(n) ==
  LET digits[k \in 0 .. n] == IF k < 10 THEN <<k>> ELSE Append(digits[k \div 10], k % 10)
  IN  digits[n]
atoi(text) ==
  LET step(a, c) ==
        IF a.ends \/ c > 9 THEN [a EXCEPT !.ends = TRUE] ELSE [a EXCEPT !.n = @ * 10 + c]
  IN  FoldLeft(step, [n |-> 0, ends |-> FALSE], text).n

\* strSplit, over and over.
Pieces(text, mark) ==
  FoldLeft(LAMBDA ps, c : IF c = mark THEN Append(ps, <<>>)
                          ELSE [ps EXCEPT ![Len(ps)] = Append(@, c)], <<<<>>>>, text)
Listed(text) == SelectSeq(Pieces(text, Comma), LAMBDA p : p # <<>>)

binToHexStr(bytes) == FlattenSeq([i \in DOMAIN bytes |-> <<bytes[i] \div 16, bytes[i] % 16>>])
\* A text that is no sequence of bytes leaves none.
hexStrToBin(text) ==
  IF Len(text) % 2 = 0 /\ \A i \in DOMAIN text : text[i] \in Digit
  THEN [ok |-> TRUE,
        value |-> [i \in 1 .. Len(text) \div 2 |-> 16 * text[2 * i - 1] + text[2 * i]]]
  ELSE [ok |-> FALSE, value |-> <<>>]

-----------------------------------------------------------------------------
(* LogWriter *)

Silent == [log |-> NoLogger, level |-> 0]
getLogger(name) == IF \E l \in Loggers : name = <<l>> THEN name[1] ELSE NoLogger

\* <log>:<target>:<level>; a third colon belongs to the level, which it ends.
setLogParams(writers, item) ==
  LET parts == Pieces(item, Colon)
      setting == [log |-> getLogger(parts[2]), level |-> atoi(parts[3])]
  IN  IF Len(parts) < 3 THEN [ok |-> FALSE, writers |-> writers]
      ELSE IF parts[1] = <<Star>>
      THEN [ok |-> TRUE, writers |-> [w \in LogWriters |-> setting]]
      ELSE [ok |-> \E w \in LogWriters : parts[1] = <<w>>,
            writers |-> [w \in LogWriters |-> IF parts[1] = <<w>> THEN setting ELSE writers[w]]]

\* LogParameter::setParam: everything is silent first; it ends with the first
\* item that is not understood.
setLog(text) ==
  FoldLeft(LAMBDA a, item : IF a.ok THEN setLogParams(a.writers, item) ELSE a,
           [ok |-> TRUE, writers |-> [w \in LogWriters |-> Silent]], Listed(text))

-----------------------------------------------------------------------------
(* Configuration *)

Param == [SecurityTypes |-> "string", ReverseSecurityTypes |-> "string", Password |-> "binary",
          QueryConnect |-> "bool", QueryOnlyIfLoggedOn |-> "bool",
          PortNumber |-> "int", HTTPPortNumber |-> "int", IdleTimeout |-> "int",
          LocalHost |-> "bool", Hosts |-> "string",
          AlwaysShared |-> "bool", NeverShared |-> "bool", DisconnectClients |-> "bool",
          Log |-> "log"]

Defaults ==
  [SecurityTypes |-> <<WordVncAuth>>, ReverseSecurityTypes |-> <<WordNone>>, Password |-> <<>>,
   QueryConnect |-> FALSE, QueryOnlyIfLoggedOn |-> FALSE,
   PortNumber |-> RfbDefault, HTTPPortNumber |-> HttpDefault, IdleTimeout |-> IdleDefault,
   LocalHost |-> FALSE, Hosts |-> Everybody,
   AlwaysShared |-> FALSE, NeverShared |-> FALSE, DisconnectClients |-> TRUE, Log |-> <<>>]

IsOn(text) == text \in {<<>>, <<1>>, <<WordOn>>}
IsOff(text) == text \in {<<0>>, <<WordOff>>}

\* Configuration::set and the setParam of each kind; a value that cannot be
\* processed leaves the parameter alone, except that bytes are lost and a log is
\* set as far as it was understood.
setParam(process, name, text) ==
  IF name \notin DOMAIN Param THEN process
  ELSE LET Now(v) == [process EXCEPT !.value[name] = v]
       IN  CASE Param[name] = "bool" -> IF IsOn(text) THEN Now(TRUE)
                                        ELSE IF IsOff(text) THEN Now(FALSE) ELSE process
             [] Param[name] = "int" -> IF atoi(text) >= 0 THEN Now(atoi(text)) ELSE process
             [] Param[name] = "string" -> Now(text)
             [] Param[name] = "binary" -> Now(hexStrToBin(text).value)
             [] OTHER -> [Now(text) EXCEPT !.writers = setLog(text).writers]

-----------------------------------------------------------------------------
(* RegKey and RegConfig *)

Value(name, type, data) == [name |-> name, type |-> type, data |-> data]

\* RegSetValueEx: a value keeps its place.
SetValue(values, v) ==
  IF \E i \in DOMAIN values : values[i].name = v.name
  THEN [i \in DOMAIN values |-> IF values[i].name = v.name THEN v ELSE values[i]]
  ELSE Append(values, v)

setBool(name, b) == Value(name, "REG_DWORD", IF b THEN 1 ELSE 0)
setInt(name, n) == Value(name, "REG_DWORD", n)
setString(name, text) == Value(name, "REG_SZ", text)
setBinary(name, bytes) == Value(name, "REG_BINARY", bytes)

Represented(v) == v.type \in {"REG_BINARY", "REG_SZ", "REG_DWORD"}
getRepresentation(v) ==
  CASE v.type = "REG_BINARY" -> binToHexStr(v.data)
    [] v.type = "REG_SZ" -> v.data
    [] OTHER -> decimal(v.data)

\* RegConfig::loadRegistryConfig, by setKey: a value of another type throws what
\* is caught there only, and nobody is told of a change.
loadRegistryConfig(process, values) ==
  FoldLeft(LAMBDA p, v :
             IF ~p.whole \/ ~Represented(v) THEN [p EXCEPT !.whole = FALSE]
             ELSE setParam(p, v.name, getRepresentation(v)), process, values)

Started(writers) ==
  [value |-> Defaults, writers |-> writers, whole |-> TRUE]

\* The server starts, or starts again: it logs everything until it has read on.
StartServer ==
  /\ winvnc = NotYet
  /\ LET logging == [w \in LogWriters |-> [log |-> CHOOSE l \in Loggers : TRUE, level |-> 120]]
     IN  winvnc' = loadRegistryConfig(Started(logging), registry)
  /\ UNCHANGED <<registry, tool, sheet, controls, changed, applied, stored, count>>

\* What a server read earlier it keeps: RegKey::awaitChange is empty.
Outdated == winvnc' = IF registry' = registry THEN winvnc ELSE NotYet

-----------------------------------------------------------------------------
(* What the pages show. *)

ShownOf(page, value) ==
  CASE page = "authentication" ->
         LET types == Pieces(value.SecurityTypes, Comma)
         IN  [none |-> <<WordNone>> \in ToSet(types), vnc |-> <<WordVncAuth>> \in ToSet(types),
              query |-> value.QueryConnect, loggedOn |-> value.QueryOnlyIfLoggedOn]
    [] page = "connections" ->
         [rfb |-> value.PortNumber # 0, http |-> value.HTTPPortNumber # 0,
          port |-> IF value.PortNumber # 0 THEN value.PortNumber ELSE RfbDefault,
          httpPort |-> IF value.HTTPPortNumber # 0 THEN value.HTTPPortNumber ELSE HttpDefault,
          idle |-> value.IdleTimeout, localHost |-> value.LocalHost,
          hosts |-> Listed(value.Hosts)]
    [] OTHER ->
         [disconnect |-> value.DisconnectClients, never |-> value.NeverShared,
          always |-> value.AlwaysShared, client |-> ~(value.NeverShared \/ value.AlwaysShared)]

\* Mutant: nothing between the patterns.
HostsRunTogether(c) == FlattenSeq(c.hosts)

getHosts(c) == FlattenSeq([i \in DOMAIN c.hosts |-> Append(c.hosts[i], Comma)])

\* Compared with the parameters, which are those the program began with, but
\* for the methods of the first page, which were applied since; a number that
\* cannot be read ends the comparison.
IsChanged(page, c, value) ==
  CASE page = "authentication" ->
         \/ sheet.useNone # c.none \/ sheet.useVNC # c.vnc
         \/ value.QueryConnect # c.query \/ value.QueryOnlyIfLoggedOn # c.loggedOn
    [] page = "connections" ->
         \/ getHosts(c) # value.Hosts \/ value.LocalHost # c.localHost
         \/ /\ c.port # NoNumber
            /\ \/ value.PortNumber # c.port
               \/ /\ c.httpPort # NoNumber
                  /\ \/ value.HTTPPortNumber # c.httpPort \/ (value.HTTPPortNumber # 0) # c.http
                     \/ c.idle # NoNumber /\ value.IdleTimeout # c.idle
    [] OTHER -> c.disconnect # value.DisconnectClients \/ c.never # value.NeverShared
                  \/ c.always # value.AlwaysShared
Marks(page, c) ==
  changed' = IF IsChanged(page, c, tool.value) THEN changed \cup {page} ELSE changed \ {page}

\* The sheet opens with its first page; the others are made when they are shown.
Uses(page, c) ==
  IF page = "authentication" THEN [sheet EXCEPT !.useNone = c.none, !.useVNC = c.vnc] ELSE sheet
ShowPage(page) ==
  /\ controls' = [controls EXCEPT ![page] = ShownOf(page, tool'.value)]
  /\ sheet' = [Uses(page, controls'[page]) EXCEPT !.at = "open"]
  /\ changed' = IF page = "connections" /\ IsChanged(page, controls'[page], tool'.value)
                THEN changed \cup {page} ELSE changed \ {page}

StartTool ==
  /\ sheet.at = "closed" /\ count.sheets < MaxSheets
  /\ count' = [count EXCEPT !.sheets = @ + 1]
  /\ tool' = loadRegistryConfig(Started([w \in LogWriters |-> Silent]), registry)
  /\ ShowPage(Pages[1])
  /\ UNCHANGED <<registry, winvnc, applied, stored>>

SelectPage ==
  /\ sheet.at = "open" /\ UNCHANGED tool
  /\ \E page \in Page \ Made : ShowPage(page)
  /\ UNCHANGED <<registry, winvnc, applied, stored, count>>

-----------------------------------------------------------------------------
(* What the user does to them. *)

rfbPortToHTTP(port) ==
  LET v == tool.value
      offset == IF v.HTTPPortNumber # 0 THEN v.HTTPPortNumber - v.PortNumber
                ELSE HttpDefault - RfbDefault
  IN  IF port + offset <= 0 THEN port ELSE port + offset

AuthenticationEdits(c) ==
  {[c EXCEPT !.none = TRUE, !.vnc = FALSE], [c EXCEPT !.none = FALSE, !.vnc = TRUE],
   [c EXCEPT !.query = ~@]}
    \cup (IF c.query /\ PlatformNT THEN {[c EXCEPT !.loggedOn = ~@]} ELSE {})

\* The list of hosts: add, edit, move and remove.
HostEdits(hosts) ==
  {Append(hosts, p) : p \in IF Len(hosts) < MaxHosts THEN HostPatterns ELSE {}}
    \cup {[hosts EXCEPT ![i] = p] : i \in DOMAIN hosts, p \in HostPatterns}
    \cup {[hosts EXCEPT ![i] = hosts[i + 1], ![i + 1] = hosts[i]] : i \in 1 .. Len(hosts) - 1}
    \cup {RemoveAt(hosts, i) : i \in DOMAIN hosts}

\* What is greyed cannot be edited.
ConnectionsEdits(c) ==
  LET ports == Numbers \cup {NoNumber}
      typed(n) ==
        [c EXCEPT !.port = n,
                  !.httpPort = IF n \in Numbers THEN rfbPortToHTTP(n) ELSE @]
  IN  {[c EXCEPT !.rfb = ~@]} \cup {[c EXCEPT !.idle = n] : n \in ports}
        \cup (IF ~c.rfb THEN {}
              ELSE {typed(n) : n \in ports}
                     \cup {[c EXCEPT !.http = ~@], [c EXCEPT !.localHost = ~@]}
                     \cup (IF c.http THEN {[c EXCEPT !.httpPort = n] : n \in ports} ELSE {})
                     \cup (IF c.localHost THEN {} ELSE {[c EXCEPT !.hosts = h] : h \in HostEdits(c.hosts)}))

SharingEdits(c) ==
  {[c EXCEPT !.disconnect = ~@]}
    \cup {[c EXCEPT !.never = s = "never", !.always = s = "always", !.client = s = "client"]
            : s \in {"never", "always", "client"}}

EditsOf(page, c) ==
  CASE page = "authentication" -> AuthenticationEdits(c)
    [] page = "connections" -> ConnectionsEdits(c)
    [] OTHER -> SharingEdits(c)

\* Nobody is told that a host was added.
HostAdded(page, c) ==
  page = "connections" /\ Len(c.hosts) > Len(controls["connections"].hosts)

EditPage ==
  /\ sheet.at = "open" /\ count.edits < MaxPageEdits
  /\ count' = [count EXCEPT !.edits = @ + 1]
  /\ \E page \in Made : \E c \in EditsOf(page, controls[page]) \cup {controls[page]} :
       /\ controls' = [controls EXCEPT ![page] = c]
       /\ IF HostAdded(page, c) THEN UNCHANGED changed ELSE Marks(page, c)
  /\ UNCHANGED <<registry, tool, winvnc, sheet, applied, stored>>

\* PasswordDialog::onOk: nothing unless both are the same.
Entered(one, two) ==
  IF one = two
  THEN registry' = SetValue(registry, setBinary("Password", StoredForm[one])) /\ stored' = one
  ELSE UNCHANGED <<registry, stored>>

\* The button of the first page, which is greyed without VNC authentication.
Configure ==
  /\ sheet.at = "open" /\ controls["authentication"].vnc /\ count.edits < MaxPageEdits
  /\ count' = [count EXCEPT !.edits = @ + 1]
  /\ \E one, two \in PlainPasswords : Entered(one, two)
  /\ Outdated /\ UNCHANGED <<tool, sheet, controls, changed, applied>>

-----------------------------------------------------------------------------
(* PSN_APPLY, which the sheet sends to every page that was made. *)

\* The password by the parameters, not by the registry.
haveVncPassword ==
  \E p \in PlainPasswords \ {<<>>} : StoredForm[p] = tool.value.Password

\* What the page writes, in this order, up to a number that cannot be read.
Numeric(name, n) == [readable |-> n # NoNumber, v |-> setInt(name, n)]
Other(v) == [readable |-> TRUE, v |-> v]
WritesOf(page, c) ==
  CASE page = "authentication" ->
         <<Other(setString("SecurityTypes", IF c.vnc THEN <<WordVncAuth>> ELSE <<WordNone>>)),
           Other(setString("ReverseSecurityTypes", <<WordNone>>)),
           Other(setBool("QueryConnect", c.query)),
           Other(setBool("QueryOnlyIfLoggedOn", c.loggedOn))>>
    [] page = "connections" ->
         <<Numeric("PortNumber", IF c.rfb THEN c.port ELSE 0),
           Numeric("IdleTimeout", c.idle),
           Numeric("HTTPPortNumber", IF c.http /\ c.rfb THEN c.httpPort ELSE 0),
           Other(setInt("LocalHost", IF c.localHost THEN 1 ELSE 0)),
           Other(setString("Hosts", getHosts(c)))>>
    [] OTHER ->
         <<Other(setBool("DisconnectClients", c.disconnect)),
           Other(setBool("AlwaysShared", c.always)), Other(setBool("NeverShared", c.never))>>

Written(values, writes) ==
  FoldLeft(LAMBDA a, w : IF a.ok /\ w.readable THEN [a EXCEPT !.values = SetValue(@, w.v)]
                         ELSE [a EXCEPT !.ok = FALSE],
           [ok |-> TRUE, values |-> values], writes)

\* The first page may have the password asked for, or removed.
PasswordsBefore(c) ==
  IF c.vnc /\ ~haveVncPassword
  THEN \/ UNCHANGED stored
       \/ stored' \in PlainPasswords
  ELSE IF ~c.vnc /\ haveVncPassword /\ sheet.useVNC
  THEN stored' \in {stored, Removed}
  ELSE UNCHANGED stored
WithPassword(values) ==
  IF stored' = stored THEN values
  ELSE SetValue(values, setBinary("Password", IF stored' = Removed THEN <<>>
                                              ELSE StoredForm[stored']))

\* The program ends with the sheet.
NoSheet ==
  [at |-> "closed", pending |-> <<>>, closing |-> FALSE, useNone |-> FALSE, useVNC |-> FALSE]
Closes == sheet' = NoSheet /\ changed' = {} /\ controls' = [p \in Page |-> NotYet]

\* Apply needs a change that was noticed; OK does not.
Commit ==
  /\ sheet.at = "open"
  /\ \E closing \in BOOLEAN :
       /\ closing \/ changed # {}
       /\ sheet' = [sheet EXCEPT !.at = "applying", !.closing = closing,
                                 !.pending = SelectSeq(Pages, LAMBDA p : p \in Made)]
  /\ UNCHANGED <<registry, tool, winvnc, controls, changed, applied, stored, count>>

\* onOk of the next page; an exception ends the program.
onOk ==
  /\ sheet.at = "applying" /\ sheet.pending # <<>>
  /\ LET page == Head(sheet.pending)
         c == controls[page]
     IN  /\ IF page = "authentication" THEN PasswordsBefore(c) ELSE UNCHANGED stored
         /\ LET done == Written(WithPassword(registry), WritesOf(page, c))
            IN  /\ registry' = done.values
                /\ IF ~done.ok THEN Closes
                   ELSE /\ sheet' = [Uses(page, c) EXCEPT !.pending = Tail(@)]
                        /\ UNCHANGED <<controls, changed>>
                /\ applied' = [applied EXCEPT ![page] = IF done.ok THEN c ELSE NotYet]
  /\ Outdated /\ UNCHANGED <<tool, count>>

Committed ==
  /\ sheet.at = "applying" /\ sheet.pending = <<>>
  /\ IF sheet.closing THEN Closes
     ELSE sheet' = [sheet EXCEPT !.at = "open"] /\ changed' = {} /\ UNCHANGED controls
  /\ UNCHANGED <<registry, tool, winvnc, applied, stored, count>>

Cancel ==
  /\ sheet.at = "open" /\ Closes
  /\ UNCHANGED <<registry, tool, winvnc, applied, stored, count>>

-----------------------------------------------------------------------------
SettingsInit ==
  /\ registry \in FirstRegistries
  /\ tool = Started([w \in LogWriters |-> Silent])
  /\ winvnc = NotYet
  /\ sheet = NoSheet /\ controls = [p \in Page |-> NotYet]
  /\ changed = {} /\ applied = [p \in Page |-> NotYet] /\ stored = NotYet
  /\ count = [edits |-> 0, sheets |-> 0]

SettingsNext ==
  \/ StartServer \/ StartTool \/ SelectPage \/ EditPage \/ Configure
  \/ Commit \/ onOk \/ Committed \/ Cancel
SettingsSpec == SettingsInit /\ [][SettingsNext]_settingsVars

-----------------------------------------------------------------------------
\* What the page shows of these parameters, as far as it can be edited, is what
\* it showed when it was applied.
ShowsAgain(page, value, c) ==
  LET shown == ShownOf(page, value)
      rfb == c.rfb /\ c.port # 0
      http == c.rfb /\ c.http /\ c.httpPort # 0
  IN  CASE page = "authentication" ->
             /\ shown.vnc = c.vnc /\ shown.none # c.vnc
             /\ shown.query = c.query /\ shown.loggedOn = c.loggedOn
        [] page = "connections" ->
             /\ shown.rfb = rfb /\ (rfb => shown.port = c.port)
             /\ shown.http = http /\ (http => shown.httpPort = c.httpPort)
             /\ shown.idle = c.idle /\ shown.localHost = c.localHost /\ shown.hosts = c.hosts
        [] OTHER -> shown.disconnect = c.disconnect /\ shown.never = c.never
                      /\ shown.always = c.always

\* The last item that names the writer, if every item was understood.
LogsAsSaid(process) ==
  LET items == [i \in DOMAIN Listed(process.value.Log) |->
                  Pieces(Listed(process.value.Log)[i], Colon)]
      Names(i, w) == items[i][1] \in {<<w>>, <<Star>>}
      understood == \A i \in DOMAIN items : Len(items[i]) >= 3 /\ \E w \in LogWriters : Names(i, w)
  IN  understood =>
        \A w \in LogWriters :
          IF \E i \in DOMAIN items : Names(i, w)
          THEN \E i \in DOMAIN items :
                 /\ Names(i, w) /\ \A j \in DOMAIN items : Names(j, w) => j <= i
                 /\ process.writers[w].level = atoi(items[i][3])
          ELSE process.writers[w] = Silent

\* A server that starts once pages were applied works with what they showed:
\* whatever stood in the registry before, in whatever order, and whatever of it
\* could not be processed, as long as every value is of a type that is read at
\* all. Its password is the one entered last, and its logs are as Log says.
SettingsSurvive ==
  winvnc # NotYet /\ winvnc.whole =>
    /\ \A page \in Page :
         applied[page] # NotYet => ShowsAgain(page, winvnc.value, applied[page])
    /\ stored # NotYet =>
         winvnc.value.Password = IF stored = Removed THEN <<>> ELSE StoredForm[stored]
    /\ (\E i \in DOMAIN registry : registry[i].name = "Log") => LogsAsSaid(winvnc)
=============================================================================
