------------------------------- MODULE MCHost -------------------------------
(* Instances of ten parts of the host program and its tools that share no   *)
(* state: input, display, listeners, an HTTP session, the import of the     *)
(* registry, the calendar, idle timeouts, the opening of a connection, the  *)
(* settings and the program's start.  A behaviour is one of a single part,  *)
(* which the first state chooses; the other parts stay in their first       *)
(* state, of which one is enough.                                           *)
EXTENDS InputEvents, DisplayBuffers, Listening, HttpSession, RegistryImport,
        CalendarTime, IdleTimeouts, Handshake, Settings, ProgramEntry

VARIABLE part

hostPartVars == <<part, inputVars, displayVars, listeningVars, httpVars,
                  importVars, calendarVars, idleVars, handshakeVars, settingsVars, entryVars>>

\* Two letters, one of them with a shift; Tab, which ISO_Left_Tab is shift and
\* Tab of; and both shift keys, which are one virtual key.
TheKeysyms == {"a", "A", "Tab", "ISO_Left_Tab", "Shift_L", "Shift_R"}
TheLatin1 == {"a", "A"}
NoAscii == <<>>
TheVkScanKeyMap ==
  ("a" :> [vk |-> "VK_A", mods |-> {}]) @@ ("A" :> [vk |-> "VK_A", mods |-> {"VK_SHIFT"}])
Row(keysym, vk) == [keysym |-> keysym, vk |-> vk]
TheKeymap == <<Row("Tab", "VK_TAB"), Row("Shift_L", "VK_SHIFT"), Row("Shift_R", "VK_SHIFT")>>
Remap(from, to, bidi) == [from |-> from, to |-> to, bidi |-> bidi]
TheMappings ==
  {<<>>, <<Remap("a", "Tab", TRUE), Remap("Shift_L", "ISO_Left_Tab", FALSE)>>}

\* Patterns over addresses of three bits: one host, a network, everybody, what
\* is no address; a port of zero, two ports, and one port for both listeners.
Pattern(action, addr, bits) == [action |-> action, addr |-> addr, bits |-> bits]
Config(rfb, http, localHost, hosts) ==
  [port_number |-> rfb, http_port |-> http, localHost |-> localHost, hosts |-> hosts]
TheConfigs ==
  {Config(1, 2, FALSE, <<Pattern("-", 1, 3), Pattern("+", 0, 0)>>),
   Config(1, 2, FALSE, <<Pattern("?", 2, 3), Pattern("+", 2, 2)>>),
   Config(1, 1, FALSE, <<Pattern("+", 1, 3)>>),
   Config(1, 0, FALSE, <<Pattern("+", 2, 2), Pattern("?", 1, 3)>>),
   Config(1, 2, TRUE, <<Pattern("+", 0, 0)>>),
   Config(1, 2, FALSE, <<Pattern("-", NoAddress, 3)>>)}
TheTakenPorts == {{}, {1}}

\* GET and HEAD of documents there are, a page among them, HEAD of one there is
\* not, and a PUT.  The page has variables side by side and inside of others'
\* beginnings, dollars that begin none, and one at its end.
Request(method, uri) == [method |-> method, uri |-> uri]
TheRequests ==
  (<<"G">> :> Request("GET", <<"/">>)) @@ (<<"G", "X">> :> Request("GET", <<"/LOGO", "gif">>)) @@
  (<<"X", "G">> :> Request("HEAD", <<"/index", "vnc">>)) @@
  (<<"G", "G">> :> Request("HEAD", <<"/none", "html">>)) @@ (<<"X">> :> Request("PUT", <<"/">>))
TheResources ==
  (<<"/index", "vnc">> :> <<"$", "$", "P", "$", "P", "$", "A", "H", "$", "A", "$", "D", "h", "$", "$",
                            "$", "W", "$", "H", "$", "A", "W", "$">>) @@
  (<<"/LOGO", "gif">> :> <<"$", "P">>)
TheVarNames ==
  (<<"$", "$">> :> "DOLLAR") @@ (<<"$", "P">> :> "PORT") @@ (<<"$", "W">> :> "WIDTH") @@
  (<<"$", "H">> :> "HEIGHT") @@ (<<"$", "A", "W">> :> "APPLETWIDTH") @@
  (<<"$", "A", "H">> :> "APPLETHEIGHT") @@ (<<"$", "D">> :> "DESKTOP")
TheServer == [rfbPort |-> 5900, width |-> 240, height |-> 320, name |-> <<"$", "P", "n">>]

\* Two sections that differ in their last letter and one of a root that is not
\* recognised; names with capital letters and blanks, two with one hash; values
\* that are empty and that miss a number.
Text(t, up, pad) == [text |-> t, up |-> up, pad |-> pad]
SectionLine(root, last, up) ==
  [kind |-> "section", sec |-> [root |-> root, stem |-> "s", last |-> last, up |-> up]]
EntryLine(key, type, data) == [kind |-> "entry", key |-> key, type |-> type, data |-> data]
TheLines ==
  {SectionLine("HKEY_LOCAL_MACHINE", "1", TRUE),
   SectionLine("HKEY_LOCAL_MACHINE", "2", FALSE),
   SectionLine("HKEY_OTHER", "1", FALSE),
   EntryLine(Text("@", FALSE, FALSE), "REG_SZ", <<"x">>),
   EntryLine(Text("a", TRUE, TRUE), "REG_SZ", TwoQuotes),
   EntryLine(Text("a", FALSE, FALSE), "REG_BINARY", <<1, 2>>),
   EntryLine(Text("b", FALSE, FALSE), "REG_BINARY", <<1, Blank>>),
   EntryLine(Text("b", FALSE, TRUE), "REG_DWORD", <<7>>),
   [kind |-> "comment"]}
TheHash ==
  (NoKey :> 1) @@
  [k \in {Text(t, FALSE, FALSE) : t \in {"@", "a", "b"}} |-> IF k.text = "b" THEN 2 ELSE 1]

\* Both ends of a leap day, of the days the clocks change and of what a time can
\* be; what a program adds to the fields; every conversion of the code.
TheInstants == {0, 5097599, 5097600, 20000000, 951782399, 1078012800, 1199999999}
TheEdits ==
  {[field |-> "sec", by |-> -1], [field |-> "hour", by |-> 49],
   [field |-> "mday", by |-> 400], [field |-> "min", by |-> -61]}
TheFormats == {DateFormat, <<"c", "x", "X", "I", "j", "m", "U", "W", "w", "y">>}
TheDaylight == [month |-> 3, day |-> 5, secs |-> 7200]
TheStandard == [month |-> 10, day |-> 5, secs |-> 10800]
TheBias == -60

\* The clock is set back, by less and by more than a callback may be late.
TheJumps == {-3, 1, 6}

\* Versions of the protocol and in between; types in different orders, with one
\* the server does not support; passwords that agree in what counts of them.
TheVersions == {<<3, 3>>, <<3, 5>>, <<3, 7>>, <<3, 8>>, <<3, 9>>, <<4, 0>>}
TheTypeLists == {<<"None">>, <<"VncAuth">>, <<"RA2">>, <<"RA2", "Krb", "vncauth", "None">>}
ThePasswords == {<<>>, <<1>>, <<2, 3>>, <<2, 3, 1>>}
TheChallenges == {<<<<1, 2>>, <<3, 0>>>>, <<<<0, 2>>, <<1, 1>>>>}
TheSP ==
  [k \in 0 .. 15 |-> [x \in 0 .. 3 |-> (x + 2 * k * x + (x \div 2) + (k \div 4)) % 4]]
TheKey == <<1, 3>>

\* Values written by hand: of other types than the pages write, unknown, out of
\* range, with empty patterns, with a log that is and one that is not
\* understood, and one of a type that is not read.
RegValue(name, type, data) == [name |-> name, type |-> type, data |-> data]
TheRegistries ==
  {<<RegValue("Unheard", "REG_SZ", <<>>), RegValue("QueryConnect", "REG_SZ", <<2>>),
     RegValue("PortNumber", "REG_SZ", <<6, 1>>), RegValue("Hosts", "REG_SZ", <<30, 16, 16, 31>>),
     RegValue("Password", "REG_SZ", <<1>>)>>,
   <<RegValue("Log", "REG_SZ", <<20, 17, 50, 17, 3, 16, 40, 17, 17, 1, 0, 17, 5>>),
     RegValue("PortNumber", "REG_DWORD", 0), RegValue("SecurityTypes", "REG_SZ", <<22, 16, 21>>),
     RegValue("Password", "REG_BINARY", <<171>>)>>,
   <<RegValue("Log", "REG_SZ", <<41, 17, 51, 17, 2, 16, 42, 17, 50, 17, 3>>),
     RegValue("PortNumber", "REG_DWORD", 0), RegValue("NeverShared", "REG_EXPAND_SZ", <<1>>),
     RegValue("LocalHost", "REG_SZ", <<23>>)>>}
TheEverybody == <<30>>
ThePlainPasswords == {<<>>, <<1>>}
TheHostPatterns == {<<31>>}
TheStoredForm == (<<>> :> <<170>>) @@ (<<1>> :> <<171>>)

\* A server, one that kills and one that connects and disconnects.
TheCommandLines == {{}, {"kill"}, {"connect", "disconnect"}}

\* One first state of every other part: these come before the parts they limit
\* are multiplied.
HostInit ==
  /\ part \in {"input", "display", "listeners", "http", "import", "calendar",
               "timeouts", "opening", "settings", "program"}
  /\ InputInit /\ (part # "input" => mapping = <<>> /\ acceptKeyEvents /\ acceptPointerEvents)
  /\ DisplayInit /\ (part # "display" => width = CHOOSE w \in Widths : TRUE)
  /\ ListeningInit
  /\ part # "listeners" => config = (CHOOSE g \in Configs : TRUE) /\ taken = {}
  /\ HttpInit /\ ImportInit /\ CalendarInit /\ IdleInit /\ EntryInit
  /\ SettingsInit /\ (part # "settings" => registry = CHOOSE r \in FirstRegistries : TRUE)
  /\ HandshakeInit
  /\ part # "opening" =>
       /\ offered = <<"None">> /\ owner.store = "nowhere" /\ owner.password = <<>>
       /\ viewer.version = <<3, 3>> /\ viewer.password = <<>>

InputTurn ==
  /\ part = "input" /\ InputNext
  /\ UNCHANGED <<part, displayVars, listeningVars, httpVars,
                 importVars, calendarVars, idleVars, handshakeVars, settingsVars, entryVars>>
DisplayTurn ==
  /\ part = "display" /\ DisplayNext
  /\ UNCHANGED <<part, inputVars, listeningVars, httpVars,
                 importVars, calendarVars, idleVars, handshakeVars, settingsVars, entryVars>>
ListenersTurn ==
  /\ part = "listeners" /\ ListeningNext
  /\ UNCHANGED <<part, inputVars, displayVars, httpVars,
                 importVars, calendarVars, idleVars, handshakeVars, settingsVars, entryVars>>
HttpTurn ==
  /\ part = "http" /\ HttpNext
  /\ UNCHANGED <<part, inputVars, displayVars, listeningVars,
                 importVars, calendarVars, idleVars, handshakeVars, settingsVars, entryVars>>
ImportTurn ==
  /\ part = "import" /\ ImportNext
  /\ UNCHANGED <<part, inputVars, displayVars, listeningVars, httpVars,
                 calendarVars, idleVars, handshakeVars, settingsVars, entryVars>>
CalendarTurn ==
  /\ part = "calendar" /\ CalendarNext
  /\ UNCHANGED <<part, inputVars, displayVars, listeningVars, httpVars,
                 importVars, idleVars, handshakeVars, settingsVars, entryVars>>
TimeoutsTurn ==
  /\ part = "timeouts" /\ IdleNext
  /\ UNCHANGED <<part, inputVars, displayVars, listeningVars, httpVars,
                 importVars, calendarVars, handshakeVars, settingsVars, entryVars>>
OpeningTurn ==
  /\ part = "opening" /\ HandshakeNext
  /\ UNCHANGED <<part, inputVars, displayVars, listeningVars, httpVars,
                 importVars, calendarVars, idleVars, settingsVars, entryVars>>
SettingsTurn ==
  /\ part = "settings" /\ SettingsNext
  /\ UNCHANGED <<part, inputVars, displayVars, listeningVars, httpVars,
                 importVars, calendarVars, idleVars, handshakeVars, entryVars>>
ProgramTurn ==
  /\ part = "program" /\ EntryNext
  /\ UNCHANGED <<part, inputVars, displayVars, listeningVars, httpVars,
                 importVars, calendarVars, idleVars, handshakeVars, settingsVars>>

HostNext ==
  \/ InputTurn \/ DisplayTurn \/ ListenersTurn \/ HttpTurn
  \/ ImportTurn \/ CalendarTurn \/ TimeoutsTurn \/ OpeningTurn \/ SettingsTurn
  \/ ProgramTurn

HostSpec == HostInit /\ [][HostNext]_hostPartVars
=============================================================================
