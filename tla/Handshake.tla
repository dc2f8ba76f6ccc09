------------------------------ MODULE Handshake ------------------------------
(***************************************************************************)
(* The opening of a connection: versions, the choice of a security type,   *)
(* the challenge of VNC authentication with the cipher it uses, the result  *)
(* and ClientInit; and a client that speaks its version of the protocol.    *)
(*                                                                         *)
(* A character is a number of two bits, of which 0 ends a string; a block   *)
(* and a key of the cipher are two characters, the left and right half.     *)
(* What goes over the socket are items; the version of the client and its   *)
(* response come in two pieces.                                             *)
(***************************************************************************)
EXTENDS Integers, Sequences, FiniteSets

CONSTANTS
  ClientVersions,   \* <<major, minor>> a client may have
  ServerMinor,      \* 8, or 3 with protocol3_3
  TypeLists,        \* values of SecurityTypes: sequences of names
  Passwords,        \* of the owner and of clients: sequences of characters
  Challenges,       \* random blocks
  Stores,           \* where the owner's password is: "param", "file", "nowhere"
  SP,               \* the tables of a round: by subkey and half
  Rounds,           \* 16 in the code
  ObfuscationKey    \* d3desObfuscationKey

Mask == 3
Character == 0 .. Mask
Blocks == Character \X Character

ASSUME HandshakeAssumption ==
  /\ \A v \in ClientVersions : v = <<v[1], v[2]>> /\ v[2] \in Nat
  /\ \A names \in TypeLists : names \in Seq(STRING)
  /\ \A p \in Passwords : p \in Seq(Character \ {0})
  /\ \A c \in Challenges : c \in Seq(Blocks) /\ c # <<>>
  /\ Rounds \in Nat /\ ObfuscationKey \in Blocks
  /\ SP \in [0 .. 15 -> [Character -> Character]]

None == "None"
VncAuth == "VncAuth"
NoType == "no type"

VARIABLES
  hs,          \* the server's side: state, version, type, challenge, response, ...
  viewer,      \* the client's side
  toViewer, toServer,   \* items on the way
  offered,     \* SecurityTypes of the configuration
  owner        \* the stored password: [store, obfuscated]
handshakeVars == <<hs, viewer, toViewer, toServer, offered, owner>>

-----------------------------------------------------------------------------
(* d3des *)

rotl(x) == ((x * 2) % (Mask + 1)) + (x \div 2)
rotr(x) == (x \div 2) + ((x % 2) * 2)

\* C's ^ of two characters.
Xor(x, y) == (((x % 2) + (y % 2)) % 2) + 2 * (((x \div 2) + (y \div 2)) % 2)

\* The subkeys of the rounds, from both halves of the key turned by as much as
\* the round says; backwards to decrypt.
Turned(x, n) == IF n % 2 = 1 THEN rotl(x) ELSE x
Subkey(key, i) == Turned(key[1], i) * (Mask + 1) + Turned(key[2], i \div 2)
deskey(key, decrypt) ==
  [i \in 1 .. Rounds |-> IF decrypt THEN Subkey(key, Rounds + 1 - i) ELSE Subkey(key, i)]

\* One of the swaps of bits between the halves: it undoes itself.
Swapped(b) ==
  LET work == Xor(b[1] \div 2, b[2]) % 2
  IN  <<Xor(b[1], work * 2), Xor(b[2], work)>>
\* What is done first, and the same backwards.
Initial(b) == LET s == Swapped(b) IN <<rotl(s[1]), rotl(s[2])>>
Final(b) == Swapped(<<rotr(b[1]), rotr(b[2])>>)

\* What the tables make of a half and a subkey.
fval(half, key) == SP[key][half]

\* Each round changes one half by the other; the halves change places.
Round(b, key) == <<b[2], Xor(b[1], fval(b[2], key))>>
desRounds(block, keys) ==
  LET after[i \in 0 .. Rounds] ==
        IF i = 0 THEN Initial(block) ELSE Round(after[i - 1], keys[i])
  IN  after
desfunc(block, keys) ==
  LET done == desRounds(block, keys)[Rounds] IN Final(<<done[2], done[1]>>)

des(key, decrypt, block) == desfunc(block, deskey(key, decrypt))

-----------------------------------------------------------------------------
(* Password *)

\* The first characters, and zeroes for those there are none of.
Padded(pwd) ==
  <<IF Len(pwd) >= 1 THEN pwd[1] ELSE 0, IF Len(pwd) >= 2 THEN pwd[2] ELSE 0>>
CString(block) == IF block[1] = 0 THEN <<>> ELSE IF block[2] = 0 THEN <<block[1]>> ELSE block

ObfuscatedPasswd(pwd) == des(ObfuscationKey, FALSE, Padded(pwd))

\* Mutant: the key is not turned round.
PlainEncrypted(obfuscated) == CString(des(ObfuscationKey, FALSE, obfuscated))

PlainPasswd(obfuscated) == CString(des(ObfuscationKey, TRUE, obfuscated))

\* The parameter, else the file; none if neither is there.
getVncAuthPasswd ==
  IF owner.store = "nowhere" THEN {} ELSE {PlainPasswd(owner.obfuscated)}

Response(pwd, challenge) ==
  [i \in DOMAIN challenge |-> des(Padded(pwd), FALSE, challenge[i])]

\* What authentication rests on, and the strength of the cipher is to give:
\* passwords that differ in the characters that count (of which it leaves out
\* the eighth bit, so these are characters of seven) answer a challenge differently.
ASSUME ResponsesDiffer ==
  \A p, q \in Passwords, c \in Challenges : Response(p, c) = Response(q, c) => Padded(p) = Padded(q)

-----------------------------------------------------------------------------
(* The server. *)

Item(k, v) == [k |-> k, v |-> v]
Write(items) == toViewer' = toViewer \o items
Take == toServer' = Tail(toServer)
Next_ == Head(toServer).v
Arrives(state, k) == hs.state = state /\ toServer # <<>> /\ Head(toServer).k = k

\* Those of s that are among the types.
OfThese(s, types) ==
  LET first[n \in 0 .. Len(s)] ==
        IF n = 0 THEN <<>>
        ELSE IF s[n] \in types THEN Append(first[n - 1], s[n]) ELSE first[n - 1]
  IN  first[Len(s)]
\* The names of the parameter, in capital letters or not.  Names that are no
\* type are dropped; of the types that are known two are there.
secTypeNum(name) ==
  CASE name \in {"None", "none"} -> None
    [] name \in {"VncAuth", "vncauth"} -> VncAuth
    [] name \in {"RA2", "RA2ne", "SSPI", "SSPIne"} -> name
    [] OTHER -> NoType
parseSecTypes(names) ==
  OfThese([i \in DOMAIN names |-> secTypeNum(names[i])],
          {None, VncAuth, "RA2", "RA2ne", "SSPI", "SSPIne"})
getSecTypes == OfThese(parseSecTypes(offered), {None, VncAuth})
Supported(t) == \E i \in DOMAIN getSecTypes : getSecTypes[i] = t

Closed(why) == [hs EXCEPT !.state = "closed", !.why = why]
\* The items of a refusal by throwConnFailedException.
ConnFailed(minor) == IF minor = 3 THEN <<Item("type", NoType)>> ELSE <<Item("types", <<>>)>>

\* SConnection::approveConnection
ApproveItems(h, accept) ==
  IF h.minor >= 8 \/ h.type # None THEN <<Item("result", accept)>> ELSE <<>>
Approved(h, accept) ==
  IF accept THEN [h EXCEPT !.state = "initialisation"]
  ELSE [h EXCEPT !.state = "closed", !.why = "refused"]

AuthFailedItems == <<Item("result", FALSE)>>

\* VNCSConnectionST::queryConnection: the user is asked, or not.  A refusal
\* throws, and processSecurityMsg, which called it, writes a result once more.
Query(h, before) ==
  \/ hs' = [h EXCEPT !.state = "querying"] /\ Write(before)
  \/ hs' = Approved(h, TRUE) /\ Write(before \o ApproveItems(h, TRUE))
  \/ hs' = Approved(h, FALSE) /\ Write(before \o ApproveItems(h, FALSE) \o AuthFailedItems)

\* The first call of a security type: None is done at once, VncAuth challenges.
StartSecurity(h, before) ==
  \/ h.type = None /\ Query(h, before)
  \/ /\ h.type = VncAuth
     /\ \E c \in Challenges :
          /\ hs' = [h EXCEPT !.state = "security", !.challenge = c, !.response = <<>>]
          /\ Write(Append(before, Item("challenge", c)))

\* Versions that are none of the three are taken for the one before.
Official(minor) == IF minor >= 8 THEN 8 ELSE IF minor = 7 THEN 7 ELSE 3

processVersionMsg ==
  /\ Arrives("version", "version") /\ Take
  /\ IF hs.verStrPos = 0 THEN hs' = [hs EXCEPT !.verStrPos = 1] /\ Write(<<>>)
     ELSE LET h == [hs EXCEPT !.minor = Official(Next_[2])]
          IN  \/ /\ Next_[1] # 3
                 /\ hs' = Closed("version") /\ Write(<<Item("types", <<>>)>>)
              \/ /\ Next_[1] = 3 /\ getSecTypes = <<>>
                 /\ hs' = Closed("no type") /\ Write(ConnFailed(h.minor))
              \/ /\ Next_[1] = 3 /\ getSecTypes # <<>> /\ h.minor = 3
                 /\ StartSecurity([h EXCEPT !.type = getSecTypes[1]],
                                  <<Item("type", getSecTypes[1])>>)
              \/ /\ Next_[1] = 3 /\ getSecTypes # <<>> /\ h.minor # 3
                 /\ hs' = [h EXCEPT !.state = "type"]
                 /\ Write(<<Item("types", getSecTypes)>>)
  /\ UNCHANGED <<viewer, offered, owner>>

processSecurityTypeMsg ==
  /\ Arrives("type", "type") /\ Take
  /\ \/ ~Supported(Next_) /\ hs' = Closed("type") /\ Write(<<>>)
     \/ Supported(Next_) /\ StartSecurity([hs EXCEPT !.type = Next_], <<>>)
  /\ UNCHANGED <<viewer, offered, owner>>

\* SSecurityVncAuth::processMsg, and what processSecurityMsg does of it: the
\* whole response is compared once it is there.
AuthFailed == hs' = Closed("password") /\ Write(AuthFailedItems)
processSecurityMsg ==
  /\ Arrives("security", "response") /\ Take
  /\ LET response == Append(hs.response, Next_)
     IN  \/ Len(response) < Len(hs.challenge)
            /\ hs' = [hs EXCEPT !.response = response] /\ Write(<<>>)
         \/ /\ Len(response) = Len(hs.challenge)
            /\ \A p \in getVncAuthPasswd : response # Response(p, hs.challenge)
            /\ AuthFailed
         \/ /\ Len(response) = Len(hs.challenge)
            /\ \E p \in getVncAuthPasswd : response = Response(p, hs.challenge)
            /\ Query(hs, <<>>)
  /\ UNCHANGED <<viewer, offered, owner>>

\* Whatever arrives while the user is asked ends the connection.
BogusData ==
  /\ hs.state = "querying" /\ toServer # <<>> /\ Take
  /\ hs' = Closed("bogus data") /\ UNCHANGED <<viewer, toViewer, offered, owner>>

\* The dialog of the user is closed.
approveConnection ==
  /\ hs.state = "querying"
  /\ \E accept \in BOOLEAN : hs' = Approved(hs, accept) /\ Write(ApproveItems(hs, accept))
  /\ UNCHANGED <<viewer, toServer, offered, owner>>

clientInit ==
  /\ Arrives("initialisation", "init") /\ Take
  /\ hs' = [hs EXCEPT !.state = "normal"] /\ Write(<<Item("serverInit", 0)>>)
  /\ UNCHANGED <<viewer, offered, owner>>

-----------------------------------------------------------------------------
(* A client: it reads what it expects next and answers. *)

Hears(at, k) == viewer.at = at /\ toViewer # <<>> /\ Head(toViewer).k = k
Heard == toViewer' = Tail(toViewer)
Says(items) == toServer' = toServer \o items
Moves(at) == viewer' = [viewer EXCEPT !.at = at]

SaysVersion ==
  /\ Hears("version", "version") /\ Heard
  /\ Says(<<Item("version", viewer.version), Item("version", viewer.version)>>)
  /\ Moves(IF Official(viewer.version[2]) = 3 THEN "type" ELSE "types")

\* After the type: a challenge, or a result, or neither before version 8.
AfterType(t) ==
  IF t = VncAuth THEN Moves("challenge")
  ELSE IF Official(viewer.version[2]) = 8 THEN Moves("result") ELSE Moves("in")
InitIf(t) == IF t = None /\ Official(viewer.version[2]) # 8 THEN <<Item("init", 0)>> ELSE <<>>

HearsType ==
  /\ Hears("type", "type") /\ Heard
  /\ LET t == Head(toViewer).v
     IN  IF t = NoType THEN Moves("refused") /\ Says(<<>>) ELSE AfterType(t) /\ Says(InitIf(t))

\* It chooses what it likes, even what was not offered.
HearsTypes ==
  /\ \/ Hears("types", "types")
     \/ Hears("type", "types") /\ Head(toViewer).v = <<>>
  /\ Heard
  /\ IF Head(toViewer).v = <<>> THEN Moves("refused") /\ Says(<<>>)
     ELSE \E t \in {None, VncAuth} : AfterType(t) /\ Says(<<Item("type", t)>> \o InitIf(t))

HearsChallenge ==
  /\ Hears("challenge", "challenge") /\ Heard
  /\ LET r == Response(viewer.password, Head(toViewer).v)
     IN  Says([i \in DOMAIN r |-> Item("response", r[i])])
  /\ Moves("result")

HearsResult ==
  /\ Hears("result", "result") /\ Heard
  /\ IF Head(toViewer).v THEN Moves("in") /\ Says(<<Item("init", 0)>>)
     ELSE Moves("refused") /\ Says(<<>>)

HearsInit == Hears("in", "serverInit") /\ Heard /\ Moves("served") /\ Says(<<>>)

Viewer_ ==
  /\ SaysVersion \/ HearsType \/ HearsTypes \/ HearsChallenge \/ HearsResult \/ HearsInit
  /\ UNCHANGED <<hs, offered, owner>>

HandshakeInit ==
  /\ offered \in TypeLists
  /\ \E store \in Stores, p \in Passwords :
       owner = [store |-> store, password |-> p, obfuscated |-> ObfuscatedPasswd(p)]
  /\ \E v \in ClientVersions, p \in Passwords :
       viewer = [at |-> "version", version |-> v, password |-> p]
  /\ hs = [state |-> "version", verStrPos |-> 0, minor |-> ServerMinor, type |-> NoType,
           challenge |-> <<>>, response |-> <<>>, why |-> "open"]
  /\ toViewer = <<Item("version", <<3, ServerMinor>>)>> /\ toServer = <<>>

HandshakeNext ==
  \/ processVersionMsg \/ processSecurityTypeMsg \/ processSecurityMsg \/ BogusData
  \/ approveConnection \/ clientInit \/ Viewer_
HandshakeSpec == HandshakeInit /\ [][HandshakeNext]_handshakeVars

-----------------------------------------------------------------------------
SamePassword == Padded(viewer.password) = Padded(owner.password)

\* Both sides follow one protocol, whatever the version and however the items
\* come: when nothing is on the way and nobody is asked, the session has begun
\* or the connection is closed; a client gets past VNC authentication with the
\* stored password (of which the first characters count) and with no other, and
\* is turned away only for its version, its type or its password, by the user,
\* or because it spoke while the user was asked, as a client that waits for no
\* result does.
HandshakeAgrees ==
  /\ toViewer = <<>> /\ toServer = <<>> /\ hs.state \notin {"closed", "querying"} =>
       hs.state = "normal" /\ viewer.at = "served"
  /\ hs.state \in {"querying", "initialisation", "normal"} =>
       Supported(hs.type) /\ (hs.type = VncAuth => owner.store # "nowhere" /\ SamePassword)
  /\ hs.why = "password" => ~SamePassword \/ owner.store = "nowhere"
  /\ hs.why = "bogus data" => hs.type = None /\ hs.minor < 8
=============================================================================
