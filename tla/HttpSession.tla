---------------------------- MODULE HttpSession ----------------------------
(***************************************************************************)
(* A session of rfb::HTTPServer: the LineReader, processHTTP, the answer   *)
(* and the idle timeout.  A session shares nothing with the others; it is  *)
(* called again for whatever the socket has got, at any byte's boundary.   *)
(*                                                                         *)
(* The document is a resource of the Java viewer, JavaViewerServer; in a   *)
(* page of it SubstitutingInStream replaces the variables of the server.   *)
(*                                                                         *)
(* Characters are kept apart only as far as lines, requests and variables  *)
(* need: a line of request text is a sequence of members of Chars, the     *)
(* name of a document the sequence of its parts between dots.              *)
(***************************************************************************)
EXTENDS Naturals, Sequences, SequencesExt, FiniteSets, FiniteSetsExt, TLC

CONSTANTS
  Chars,       \* characters of lines
  CR, LF,      \* the ends of lines
  LineLen,     \* size of the LineReader's buffer, with its closing NUL
  Requests,    \* what a request line asks for, by its text: [method, uri]
  Resources,   \* the texts of the program's HTTPFILE resources, by their names
  Dollar,      \* the character that a variable begins with
  VarNames,    \* which variable a text is the name of: "DOLLAR", "PORT", ...
  MaxVarName,  \* maxVarNameLen of the page's stream
  Server,      \* [rfbPort, width, height, name]: what the variables tell
  IdleTimeout, \* idleTimeoutSecs, in ticks
  MaxSent      \* bound on the characters that a browser sends

ASSUME HttpAssumption ==
  /\ LineLen \in Nat /\ LineLen > 2
  /\ IdleTimeout \in Nat \ {0}
  /\ CR \notin Chars /\ LF \notin Chars \cup {CR}
  /\ MaxVarName \in Nat /\ Server.name # <<>> /\ Server.name \in Seq(Range(Server.name))
  /\ \A n \in DOMAIN VarNames :
       /\ n # <<>> /\ n[1] = Dollar /\ Len(n) <= MaxVarName
       /\ VarNames[n] \in {"DOLLAR", "PORT", "WIDTH", "APPLETWIDTH", "HEIGHT", "APPLETHEIGHT", "DESKTOP"}
  \* The names of winvnc.rc: no page is called by its ending alone.
  /\ \A n \in DOMAIN Resources :
       /\ n # <<>> /\ Resources[n] \in Seq(Range(Resources[n]))
       /\ Last(n) = "vnc" => Len(n) > 1 /\ n # <<"", "vnc">>

VARIABLES
  sent,     \* all that the browser has sent
  unread,   \* the part of it that the socket's stream holds
  session,  \* [state, buf, request, answer]: Session::state, the LineReader's
            \*   buffer, Session::request, the status answered with, 0 if none yet
  whole,    \* was the response written to its end
  document, \* [type, body]: what was written after the status line, if whole
  idle,     \* ticks since lastActive
  isShutdown

httpVars == <<sent, unread, session, whole, document, idle, isShutdown>>

HttpInit ==
  /\ sent = <<>> /\ unread = <<>>
  /\ session = [state |-> "ReadRequestLine", buf |-> <<>>, request |-> <<>>, answer |-> 0]
  /\ whole = FALSE
  /\ document = [type |-> "none", body |-> <<>>]
  /\ idle = 0
  /\ isShutdown = FALSE

-----------------------------------------------------------------------------
\* getFile's name of a document.
Named(uri) == IF uri = <<"/">> THEN <<"/index", "vnc">> ELSE uri
IsPage(name) == Len(name) > 1 /\ name # <<"", "vnc">> /\ Last(name) = "vnc"

\* A number as sprintf's %d writes it: below 100000 here.
Decimal(n) ==
  LET size == Max({k \in 1 .. 5 : k = 1 \/ n >= 10 ^ (k - 1)})
  IN [i \in 1 .. size |-> (n \div 10 ^ (size - i)) % 10]

substitute(varName) ==
  LET v == VarNames[varName]
  IN CASE v = "DOLLAR" -> <<Dollar>>
       [] v = "PORT" -> Decimal(Server.rfbPort)
       [] v \in {"WIDTH", "APPLETWIDTH"} -> Decimal(Server.width)
       [] v = "HEIGHT" -> Decimal(Server.height)
       [] v = "APPLETHEIGHT" -> Decimal(Server.height + 32)
       [] v = "DESKTOP" -> Server.name

\* SubstitutingInStream::overrun at the text that is left: what the next reads
\* get, and how much of the text it stands for.  A dollar that begins no
\* variable is text, up to the next one.
overrun(rest) ==
  LET names == {n \in 1 .. Min({MaxVarName, Len(rest)}) : SubSeq(rest, 1, n) \in DOMAIN VarNames}
      dollars == {i \in 2 .. Len(rest) : rest[i] = Dollar}
      upTo == IF dollars = {} THEN Len(rest) ELSE Min(dollars) - 1
  IN IF rest[1] = Dollar /\ names # {}
     THEN [text |-> substitute(SubSeq(rest, 1, Min(names))), taken |-> Min(names)]
     ELSE [text |-> SubSeq(rest, 1, upTo), taken |-> upTo]

\* copyStream of a page: what is written and left after each buffer, until the
\* stream's end is met.
Copied(text) ==
  LET Turn(t) ==
        IF t.rest = <<>> THEN t
        ELSE LET o == overrun(t.rest)
             IN [out |-> t.out \o o.text, rest |-> SubSeq(t.rest, o.taken + 1, Len(t.rest))]
      copied[k \in 0 .. Len(text)] ==
        IF k = 0 THEN [out |-> <<>>, rest |-> text] ELSE Turn(copied[k - 1])
  IN copied
copyStream(text) == Copied(text)[Len(text)].out

\* HTTPServer::guessContentType: what follows the first dot counts.
guessContentType(name) ==
  CASE Len(name) # 2 -> "text/html"
    [] Len(name) = 2 /\ name[2] \in {"html", "htm"} -> "text/html"
    [] Len(name) = 2 /\ name[2] = "txt" -> "text/plain"
    [] Len(name) = 2 /\ name[2] = "gif" -> "image/gif"
    [] Len(name) = 2 /\ name[2] = "jpg" -> "image/jpeg"
    [] Len(name) = 2 /\ name[2] = "jar" -> "application/java-archive"
    [] Len(name) = 2 /\ name[2] = "exe" -> "application/octet-stream"
    [] OTHER -> "text/html"

\* JavaViewerServer::getFile, and the response that is written with what it got.
getFile(uri) ==
  IF IsPage(Named(uri))
  THEN [type |-> "text/html", body |-> copyStream(Resources[Named(uri)])]
  ELSE [type |-> guessContentType(uri), body |-> Resources[Named(uri)]]

writeResponse(code, line) ==
  IF code # 200 THEN [type |-> "text/html", body |-> code]
  ELSE IF Requests[line].method = "HEAD" THEN [getFile(Requests[line].uri) EXCEPT !.body = <<>>]
  ELSE getFile(Requests[line].uri)

StripCR(line) == IF line # <<>> /\ Last(line) = CR THEN Front(line) ELSE line

\* LineReader::read of one character: what the buffer holds then, and whether a
\* line is complete.  A line that does not fit is given as far as it fits, and
\* again for every further character of it.
read(buf, c) ==
  CASE c = LF -> [buf |-> <<>>, line |-> StripCR(buf), complete |-> TRUE]
    [] c # LF /\ Len(buf) = LineLen - 1 -> [buf |-> buf, line |-> buf, complete |-> TRUE]
    [] OTHER -> [buf |-> Append(buf, c), line |-> <<>>, complete |-> FALSE]

Done(s, code) == [s EXCEPT !.state = "WriteResponse", !.answer = code]

\* The status line's code for the document a request line names.
CodeOf(line) == IF Named(Requests[line].uri) \in DOMAIN Resources THEN 200 ELSE 404

\* processHTTP with a line: the next state, or the code to answer with.
TakeLine(s, line) ==
  CASE s.state = "ReadRequestLine" /\ line = <<>> -> s
    [] s.state = "ReadRequestLine" /\ line \notin DOMAIN Requests /\ line # <<>> -> Done(s, 400)
    [] s.state = "ReadRequestLine" /\ line \in DOMAIN Requests /\ line # <<>> ->
         IF Requests[line].method \in {"GET", "HEAD"}
         THEN [s EXCEPT !.state = "ReadHeaders", !.request = line] ELSE Done(s, 501)
    [] s.state = "ReadHeaders" -> IF line = <<>> THEN Done(s, CodeOf(s.request)) ELSE s

TakeCharacter(s, c) ==
  LET r == read(s.buf, c)
      t == [s EXCEPT !.buf = r.buf]
  IN IF r.complete THEN TakeLine(t, r.line) ELSE t

\* The session and what is left over, after each character of the input.
AfterEach(s, input) ==
  LET Turn(t, c) ==
        IF t.session.answer # 0 THEN [session |-> t.session, rest |-> Append(t.rest, c)]
        ELSE [session |-> TakeCharacter(t.session, c), rest |-> t.rest]
      after[n \in 0 .. Len(input)] ==
        IF n = 0 THEN [session |-> s, rest |-> <<>>] ELSE Turn(after[n - 1], input[n])
  IN after

\* Mutant: a call that has no complete line yet starts the next one afresh.
ForgetLine(s, input) == AfterEach([s EXCEPT !.buf = <<>>], input)[Len(input)]

\* processHTTP: what is there is taken until the request is answered; the rest
\* is left where it is.
processHTTP(s, input) == AfterEach(s, input)[Len(input)]

-----------------------------------------------------------------------------
\* The browser sends some more.
Send(c) ==
  /\ Len(sent) < MaxSent
  /\ sent' = Append(sent, c)
  /\ unread' = Append(unread, c)
  /\ UNCHANGED <<session, whole, document, idle, isShutdown>>

\* HTTPServer::processSocketEvent: a session that has answered, or could not
\* write, is shut down.
processSocketEvent ==
  /\ ~isShutdown /\ unread # <<>>
  /\ idle' = 0
  /\ LET after == processHTTP(session, unread)
         done  == session'.answer # 0
     IN /\ unread' = after.rest /\ session' = after.session
        /\ whole' \in IF done THEN BOOLEAN ELSE {whole}
        /\ document' = IF whole' THEN writeResponse(session'.answer, session'.request) ELSE document
        /\ isShutdown' = done
  /\ UNCHANGED sent

Wait ==
  /\ ~isShutdown /\ idle < IdleTimeout
  /\ idle' = idle + 1
  /\ UNCHANGED <<sent, unread, session, whole, document, isShutdown>>

\* Session::checkIdleTimeout
checkIdleTimeout ==
  /\ ~isShutdown /\ idle >= IdleTimeout
  /\ isShutdown' = TRUE
  /\ UNCHANGED <<sent, unread, session, whole, document, idle>>

HttpNext ==
  \/ \E c \in Chars \cup {CR, LF} : Send(c)
  \/ processSocketEvent
  \/ Wait
  \/ checkIdleTimeout

HttpSpec == HttpInit /\ [][HttpNext]_httpVars

-----------------------------------------------------------------------------
(* Properties.                                                             *)

\* The lines of a text, the last one being what follows the last LF.
Split(text) ==
  LET ends == {i \in DOMAIN text : text[i] = LF}
      From(i) == Max({0} \cup {e \in ends : e < i}) + 1
  IN [k \in 1 .. Cardinality(ends) + 1 |->
        LET e == IF k > Cardinality(ends) THEN Len(text) + 1
                 ELSE CHOOSE i \in {i \in ends : Cardinality({j \in ends : j <= i}) = k} : TRUE
        IN SubSeq(text, From(e), e - 1)]

\* What a line counts as: its text without a CR, cut to the reader's length.
Cut(line) == IF Len(line) >= LineLen THEN SubSeq(line, 1, LineLen - 1) ELSE StripCR(line)

\* The answer that a text calls for, whatever pieces it comes in: the first
\* line that is not blank is the request, and its headers end with a blank one.
\* The last line, which may go on, tells nothing unless it is too long already.
Expected(text) ==
  LET lines == Split(text)
      Known(k) == k < Len(lines) \/ Len(lines[k]) >= LineLen
      first == {k \in DOMAIN lines : Known(k) /\ Cut(lines[k]) # <<>>}
      r == Min(first)
      request == Cut(lines[r])
  IN IF first = {} THEN 0
     ELSE IF request \notin DOMAIN Requests THEN 400
     ELSE IF Requests[request].method \notin {"GET", "HEAD"} THEN 501
     ELSE IF \E k \in r + 1 .. Len(lines) - 1 : Cut(lines[k]) = <<>> THEN CodeOf(request)
     ELSE 0

\* A page as its author means it: from each place on, the value of the variable
\* that begins there, or the character that is there.
PageFrom(text) ==
  LET Sizes(i) == {n \in 1 .. Len(text) - i + 1 : SubSeq(text, i, i + n - 1) \in DOMAIN VarNames}
      page[i \in 1 .. Len(text) + 1] ==
        IF i > Len(text) THEN <<>>
        ELSE IF Sizes(i) = {} THEN <<text[i]>> \o page[i + 1]
        ELSE substitute(SubSeq(text, i, i + Min(Sizes(i)) - 1)) \o page[i + Min(Sizes(i))]
  IN page[1]

ExpectedBody(line) ==
  LET name == Named(Requests[line].uri)
  IN CASE Requests[line].method = "HEAD" -> <<>>
       [] Requests[line].method # "HEAD" /\ Last(name) = "vnc" -> PageFrom(Resources[name])
       [] OTHER -> Resources[name]

\* A browser gets the answer to what it has sent, and gets it as soon as that
\* has been read, however its request was cut into pieces on the way and
\* however long its lines are; and a page comes with every variable that its
\* author wrote replaced and nothing else changed.
AnswersRequest ==
  LET taken == SubSeq(sent, 1, Len(sent) - Len(unread))
  IN /\ session.answer # 0 => session.answer = Expected(taken)
     /\ session.answer = 0 => Expected(taken) = 0
     /\ whole /\ session.answer = 200 => document.body = ExpectedBody(session.request)
=============================================================================
