# Specifications of the VNC server

This directory holds TLA+ specifications of the VNC server in `src/` (a port of
RealVNC's WinVNC to Windows CE), model-checked with TLC and partly proved with
TLAPS. Paths below are relative to `src/`.

## 1. The system

One process, `winvnc`. A *host thread* runs everything that touches the
protocol: it waits for Windows events and messages and calls a handler at a
time, each to its end. Other threads only hand it commands.

| part | state it keeps | operations | talks to |
|---|---|---|---|
| `rfb/VNCServerST`, `rfb/VNCSConnectionST`, `rfb/SConnection` | the list of clients and their protocol states, `desktopStarted`, `pb`, `comparer`, `pointerClient`, keys pressed | sockets added, read and removed; approval; `closeClients`; idle timeouts | `SDesktop` (start, stop, input), the query handler, `SocketManager` |
| `rfb/UpdateTracker`, `rfb/ComparingUpdateTracker`, `rfb_wince/SDisplayCorePolling`, `rfb_wince/WMWindowCopyRect` | regions changed and copied, the picture last compared, the strip polled next | `add_changed`, `add_copied`, `compare`, `flushUpdates`, `writeFramebufferUpdate` | the display, every client's tracker |
| `rfb_wince/SDisplay` | core, pixel buffer, device, input handlers | `start`, `stop`, `restartCore`, `processEvent`, `getFbSize` | the server, the core |
| `rfb_wince/SocketManager`, `EventManager` | the array of events, maps of listeners and connections | `addSocket`, `remSocket`, `addListener`, `processEvent`, `checkTimeouts`, `getMessage` | the server, the HTTP server |
| `winvnc/VNCServerWin32` | one command slot, its condition variable, the dialog | `queueCommand`, `processEvent`, `run`, `stop` | tray thread, dialog thread, the server |
| `winvnc/QueryConnectDialog` | the socket asked about, countdown, answer | `run` | `VNCServerWin32` |
| `rfb_wince/Threading` | thread states, condition variables | `start`, `join`, `wait`, `signal` | |
| `rfb/Blacklist` | marks and timeouts of hosts | `isBlackmarked`, `clearBlackmark` | the server |
| `rfb/KeyRemapper`, `rfb_wince/SInput` | key mapping, shift state | `keyEvent`, `pointerEvent` | the operating system |
| `rfb/SMsgReader*`, `rfb/SMsgWriter*`, encoders, `rdr/*` streams | buffers, rectangle counts | reading and writing of messages | sockets |
| `rfb/HTTPServer`, `winvnc/JavaViewer` | sessions and their timeouts | requests for the viewer's page | `SDesktop::getFbSize` |
| `Network/TcpSocket`, `winvnc/ManagedListener` | listening sockets, address filter | `accept`, `setPort`, `setFilter` | `SocketManager` |
| `winvnc/STrayIcon`, `winvnc/winvnc` | the icon's thread, its window and tip; the mutex and window that processes find each other by | `run`, `setToolTip`; `_tWinMain` | `VNCServerWin32`, other processes |
| `rfb/Configuration`, `rfb_wince/RegConfig`, `Registry` | parameters, the registry key | `setParam`, `loadRegistryConfig` | everything |
| `regimp`, `vncconfig` | a dictionary; pages and their controls | separate programs that edit the registry | the registry |
| `rfb_wince/time_ce` | the time zone and a static `tm` | `localtime`, `mktime`, `strftime` for a system without them | `HTTPServer`, `Logger` |
| `zlib`, `Xregion`, `rfb/d3des` | compression windows, bands of rectangles, a cipher | vendored, called by streams, `Region` and the security types | |

What is hard here:

* a handler may close any client, but clients are deleted only later, when the
  socket manager finds their sockets shut down: between the two, closed clients
  are counted by some tests and not by others;
* a client is authenticated, and the desktop started for it, before it is in the
  session, and the start may fail half way;
* the Accept/Reject dialog answers at any time, for a connection that may be gone;
* one comparer feeds the trackers of clients that are served at different
  times, in parts, and by copies whose sources must be on the client;
* commands come from other threads while the host thread may be ending;
* keys of all clients end in one keyboard, and what is pressed for one must
  be released although mappings, modifiers and clients change;
* constructors throw half way, and the pointers they leave are used again;
* everything that comes over a socket comes in pieces, through buffers that
  are refilled, moved and flushed at any byte;
* a picture passes regions, copies in place, translations and three encodings,
  each with its special cases at the edges.

`PROJECT.json` lists the hazards one by one with the line where each bites and
the property that would catch it.

## 2. Modules

### VncServer

The connections of one server, the desktop's life and the dialog. A state of
the model is a state of the process between two messages of one client, or
between two events of the host thread.

| variable | code |
|---|---|
| `policy` | `rfb::Server`'s `alwaysShared`, `neverShared`, `disconnectClients`, `queryConnect`, fixed for a behaviour |
| `state` | `SConnection::state_` by socket; `"rejected"` is a member of `closingSockets`, `"none"` an address without a socket |
| `reverse`, `pressed` | `reverseConnection`, `pressedKeys` |
| `pointerClient`, `desktopStarted`, `pb` | members of `VNCServerST`; `pb` is null, the current buffer, or a deleted one |
| `core`, `starts` | has `SDisplay` a core (and so a keyboard); calls of `start()` since the last `stop()` |
| `held` | the keys the operating system believes are down |
| `dialogSock`, `dialogLive`, `answer` | `queryConnectDialog`: its socket, whether that connection still exists (a history variable), its answer |
| `loop`, `cur` | where the host thread is in `EventManager::getMessage` and `SocketManager::processEvent` |

Each message is an action (`ProcessVersionMsg`, `ProcessSecurityTypeMsg`,
`ProcessSecurityMsg`, `clientInit`, `keyEvent`, `pointerEvent`); anything that
throws is `ProcessException`. While a socket has data one event reads message
after message, so actions of the same socket follow each other until
`SocketServed`, which removes it if it is shut down. `CheckTimeouts` closes any
set of idle clients, and `SweepSocket`/`SweepDone` remove what is shut down,
before the next event. The events that are not a client's are
`DisconnectClients`, `QueryConnectionComplete`, `UpdateEvent`, `RestartFails`,
`GetFbSize` and the end, `ServerShutdown`.

A socket is an address, and `NewConnection` may use one again as soon as it has
been deleted: this is what makes a stale pointer to a socket visible.

Left to a nondeterministic choice: the outcome of a security type, of a write,
of the start of the desktop, whether the address filter wants a query, who is
idle. `SDisplayCore::flushUpdates` may throw by its interface but not as
`SDisplayCorePolling` implements it; constant `CoreMayFail` keeps the restart it
would cause apart. Not modelled here: access rights, clipboard, cursor, the contents of
messages. Key events are those of keys after remapping, `ISO_Left_Tab` aside;
both are in InputEvents, and the handshake's details in Handshake.

### UpdateFlow

How a change of the screen reaches the clients. Regions are sets of pixels,
pictures are functions from pixels to colours.

| variable | code |
|---|---|
| `screen` | what the display shows |
| `pollNextY` | `SDisplayCorePolling::pollNextY` |
| `pb`, `comparer`, `oldFb`, `firstCompare` | `VNCServerST::pb`, the `ComparingUpdateTracker` |
| `compareFB` | parameter `CompareFB` |
| `updates`, `requested`, `useCopyRect` | of each client: its `SimpleUpdateTracker`, the region requested, `cp.useCopyRect` |
| `view` | what the client shows once it has read all that was written |

The tracker's operations (`add_changed`, `add_copied`, `enable_copyrect`,
`subtract`, `clip_copied`) are operators on records. `Serve` is a whole pass
over the clients that wait: grab what may have changed into `pb`, compare, tell every
tracker, write each update. It is what `framebufferUpdateRequest` does for one
client and `processEvent` for all. `Draw` is the environment: any pixel may
change between two events. `setPixelBuffer` is a restart of the core with the
same screen size.

A move of the foreground window that `WMCopyRect` notices (`Noted`) is a hint
that is independent of what is really drawn: the code trusts neither, it compares. The
order in which `get_rects` yields the rectangles of a copy, which is what makes
the copy correct when source and destination overlap, is abstracted to a copy
of all pixels at once; Regions shows that the order allows it
(`CopiesReadOld` in `RegionsAgree`). Not modelled here: requests outside the framebuffer and changes
of the screen's size (UpdateMessages), pixel formats and encodings (Colours,
Encoders) except that ZRLE may write a part of what it is given (`Unwritten`),
and the cursor drawn by the server (no code in this build calls `setCursor`).

### CommandQueue and CommandMailbox

How the tray icon's thread and the dialog's thread have the host thread do
things, and how the process ends. `CommandMailbox` is the promise: a thread
asks, its command is performed once with the arguments it asked for, and the call
returns after that. `CommandQueue` is the code that keeps it.

| variable | code |
|---|---|
| `command`, `commandData`, `commandEvent` | members of `VNCServerWin32`; `commandData` is named by the thread whose data it is |
| `waiting` | `Condition::waiting`; `wait` pushes in front and `signal` wakes the front, so the thread that came last is woken first |
| `stage` | where a thread is: outside, in the first loop of `queueCommand` ("slot"), in the second ("done"); for the dialog also open, past its call ("left"), ended, not there |
| `wanted` | the arguments of the call |
| `host`, `runServer` | the host thread: in the wait, in one of the four steps of `processEvent`, in the destructor's joins; the flag `stop()` clears |
| `performed` | history: the last command performed and for whom |

A critical section of `commandLock` is one step, up to the wait in it. Between
the host thread's four steps (reset the event, look at the command, perform it,
clear it and signal) it holds no lock, and the other threads' steps may fall there. The
dialog's call does not wait (`Waits`), because the host thread joins the dialog
inside its command. `RunReturns` needs a moment with no event set, since events take
precedence over messages; after it the destructor joins the tray icon's thread, then the
dialog's.

### SocketManager

The host thread's table of events, at the level of the Windows calls: cancel the
selection, reset the event, read, select again, with the network acting between any
two of them. The code modelled is the one compiled for Windows CE, which also
re-arms listeners.

| variable | code |
|---|---|
| `events` | `EventManager::events` without the server's own two, in their order |
| `listeners`, `peer` | keys of `SocketManager::listeners` and `connections` (`peer[p] = "connected"`) |
| `selected`, `isSet` | is the event told of its socket's network events; is it set |
| `backlog`, `unread`, `isShutdown` | connections not accepted yet; data or an end not read yet; `Socket::isShutdown()` |
| `manager`, `cur` | where the host thread is in `getMessage` and `processEvent`, and whose event it handles |

`remSocket` and `addSocket` are operators; `Accept`, `ResetListener`, `RearmListener`
are the listener's branch of `processEvent`, `Cancel`, `Reset`, `Serve`, `Rearm`
the connection's. `Throw` is its `catch`. An exception that nobody catches, or a wait that
fails because the table holds a closed event (`Stale`, after a selection that failed in
`addSocket`), ends the host thread. `refresh` is `ManagedListener::refresh`, in
which every setter ends. What Winsock does is external: `WSAEventSelect` and
`accept` set the event if there is something already (`SetIf`), and
`WSAEnumNetworkEvents` resets it. Not modelled: changes of address, `FD_CLOSE` of a
listener (Winsock reports it for connections only), handles (Descriptors), window messages.

### Descriptors

Who has which handle and who keeps whose address: from `socket()` and `accept()` to the
end of the destructors, with the failures of every constructor and every addition.

| variable | code |
|---|---|
| `open`, `handle` | the handles the system has given out; the `fd` of a socket's streams and of a listener, and the local `sock` of the constructor that connects |
| `place` | who has a `TcpSocket`: nobody, the thread that makes it, the host thread, `SocketManager` (`"added"`), its own destructor (`"dying"`) |
| `isShutdown`, `left` | `Socket::isShutdown()`; the sockets whose output stream holds bytes that were not written |
| `connections`, `clients`, `closingSockets`, `sessions` | the lists of `SocketManager`, `VNCServerST` and `HTTPServer` |
| `listening`, `registered`, `lst` | the `ManagedListener`s that have a listener, those in `SocketManager::listeners`, the one being refreshed |
| `command`, `phase` | the thread whose `AddClient` is queued, and where each is in `addNewClient` |
| `host`, `cur`, `via`, `back` | where the host thread is, the socket it handles, for which server, and where it goes on |

A handle that was closed may be given out again at once, to the host thread or to a
thread that connects out: `~TcpSocket` closes it (`DestroyTcpSocket`), and only then
`~FdOutStream` writes what is left to that number (`DestroySocket`). A socket's address is used again likewise.
`SocketsAreOwned` is that no handle is lost or closed by two, that those late
bytes reach no client, browser or listener that is served, and that the lists agree on
which sockets there are. What a thread that connects out has may get the late bytes, if it was given
the number meanwhile: the property does not speak of that.
Where the program ends (`EndServers`) the lists are emptied and the handles of connections stay open
until the process exits.

### InputEvents

Keys and buttons of several clients on their way into one keyboard and one mouse:
`VNCSConnectionST::keyEvent` and `pointerEvent`, `KeyRemapper`, `SDisplay`, `SKeyboard` and
`SPointer`. `pressedKeys`, `pointerClient`, `mapping`, `acceptKeyEvents` and
`last_buttonmask` are the members and parameters of those names; `keysDown` and
`buttonsDown` are what the operating system takes to be down. `keyEvent` is the whole
handler with the shift that `ISO_Left_Tab` stands for, the lookup under the remapped key and
`doKeyEventWithModifiers`, which releases and presses modifiers around a
character and puts them back; `Enter` and `Leave` are a client's coming and its
destructor. `NothingStuck`: a key that is down is recorded for a client that is still there.
`TypingKeepsKeys`: a typed character leaves what others hold as it was. The tables
of characters are constants; dead keys are compiled out (`#if 0`).

### DisplayBuffers and Outcomes

The core, buffer, device and input objects of `rfb::win32::SDisplay`, each null, live
or freed, and the widths that screen, buffer, clipper and core take each other to
have. An operation (`startCore`, `stopCore`, `recreatePixelBuffer`) is the *set of its
outcomes* on a record of the objects, each returned or thrown: module `Outcomes` has
`Returns`, `Throws` and `Then`, which carries on only where the part before
returned. `Start`, `Stop`, `GetFbSize`, `UseDesktop` are the server's uses of
them, `Resize` the display's. `DesktopIsWhole`: a started desktop has every object,
of one size; a deleted object is used only after *two* exceptions that no `stopCore()`
tidied up. The second clause is what the code gives: one failure leaves a buffer
without a core, and the next deletes that buffer and may fail to make another
before `pb` is assigned.

### Listening

From the configuration to who is let in: `RegConfig::setKey` reads the parameters
once (in this build `RegKey::awaitChange` is empty), `regConfigChanged` applies them to
the two `ManagedListener`s, with the exception of a taken port at any place; a
`TcpFilter` parses and matches patterns with masks of `AddrBits` bits; `Blacklist`
counts and times hosts out in `TimeoutBits` bits; module `Powers` has the powers of two. `AdmittedAreNamed`: on either port
the first pattern that names a host decides. `RetriesBackOff`: a host that does not
authenticate is admitted again only after doubling times; the bound in the
property is where the timeout overflows and everybody is admitted again.

### HttpSession

A session of `rfb::HTTPServer` with the document it answers with. A browser's
characters come in any pieces (`Send`, `processSocketEvent`); `getLine` keeps a
line over calls and drops what is too long, `processHTTP` answers at the first empty
line, `checkIdleTimeout` and the end of the stream close the socket. `getFile`
finds a resource of `JavaViewerServer`, guesses its type, and copies a page through
`SubstitutingInStream` (`substitute`, `overrun`, `copyStream`), which replaces `$PORT`
and the like by what the server says, also at the buffer's edges.
`AnswersRequest`: the answer and the page are those of the request as sent. The
sums over characters and buffers are recursive functions (`AfterEach`, `Copied`), so that they can be
proved about. `HttpAssumption` says what the program's own tables hold: the names of variables
begin with a dollar and fit `maxVarNameLen`, each is one `substitute` knows, and no page of `winvnc.rc` is called by its ending alone.

### TrayIcon

The icon's thread against its owner's: creation, the window that may not exist yet when the
first message is posted, `setToolTip`, a `WM_CLOSE` or timer at any time, the loop that
makes the icon again, and the destructor (`ClearFlag`, `PostQuit`, the end of the
members, `join`). `processAddressChange` is the event that sets the tip.
`DestructorReturns`: the destructor comes to its end wherever the thread is. The
model also has the thread use members that the destructor has destroyed
already; nothing in the repository promises that it does not, so no property
says so.

### ProgramEntry

`_tWinMain` in several processes: the options, the window `winvnc::IPC_Interface` that
`-connect`, `-disconnect` and `-kill` talk to, and the mutex `VNC_is_Running`. `handles` are the
processes with a handle to it. `OneServer`: two servers never run together, and
who only wanted to tell one something never becomes one. Things the model shows
and no text of the repository denies: `-kill` is always reported as failed, since
the window's procedure answers `WM_COPYDATA` with 0 for it; a process that is refused
holds the mutex for a moment, so that another may be refused although no server runs.

### RegistryImport

`regimp`: `iniparser_load` reads a file line by line into a `dictionary` whose array
grows, found by hash and key; `ImportRegistry` walks the sections, counts the keys
of each, creates them under a root and writes values by type; `FlushRegistry` at the
end. `RegistryIsFile`: the registry holds the last value the file gives each name, where
the numbers of the values can be read, and nothing else, in files whose sections all have
known roots. Where they cannot, a binary value takes numbers of the one before, and a section of
an unknown root is written under the root of the section before it: the model shows both.
A line keeps its newline (`%[^;#]` takes all up to a comment), so what the code
does about a pair of quotes happens only in a last line without one (`ValueOf`): in any other the
two quotes are the value and are written, against the comment at `regimp/iniparser.cpp:647`.

### CalendarTime

`time_ce.c`, the time functions of a C library that Windows CE has not: global time
zone variables (`localtime`, `isdst`) and one static `tm` shared by all calls.
`localtime` finds the bias of a time only once it has converted it with the one of the call before, and
converts again only in summer: `zone` is the bias found, `used` the one the fields were made with. A winter time
that is the first of all or comes after one in summer is ahead by the difference, which the comment at `rfb_wince/time_ce.c:22`
takes for mended (`LocalTimeIsCurrent`, violated).
`Edit` is a caller that changes fields before `mktime`. `TimeSurvives` follows a
time through `localtime`, `gmtime`, `mktime`, `strftime` and `ctime` and back, that winter time with what it is ahead. Found on
the way and outside the property: `JulianDays` is a day off in February, `%U` differs
where a year begins in its week, and an hour below zero on the first of a month
makes `mktime` fail (the clause about `below`). Nothing calls `ctime` in this build.
The loop of `mktime` over the months is a recursive function, as are the days before a month and the
length of a text; it takes as many turns as the days would give with months of 28, and
those after the last month leave the date as it is.

### IdleTimeouts

`SocketManager::checkTimeouts` over both servers, with the wait it computes, the clock
that may be set during the wait (`ClockSet`), messages that renew a connection's time,
and a port that is closed meanwhile (`SetPort`). `quiet` is the true silence of a
connection, `ago` the one the clock shows. `SilentAreClosed`: closed in time and not too
early, with what a set clock costs; connections whose listener was closed (`missed`) are
not looked at any more.

### Handshake

`SConnection` from the version to `ClientInit` for every version of the protocol, with
`secTypes`, `SSecurityFactoryStandard`, `SSecurityVncAuth`, and the cipher of `d3des`
on blocks of two small characters with `Rounds` rounds and table `SP`; and a viewer that
speaks its version. `parseSecTypes` reads the list of names as the configuration
has it. Items go over two queues; the version and the response arrive in two parts. `HandshakeAgrees`:
neither end is left waiting for the other, passwords decide, and a refusal has
one of the reasons there are. A client of 3.3 or 3.7 without authentication sends
`ClientInit` at once and is closed for "bogus data" if the user is still being asked.

### Settings

From a page of `vncconfig` to the registry and on to a server that starts: the
property sheet with its pages (`StartTool`, `SelectPage`, `EditPage`, `Commit`, `onOk`),
the password dialog, `RegKey`'s values by type, hexadecimal conversion,
`RegConfig::loadRegistryConfig`, `Configuration::setParam` for each kind of parameter,
and `LogParameter` with the writers of its loggers. A text is a sequence of
characters, whole words being one. `SettingsSurvive`: a server that starts works
with what the pages showed when they were applied, its password is the one
entered last, its logs are as `Log` says. It is limited to registries all of
whose values are of a type that is read: another one throws out of the loading.
Found on the way: the parameters of `vncconfig` are read once, so its pages show
the old ones after an `Apply`; cancelling the password dialog keeps `VncAuth`; a `Log` with one bad
item has silenced all writers before it is refused; a badly written binary value
erases the old one. The usage of `winvnc` names `<setting>=<value>`, which its code never processes.

### Regions

`rfb::Region` over `Xregion/Region.c`: boxes in bands, with `miRegionOp` and its three
kinds of overlap, `miCoalesce`, extents, `XOffsetRegion`, the queries, and the order in which
`get_rects` gives boxes out. `RegionsAgree`: every region is
banded and coalesced as the code's comments demand, each operation gives the pixels that the
operation on sets of pixels gives, and the queries answer for the pixels; its last part is `CopiesReadOld`: in the order given for a movement, no box reads what an
earlier one overwrote.

### PixelBuffers and Colours

`PixelBuffers`: `FullFramePixelBuffer` with rows padded to a stride: `fillRect`, `imageRect`,
`copyRect` in every direction onto itself, `maskRect` clipped at any edge, against the
picture drawn (`MemoryIsPicture`); the rows moved one after the other are a recursive
function. `Colours`: what `DeviceContext::getPF` and the DIB
make of a display, palettes, pixel formats in both byte orders, the tables and cube
of `TransImageGetter`, when `VNCSConnectionST` makes them anew, and that a format which
`TransImageGetter` refuses ends the client's connection. `ColoursShown`: a screen
that was sent shows the nearest colours of the client's format, after any sequence of format
and buffer changes. `VNCServerST::setColourMapEntries` has no caller, so a palette is as it
was when the buffer was made; a display of 16 bits without masks is read as 555.

### Encoders

Raw in slices of a buffer's rows, RRE with its subrectangles, Hextile with what
tiles inherit, ZRLE with palettes, packed pixels and runs, each a step per tile,
against decoders written from the protocol. `DecodedIsPicture`: what the client makes of
the tiles is the picture, in the rows the encoder says it has written.

### UpdateMessages and SocketStreams

`UpdateMessages` is one client and its writer: encodings named, requests clipped, updates
put together with their pseudo-rectangles and counts, while the desktop changes its size.
`ClientFollowsSize`: every update fits the size the client knows when it reads it, it is
told of the last one, and every rectangle is in an encoding the client named. The code takes a client
to have named DesktopSize until it sends its list (`ConnParams.cxx:30`): one that names nothing may be
told a size so, which is the exception the property makes. `SocketStreams` is what is below: `FdInStream` with its small
buffer under the reader of each kind of message, `FdOutStream` under the writer, timeouts and
failures. How many bytes a call is of says once, when it is made, whether it goes past the
buffers (`RawBytes`), and calls of no bytes at all occur. `BytesKeepOrder`: no
byte is lost, doubled or moved in either direction. The length of a cut text is read as unsigned
and kept as an int (`AsInt`): where it is negative nothing of the text is read, its bytes are
taken for messages (`Astray`, `TakenFor`) until one of them throws, and the property is about what comes before.

### Deflation, Inflation and HuffmanTrees

zlib as the streams of `rdr` run it. Nothing in the repository makes a `ZlibInStream`, so
`inflate` is there for a viewer; its model is of the code as it stands, and shows what the server's output is read by. `Deflation`: `ZlibOutStream` over `deflate()` at all levels
(stored, fast, lazy), with the sliding window, hash chains, pending buffer and flushes
of a few bytes. `Inflation`: `ZlibInStream` over `inflate()`, its bit buffer counted exactly,
the circular window, the fast loop that reads ahead, and streams that are not sound. `HuffmanTrees`:
the codes from frequencies to lengths (`gen_bitlen` with its overflow), what a block takes with them
and with the static ones, which decides between a stored, a static and a dynamic block
(`FlushBlock`), the lengths as they are sent, read back and made into tables by `huft_build`. Properties: `CompressedIsWritten`, `InflatedIsSaid`, `TreesAgree`.

### MC modules and proof modules

`MCVncServer` and `MCUpdateFlow` hold the values of constants that a `.cfg` cannot
express. `MCThreads`, `MCHost`, `MCPictures` and `MCTransport` put parts side by side that share no
state: the first state chooses one (`part`), and only that one moves. Their states add
up instead of multiplying, and each part's properties say nothing of the others. The modules named
`...Proofs` hold the inductive invariants and the proofs: those of four components on their own, `HostProofs`
those of ProgramEntry, Listening, IdleTimeouts, Handshake, RegistryImport and HttpSession, `DesktopProofs` those of
DisplayBuffers, InputEvents, PixelBuffers and CalendarTime, `TransportProofs` those of UpdateMessages,
SocketStreams and Descriptors. `Arithmetic` has what they need of the natural numbers. Operators commented "Mutant" are wrong on purpose: each is what a
plausible bug would make of the definition that follows it, and a property that
does not notice the substitution says nothing.

The modules that `MCHost` joins keep to names of their own (`InputInit`,
`DisplaySpec`, ...), since a module may extend several of them. `RECURSIVE` operators are only in
modules that no proof uses: `Colours`, `Deflation`, `Encoders`, `HuffmanTrees`,
`Regions`. Elsewhere recursion is a recursive function.

## 3. Runs

Deadlock is checked in the runs of UpdateFlow. It is not in the others, where the
process ends or the peers have sent all they may.

| run | instance | what it shows |
|---|---|---|
| `server_safety` | 3 sockets (interchangeable), all combinations of the sharing parameters, no keys, failing core | `RemembersClients`: the dialog's connection and the pointer's owner are there; `AdmittedByUser`; `DesktopServesClients`: the desktop runs for whoever is authenticated; `NeverSharedIsExclusive` |
| `server_liveness` | 2 sockets, 1 key, the default policy with the query | `ClosedIsRemoved`, `QueryIsAnswered` |
| `stuckkeys` | 2 sockets, 1 key | **violated** `KeysReleased`: the last authenticated client is removed first, the desktop stops, and the releases of clients that are still to be removed are dropped |
| `flow_safety` | 2 pixels in a row, 2 colours, 2 clients, one of them with CopyRect, windows moving a step, ZRLE leaving a pixel | `UnmarkedIsShown`, `CopiesAreValid`, `UpdateShowsPb` with clients served at different times |
| `flow_liveness` | 2 rows of one pixel, polled one at a time, 1 client | `Converges` |
| `partial` | 2 pixels, requests for any part of the screen | **violated** `CopiesAreValid`: an update of a part overwrites the source of the copy that stays pending |
| `threads` | three parts: the tray icon's thread, the dialog, `stop()` and a failing loop; the icon's thread and its owner with 2 tips and 2 closings or timers; 2 connections that send twice, 2 listeners, a table of 3 places, any selection failing | `NoLostWakeup`; `KeepsMailbox`: the queue implements the mailbox; `CallsReturn` while the server runs; `StopEndsRun`; `DestructorReturns`; `TableHasAll`: every socket has its one place; `PeersAreServed`: who comes is let in and what is sent is read |
| `kill` | the first part of `threads`, ended by `stop()` only | **violated** `KillEnds`: a command queued after `stop()` and not seen by the loop any more keeps its thread in `queueCommand`, and the destructor waits for that thread |
| `host_parts` | ten parts: 2 clients with 6 keys; 2 widths and 3 failures; 6 configurations and 2 hosts over addresses of 3 bits; requests of up to 6 characters through a line buffer of 3; files of up to 4 lines; 7 instants and 2 edits; a viewer and a browser with a clock set once; 6 versions, 4 lists of types, 4 passwords; 3 registries and 2 edits; 3 processes | `NothingStuck`, `TypingKeepsKeys`, `DesktopIsWhole`, `AdmittedAreNamed`, `RetriesBackOff`, `AnswersRequest`, `RegistryIsFile`, `TimeSurvives`, `SilentAreClosed`, `HandshakeAgrees`, `SettingsSurvive`, `OneServer` |
| `stalezone` | the parts of `host_parts` | **violated** `LocalTimeIsCurrent`: a winter time converted first of all, or after one in summer, is ahead |
| `picture_parts` | regions in a window of 3 by 3 with all operations in any sequence; buffers of 3 by 3 in rows of 4; 6 displays, 6 client formats, 2 palettes; pictures of up to 5 by 4 pixels with Hextile tiles of side 2 and ZRLE tiles of side 4 | `RegionsAgree`, `MemoryIsPicture`, `ColoursShown`, `DecodedIsPicture` |
| `transport_parts` | 3 sizes of the desktop with a message on the way; buffers of 5 and 6 bytes under messages and calls on both sides of the bulk size and of no bytes, and a text longer than the largest int, here 11; 2 sockets, 3 handles and a thread that connects, the least for a handle to be another's while its last owner is destroyed; texts of up to 60 bytes with a window of 16 and buffers of 5 to 8; 16 streams with a window of 10; trees of 24 and 6 symbols with codes of at most 6 and 4 bits, over frequencies for which each kind of block is the shortest | `ClientFollowsSize`, `BytesKeepOrder`, `SocketsAreOwned`, `CompressedIsWritten`, `InflatedIsSaid`, `TreesAgree` |

Bounds. Three sockets are enough for the admission rules, which ask whether
*another* client has authenticated, with one more to be closing meanwhile; keys
are independent of each other and appear where a property is about them. `starts` is
capped at 2, one more than the alternation of `start` and `stop` allows. Two pixels
in a row let a move leave the screen and have its source drawn over, and
both colours suffice since only equality is ever tested. `threads` has the one calling
thread the program has; the theorems are about any number. Three places for four
sockets make the table full with any three; `MaxSends` lets data come once before and once
after any step of a turn. The theorems below hold with none of these bounds.

In the other runs of parts the bounds follow one rule: a size of the code (a buffer,
a window, a tile, a table, a width in bits) is a constant, and its value in the `.cfg` is small enough
that the inputs pass it several times: lines longer than the buffer, texts longer than
the window, pictures with odd tiles at the right and lower edge, more colours than a palette
holds, codes longer than allowed, timeouts that overflow. `MaxFailures = 3` is one more than
the two that matter. Files of four lines have a section, another one of its length, and
entries before, in and after them. Three processes are a server, a refused one and
one that finds the mutex of the refused one. `MaxOps = 1`: one operation on a picture that
is different at each point tells as much as several. The calendar reaches from 1970 over
leap years to the last second there is; its instants lie on both sides of every switch.
Constants of these parts that the code has large (`HexTile` 16, `ZTile` 64, `wsize`
32768, `TIME_MAX` of 31 bits) occur only in comparisons with counts that
pass them in the instance as well.

### Fairness

`VncServer!Fairness`: the host thread goes on from `SocketServed` through the
sweep to the next wait, since nothing in between blocks. This takes it that a
client does not send so fast for ever that `processMessages` never runs out of
data. The dialog answers, since its countdown ends in an answer. The command
event stands before every socket's event in the array given to
`WaitForMultipleObjects`, and so is served again and again whatever the sockets
do: strong fairness of `QueryConnectionComplete`.

`UpdateFlow!Fairness`: strong fairness of a poll, since the timer's flag
`pollNextStrip` stays set until an event is processed with clients waiting; and weak
fairness of the clients' incremental requests, which is an assumption about viewers.

`CommandQueue!Fairness`: threads that can run do; the dialog's countdown ends; a
quiet moment, in which messages are looked at, comes again and again
(`RunReturns`), and so does one in which the tray icon's thread is not in a menu's
command (`CallerStopped`). A caller that was woken while the slot is free gets it in the
end, which only a stream of dialogs could prevent. With several callers this would not
be enough for `CallsReturn`: the condition wakes the last that came.

`SocketManager!SocketsFairness`: the host thread goes on (`SocketStep`), and gets to the sockets'
events although the server's own come first in the table (`Dispatch`). Which socket is served
is the table's choice, the lowest first; `PeersAreServed` holds for
peers that pause, as `MaxSends` makes them. A peer that sent for ever would keep
those behind it waiting, which the code does not prevent.

`TrayIcon!TrayFairness` (`MCThreads` states these three for its own steps): both threads go on where they do not wait for each other;
`MaxCloses` and `MaxTips` bound the messages others send, which come before
`WM_QUIT` in the queue only if they were sent before it.

## 4. Proofs

All proofs hold for any values of the constants that satisfy the named
assumptions in the modules.

`VncServerProofs` proves `Spec => []IInv` (`Invariance`) and from it every safety
property of `server_safety`, with `NoIdleDesktop`, that no desktop runs without a client
while the host thread waits, which no run repeats. The properties alone are not
inductive. What `IInv` adds:
`DesktopHasClient`, that a started desktop has an authenticated client, or one that
is closing and whose removal will stop it, in every state and not only where the loop waits;
`SweptWhenReady`, that nothing is left shut down where the host thread waits; and
`PointerOwnerListed`, that the pointer's owner is in the list of clients wherever the loop is.

`UpdateFlowProofs` proves `Spec => []FlowInv` (`FlowInvariance`) and from it
`UnmarkedIsShown`, `CopiesAreValid`, `OldFbIsPb` (the comparer compares with what the
clients know) and `UpdateShowsPb`, under two
assumptions: `CopyRequestsWhole` (clients that use CopyRect ask for the
whole screen), which run `partial` shows to be needed, and `AlwaysCompares` (`CompareFB`
is on, its default; it is read once). Beyond the properties, the
invariant says that the comparer has nothing pending between two events
(`ComparerIdle`), that only clients with CopyRect have copies pending and that those
wait for the whole screen (`CopyDiscipline`), and joins the two properties of a
tracker into one (`Sound`), which every operation on trackers is shown to keep. The heart of the proof is that `add_copied` keeps valid
copies valid in each of its three cases.

`CommandQueueProofs` proves, for any number of calling threads, `NoLostWakeup`,
`CommandIsSignalled` (the host thread never waits with a command in the slot and
no event) and, as `QueueRefinesMailbox`, that every behaviour of the queue is
one of the mailbox (`StatusOf` is the refinement mapping). The invariant adds that a
thread sleeps once and only inside `queueCommand` (`SleepsOnce`), that the host
thread is in its handler only with a command (`EventHasCommand`, `EventTaken`), and
that the command in the slot is what its owner wants (`SlotHasOwner`): without it a
performed command could be another's.

`SocketManagerProofs` proves the types, `UnreadIsSet`, `BacklogIsSet` (no event is lost
around a turn) and `TableHasAll` for
any number of sockets and places. The invariant adds that a socket outside its turn is
selected (`Selected`), that the socket served is registered and, until the reset, its
event set (`ServedIsRegistered`, `ServedIsSet`), and that the table has nothing but
registered sockets and those whose selection failed (`TableHasOnly`). The lemmas about `Without`
and `Append` carry it through additions and removals.

`HostProofs` has six components that share nothing. `ServesAlone`: a server is behind
the handle of the mutex (`HandleHeld`), which only one process can have made, and a window
serves (`WindowServes`). `Admission`: the first pattern that names a host decides, for masks of any
width; the invariant `SetupInv` says that what is open has been given the filter it
should have, at every step at which applying a configuration may throw. `BackOff`: `BlackInv`
counts the failures of a host (`Counted`) and gives the time it is put off by (`PutOff`),
which takes an induction on doublings. `SilenceEnds`: a connection is looked at on time, or
its look is late by as much as the clock was set (`OnTime`, `Delayed`). `FileIsImported`:
the dictionary is a map of the names to their last values (`DictGet`, `DictSet`), however its
slots grow and whatever names share a hash; the n-th of the slots, for all n, is each of them
(`NthRank`), so that every section and every key has its turn, and those counted in excess find
nothing or what is written anyway (`SectionImported`). `KeysAreSaid` says
this of the sections done so far.

`OpeningAgrees` is about the handshake. Its invariant `HandshakeIInv` names the seven
situations of server and client with what may be on the way in each:
`Greeting`, `Choosing`, `Challenging` (with a part of the response here and the rest on the way,
`Answering`), `Asking`, `Accepted`, `Serving`, `Ended`. A client of 3.3 or 3.7 that waits for no
result may be `Ahead` of the server, which is the only case of bogus data. That the
stored password is read as it was written (`PasswordsKept`) follows from the cipher: every round can be undone with the same
subkey (`RoundFacts`), so the rounds backwards undo the rounds (`Deciphers`), whatever the
tables and however many there are. It assumes what no model can show, that passwords
that differ are answered for differently (`ResponsesDiffer`).

`RequestsAreAnswered` is about `HttpSession`. Its invariant `HttpIInv` says that what was sent is what was
read and what is still unread, and that the session `Agrees` with what was read: an answer is the one
the text calls for, and a session that has none holds the last line as far as it fits (`Held`) and, once
it reads headers, the first line that tells anything (`First`), after which none is blank
(`GoesOn`). With one more character the lines of a text change in their last
one, or get a new one (`SplitMore`, `SplitEnd`), and the session goes with them (`TakeCharacterAgrees`);
`CallAgrees` takes this over a call with any number of characters. A page is the text where no variable begins
(`PlainText`), so what a turn of the copying gives is what the page has there (`OverrunIsPage`), and
all turns together copy it (`CopyIsPage`).

`DesktopProofs`: `WholeDesktop` rests on which objects a buffer that is old, just made anew, or
stopped can go with (`OldBuffer`, `Recreated`, `CoreStarted`, `Stopped`, `CoreIsStarted`) and on counting
the failures since the last tidying (`FailuresCounted`). `KeysAreRecorded` and the action
property `TypingKeeps` hold for any keyboard layout and key map. `MemoryShowsPicture`: a
place of the memory belongs to one row (`OneRow`), and a copy of an area to itself reads no row
it has written, by induction over the rows in the order the code takes them.

`TimesSurvive`, there too, is about `CalendarTime`. The model counts the leap years before a year one by one, the code
by quotients; both are the closed form `DaysBefore` (`YearStartIs`, `DaysOfYearsIs`), from one year to the next by
induction. So a date that is looked up has the days it was found by (`SystemTimeIs`), what `mktime` carries from a field to
the next keeps the seconds (`CarriedIs`), and so does a month of days that go into the next
(`RollIs`). The invariant `CalendarIInv` says that the fields tell the time asked for and what was added
since (`FieldsTell`), and that fields just made are those of a date (`MadeFresh`); a text is read back
from them (`DateReads`, `TextReads`). It assumes that the years of the model go on to the end of the
times, `TIME_MAX`, and have four digits, as those of 31 bits do.

`TransportProofs`: `ClientIsFollowed` (`MessagesIInv`) says of every state of the writer whether the
client knows the size or is told it in what is to come (`KnowsOrIsTold`), that what was
declared is what follows (`Declared`) and that one request is outstanding at most
(`OneOutstanding`). `BytesInOrder`: the invariants `ReadIInv` and `WriteIInv` say that the bytes on
the way lie in order from the first of the next message, that the calls left are what the message
still needs, and that what was written is on the wire or in the buffer. `ReadIInv` ends where the
reader goes astray (`ReaderIInv`); it stays so, and what was handed on before is not touched (`StaysAstray`). `SocketsStayOwned`: the
invariant `DescriptorsIInv` says by where a socket, a caller or a listener is whether it has a
handle (`Placed`) and which one the host thread handles (`Handled`). A handle has the same owner
until it is closed or handed on (`OwnerComes`, `OwnerGoes`, `OwnerChanges`), and a
closed handle that another got meanwhile is of nobody who is served (`ClosedIsNotServed`), since the host
thread is the only one that adds sockets and is still in the destructor.

`Arithmetic` has the lemmas they share. The library's induction theorems take a predicate
as parameter; `NatInd` takes a set instead, which is enough for every property of
numbers here. `Recursion` says that a recursive definition has its function: with it `Pow2`, `BytesOf`,
`PutRows`, `CopyRows`, `desRounds`, `OfThese`, `AfterEach`, `Copied`, `MonthStart`, `Roll` and `Lengths` are
unfolded.

Only model-checked are

* what must happen in the end: `ClosedIsRemoved`, `QueryIsAnswered`, `Converges`,
  `CallsReturn`, `StopEndsRun`, `PeersAreServed`, `DestructorReturns` (fairness is out of
  the prover's reach);
* the algorithms on settings, regions, colours, encodings and zlib:
  `SettingsSurvive`, `RegionsAgree`,
  `ColoursShown`, `DecodedIsPicture`, `CompressedIsWritten`, `InflatedIsSaid`,
  `TreesAgree`. Most of them compare a long recursive computation with a reference; several
  use `RECURSIVE` operators, which no proof can reach.

## 5. Plan

Done: the server, the flow of updates, the command queue with its mailbox, the sockets, the parts of the
host program, of the picture and of the transport; proofs about seventeen components.

Left, in this order:

1. a proof of `SettingsSurvive`, whose model has recursive functions and no `RECURSIVE` operators;
2. the part `CopiesReadOld` of `RegionsAgree`, with the recursion of Regions over functions,
   and the order of `get_rects` from it;
3. UpdateFlow on top of Regions instead of sets of pixels.

## 6. Not modelled

* Windows, dialogs, menus and icons: what they draw and how messages reach them;
  the wrappers of Windows calls in `rfb_wince` (`Dialog`, `MsgWindow`, `WMPoller`)
  beyond the outcomes of their calls.
* Clipboard, bell and cursor: the cursor is never set (`setCursor` and `Cursor.cxx` have
  no caller in this build), the other two are passed on unchanged.
* Layout of logs (`Logger_file`) and wording of HTTP headers and pages.
* The tables of DES; the modules model its rounds on small tables. Matching in
  `deflate` is modelled as the code does it, `longest_match`'s tuning apart; gz files
  (`gzio.c`) and zlib's example programs are not used by the program.
* Polygons of Xregion and keysyms and headers that only declare (`keysymdef.h`, `zlib.h`).
* Code without a caller: dead keys (compiled out), `iniparser` and `dictionary` setters, getters and dumps that
  `regimp` does not use, immutable parameters and the command line of `Configuration`, static
  trees' initialisation (`tr_static_init`), `difftime` and `clock`, the printing and
  parsing of pixel formats. `localtime_ce`, `mktime_ce` and `ctime_ce` have no caller either
  (the servers use `time`, `gmtime` and `strftime`), nor has `ZlibInStream` with zlib's `inflate`; these are modelled
  all the same.
* A change of the screen's size while clients are
  connected does not happen in this build: `SDisplay::recreatePixelBuffer` is called when the
  core starts and when it is not running, and nothing but a failure restarts it.
  UpdateMessages has `pixelBufferChange` with another size all the same, as the writer handles it; UpdateFlow has not.
* `FD_CLOSE` of a listener (Winsock reports it for connections only) and changes of the
  host's addresses, apart from the tip they set.

Where the model differs from the code in what no property tells apart: `VncServer!GetFbSize`
frees the buffer whenever the desktop has been started, though the code may return before; `UpdateFlow!setPixelBuffer`
keeps the strip to be polled next, which a core that is started anew sets back; `SocketManager!CheckTimeouts` lets any
connection time out once there is a listener.

Values the code mishandles that no property is about: a `ZlibLevel` outside -1 to 9 makes the
constructor of the ZRLE encoder throw and so ends the client's connection; an empty value of a
page's variable would put a NUL into the page (the desktop's name is never empty); `-connect` is
recognised only with a blank after it, and without a host it starts a server.
