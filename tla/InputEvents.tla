---------------------------- MODULE InputEvents ----------------------------
(***************************************************************************)
(* Keyboard and pointer events of several clients on their way to the      *)
(* operating system: VNCSConnectionST::keyEvent and pointerEvent, the      *)
(* KeyRemapper, SDisplay, and rfb::win32::SKeyboard and SPointer, which     *)
(* press and release the keys and buttons that all clients share.          *)
(*                                                                         *)
(* Module VncServer has the clients' lives and the desktop's start and     *)
(* stop; here the desktop runs all the time, and a client is there or not. *)
(* Parameters are read once, before the first client comes.                *)
(***************************************************************************)
EXTENDS Naturals, Sequences, SequencesExt

CONSTANTS
  Clients,       \* clients that may be in the session
  NoClient,      \* the null pointer
  Keysym,        \* the key symbols, XK_...
  Latin1,        \* those that stand for a Latin-1 character
  Shift_L, Shift_R, ISO_Left_Tab, Tab,
  keysymToAscii, \* SInput.cxx: key symbols that are taken for a character
  VkScanKeyMap,  \* SInput.cxx: [vk, mods] of the characters that have a key
  keymap,        \* keymap.h: rows [keysym, vk] of the other key symbols
  VkShift,       \* VK_SHIFT
  Buttons,       \* bits of a button mask that stand for a button, not a wheel
  Mappings       \* values of RemapKeys, as sequences of [from, to, bidi]

\* A map with one entry more, or another one.
Put(f, from, to) == [k \in DOMAIN f \cup {from} |-> IF k = from THEN to ELSE f[k]]

\* SKeyboard::SKeyboard: the rows one after the other.
vkMap == FoldLeft(LAMBDA f, row : Put(f, row.keysym, row.vk), <<>>, keymap)

\* The key and the modifiers of a character, if there are any.
VkKeyScan(k) == IF k \in DOMAIN VkScanKeyMap THEN {VkScanKeyMap[k]} ELSE {}

ASSUME InputAssumption ==
  /\ NoClient \notin Clients
  /\ Latin1 \subseteq Keysym
  /\ {Shift_L, Shift_R, ISO_Left_Tab, Tab} \subseteq Keysym \ Latin1
  /\ {Shift_L, Shift_R} \subseteq DOMAIN vkMap \ DOMAIN keysymToAscii
  /\ vkMap[Shift_L] = VkShift /\ vkMap[Shift_R] = VkShift
  /\ DOMAIN VkScanKeyMap \subseteq Latin1
  /\ DOMAIN vkMap \subseteq Keysym \ Latin1

VARIABLES
  present,         \* clients in the session
  pressedKeys,     \* VNCSConnectionST::pressedKeys
  mapping,         \* KeyRemapper::mapping
  acceptKeyEvents, \* the parameters of that name
  acceptPointerEvents,
  keysDown,        \* what GetAsyncKeyState finds down
  pointerClient,   \* VNCServerST::pointerClient
  last_buttonmask, \* SPointer::last_buttonmask
  buttonsDown      \* the mouse buttons the operating system takes to be down

keyVars     == <<pressedKeys, keysDown>>
pointerVars == <<pointerClient, last_buttonmask, buttonsDown>>
paramVars   == <<mapping, acceptKeyEvents, acceptPointerEvents>>
inputVars   == <<present, keyVars, pointerVars, paramVars>>

-----------------------------------------------------------------------------
(* SKeyboard: what one call does to the keys that are down.                *)

doKeyboardEvent(os, vk, down) == IF down THEN os \cup {vk} ELSE os \ {vk}

\* Mutant: a shift that was released for a character stays released.
KeyWithModifiersNoRevert(os, vk, mods, down) ==
  IF ~down THEN os \ {vk}
  ELSE LET pressed == mods
       IN (os \cup {vk}) \ (pressed \ {vk})

\* doKeyEventWithModifiers and the KeyStateModifiers in it: the modifiers a
\* character needs are pressed, a shift it must not have is released, and
\* both are reverted once the character's own key has been pressed.
doKeyEventWithModifiers(os, vk, mods, down) ==
  IF ~down THEN doKeyboardEvent(os, vk, FALSE)
  ELSE LET pressed  == mods \ os
           released == (os \cap {VkShift}) \ mods
           typed    == doKeyboardEvent((os \cup pressed) \ released, vk, TRUE)
       IN (typed \ pressed) \cup released

ToAscii(k) == IF k \in DOMAIN keysymToAscii THEN keysymToAscii[k] ELSE k

\* SKeyboard::keyEvent: a character without a key, and a key symbol that is
\* not in the map, are ignored.
SKeyboard_keyEvent(os, keysym, down) ==
  LET k == ToAscii(keysym)
      s == CHOOSE s \in VkKeyScan(k) : TRUE
  IN  CASE k \in Latin1 /\ VkKeyScan(k) # {} -> doKeyEventWithModifiers(os, s.vk, s.mods, down)
        [] k \notin Latin1 /\ k \in DOMAIN vkMap -> doKeyboardEvent(os, vkMap[k], down)
        [] OTHER -> os

\* The virtual key that stands for a key symbol, none if it is ignored.
VksOf(keysym) ==
  LET k == ToAscii(keysym)
  IN  {s.vk : s \in VkKeyScan(k)} \cup {vkMap[j] : j \in DOMAIN vkMap \cap {k}}

-----------------------------------------------------------------------------
(* KeyRemapper.                                                            *)

\* setMapping: the entries one after the other, so that a later one wins.
setMapping(entries) ==
  LET Add(f, e) == IF e.bidi THEN Put(Put(f, e.from, e.to), e.to, e.from)
                               ELSE Put(f, e.from, e.to)
  IN FoldLeft(Add, <<>>, entries)

remapKey(k) == IF k \in DOMAIN mapping THEN mapping[k] ELSE k

-----------------------------------------------------------------------------
(* Events of the clients.                                                  *)

Enter(c) ==
  /\ c \notin present
  /\ present' = present \cup {c}
  /\ UNCHANGED <<keyVars, pointerVars, paramVars>>

\* Mutant: the key is recorded as it came, before it is remapped.
RecordUnmapped(c, k, down) ==
  pressedKeys' = [pressedKeys EXCEPT ![c] = IF down THEN @ \cup {k} ELSE @ \ {k}]

Record(c, k, down) ==
  LET key == IF remapKey(k) = ISO_Left_Tab THEN Tab ELSE remapKey(k)
  IN pressedKeys' = [pressedKeys EXCEPT ![c] = IF down THEN @ \cup {key} ELSE @ \ {key}]

\* VNCSConnectionST::keyEvent.  ISO_Left_Tab is a Tab between a press and a
\* release of the left shift, unless the client holds a shift itself; the
\* release of a key that is not recorded is dropped, but not that shift.
keyEvent(c, k, down) ==
  /\ c \in present
  /\ acceptKeyEvents
  /\ LET leftTab == remapKey(k) = ISO_Left_Tab
         key == IF leftTab THEN Tab ELSE remapKey(k)
         presser == leftTab /\ pressedKeys[c] \cap {Shift_L, Shift_R} = {}
         before == IF presser THEN SKeyboard_keyEvent(keysDown, Shift_L, TRUE) ELSE keysDown
         after == IF down \/ key \in pressedKeys[c]
                  THEN SKeyboard_keyEvent(before, key, down) ELSE before
     IN keysDown' = IF presser THEN SKeyboard_keyEvent(after, Shift_L, FALSE) ELSE after
  /\ Record(c, k, down)
  /\ UNCHANGED <<present, pointerVars, paramVars>>

\* SDisplay::pointerEvent: does an event at that position get to SPointer.
InBuffer(inside) == inside

\* SPointer::pointerEvent: the difference to the last mask is injected, but
\* only on the primary display, while the mask is taken over in any case.
SPointer_pointerEvent(mask, inside) ==
  /\ last_buttonmask' = mask
  /\ buttonsDown' = IF inside
                    THEN (buttonsDown \cup (mask \ last_buttonmask))
                           \ (last_buttonmask \ mask)
                    ELSE buttonsDown

\* VNCSConnectionST::pointerEvent.  inside: is the position, which is the
\* client's choice, inside the desktop's buffer and the primary display.
pointerEvent(c, mask, inside) ==
  /\ c \in present
  /\ acceptPointerEvents
  /\ pointerClient \in {NoClient, c}
  /\ pointerClient' = IF mask # {} THEN c ELSE NoClient
  /\ IF InBuffer(inside)
     THEN SPointer_pointerEvent(mask, inside)
     ELSE UNCHANGED <<last_buttonmask, buttonsDown>>
  /\ UNCHANGED <<present, keyVars, paramVars>>

\* VNCSConnectionST::~VNCSConnectionST: the keys are released one by one, the
\* pointer is given up as it is, with its buttons.
Leave(c) ==
  /\ c \in present
  /\ present' = present \ {c}
  /\ pressedKeys' = [pressedKeys EXCEPT ![c] = {}]
  /\ keysDown' = keysDown \ UNION {VksOf(k) : k \in pressedKeys[c]}
  /\ pointerClient' = IF pointerClient = c THEN NoClient ELSE pointerClient
  /\ UNCHANGED <<last_buttonmask, buttonsDown, paramVars>>

InputInit ==
  /\ present = {}
  /\ pressedKeys = [c \in Clients |-> {}]
  /\ mapping \in {setMapping(entries) : entries \in Mappings}
  /\ acceptKeyEvents \in BOOLEAN
  /\ acceptPointerEvents \in BOOLEAN
  /\ keysDown = {}
  /\ pointerClient = NoClient
  /\ last_buttonmask = {}
  /\ buttonsDown = {}

InputNext ==
  \/ \E c \in Clients : Enter(c) \/ Leave(c)
  \/ \E c \in Clients, k \in Keysym, down \in BOOLEAN : keyEvent(c, k, down)
  \/ \E c \in Clients, mask \in SUBSET Buttons, inside \in BOOLEAN :
       pointerEvent(c, mask, inside)

InputSpec == InputInit /\ [][InputNext]_inputVars

-----------------------------------------------------------------------------
(* Properties.                                                             *)

\* A key that the operating system takes to be down is recorded for a client
\* that is still there, and so will be released when that client goes at the
\* latest: whatever it is remapped to, and whatever modifiers are pressed for
\* a character in between.
NothingStuck ==
  keysDown \subseteq UNION {VksOf(k) : k \in UNION {pressedKeys[c] : c \in present}}

\* A character that is typed by one client leaves every key that is down as it
\* is, the modifiers that other clients hold included: what was pressed or
\* released for the character is put back.
TypingKeepsKeys ==
  [][ \A c \in Clients, k \in Latin1 :
        k \in pressedKeys'[c] \ pressedKeys[c] => keysDown \subseteq keysDown' ]_inputVars
=============================================================================
