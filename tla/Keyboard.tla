------------------------------ MODULE Keyboard ------------------------------
(***************************************************************************)
(* The keyboard driver, kernel/keyboard.c: the interrupt handler fills     *)
(* kb_in, one byte per interrupt; keyboard_read(), called over and over by *)
(* task_tty, takes the bytes out, decodes them and hands each key that is  *)
(* pressed to in_process().  The handler runs between any two statements   *)
(* of keyboard_read outside of get_byte_from_kbuf's critical section.      *)
(*                                                                         *)
(* kb_in is the sequence of its bytes; module Ring shows that the array    *)
(* with its head, tail and count behaves as such.  The keyboard itself is  *)
(* external: a key sends its make bytes when pressed and its break bytes   *)
(* when released, without the fake shifts some keyboards insert.  What the *)
(* driver should report for a key is written down separately, from the     *)
(* keys held and the locks, and not from the bytes.                        *)
(***************************************************************************)
EXTENDS Integers, Sequences, FiniteSets

CONSTANTS
  Keys,          \* the keys in use: a subset of DOMAIN Scan
  KB_IN_BYTES

\* Keys, with the bytes that follow a press and a release.
Scan == [a       |-> [make |-> <<30>>,            break |-> <<158>>],
         shift   |-> [make |-> <<42>>,            break |-> <<170>>],
         ctrl_r  |-> [make |-> <<224, 29>>,       break |-> <<224, 157>>],
         caps    |-> [make |-> <<58>>,            break |-> <<186>>],
         num     |-> [make |-> <<69>>,            break |-> <<197>>],
         pad8    |-> [make |-> <<72>>,            break |-> <<200>>],
         slash   |-> [make |-> <<224, 53>>,       break |-> <<224, 181>>],
         up      |-> [make |-> <<224, 72>>,       break |-> <<224, 200>>],
         prtsc   |-> [make |-> <<224, 42, 224, 55>>, break |-> <<224, 183, 224, 170>>],
         pause   |-> [make |-> <<225, 29, 69, 225, 157, 197>>, break |-> <<>>]]

ASSUME KeyboardAssumption ==
  Keys \subseteq DOMAIN Scan /\ KB_IN_BYTES \in Nat \ {0}

VARIABLES
  wire,        \* bytes sent by the keyboard and not yet read from KB_DATA
  held,        \* keys held down
  lit,         \* the locks as the user has set them
  due,         \* keys the user has pressed and in_process has not been given
  kb_in,
  down,        \* shift_l, ctrl_r and so on: the keys that are true
  lock,        \* caps_lock and num_lock, the locks that are true
  call,        \* keyboard_read: on; key; the values make can have; bytes got
  stray,       \* keys given to in_process that are not what was due
  lost         \* a byte was dropped, or a key misread: due is given up

kvars == <<wire, held, lit, due, kb_in, down, lock, call, stray, lost>>

NoKey == "none"

\* keyboard_read not entered, or just entered: make may hold either value.
Fresh(on) == [on |-> on, key |-> NoKey, make |-> BOOLEAN, got |-> <<>>]

KbInit ==
  /\ wire = <<>> /\ held = {} /\ lit = {"num"} /\ due = <<>>
  /\ kb_in = <<>> /\ down = {} /\ lock = {"num"}
  /\ call = Fresh(FALSE)
  /\ stray = <<>> /\ lost = FALSE

-----------------------------------------------------------------------------
(***************************************************************************)
(* keyboard_handler                                                        *)
(***************************************************************************)

\* One interrupt for the next byte; a full buffer drops it.
KeyboardInterrupt ==
  /\ wire # <<>>
  /\ wire' = Tail(wire)
  /\ IF Len(kb_in) < KB_IN_BYTES
     THEN kb_in' = Append(kb_in, Head(wire)) /\ UNCHANGED <<lost, due, stray>>
     ELSE lost' = TRUE /\ due' = <<>> /\ stray' = <<>> /\ UNCHANGED kb_in
  /\ UNCHANGED <<held, lit, down, lock, call>>

-----------------------------------------------------------------------------
(***************************************************************************)
(* keyboard_read                                                           *)
(***************************************************************************)

pausebreak_scode == <<225, 29, 69, 225, 157, 197>>

\* Rows of keymap by scan code: unshifted, shifted, after E0.
keymap ==
  [r \in {30, 42, 29, 58, 69, 72, 53, 55} |->
     CASE r = 30 -> <<"a", "A", NoKey>>
       [] r = 42 -> <<"SHIFT_L", "SHIFT_L", NoKey>>
       [] r = 29 -> <<"CTRL_L", "CTRL_L", "CTRL_R">>
       [] r = 58 -> <<"CAPS_LOCK", "CAPS_LOCK", NoKey>>
       [] r = 69 -> <<"NUM_LOCK", "NUM_LOCK", NoKey>>
       [] r = 72 -> <<"PAD_8", "8", "UP">>
       [] r = 53 -> <<"/", "?", "PAD_SLASH">>
       [] r = 55 -> <<"*", "*", NoKey>>]

Letters   == {"a"}
Modifiers == {"SHIFT_L", "CTRL_L", "CTRL_R"}
PadKeys   == {"PAD_8", "PAD_SLASH"}
Locks     == [CAPS_LOCK |-> "caps", NUM_LOCK |-> "num"]

\* A mutant of Complete: four bytes are read whenever the first is E0.
CompleteLate(got) ==
  CASE got = <<>> -> FALSE
    [] got[1] = 225 -> Len(got) = 6 \/ got # SubSeq(pausebreak_scode, 1, Len(got))
    [] got[1] = 224 -> Len(got) = 4
    [] OTHER -> TRUE

\* The bytes got in this turn of the loop are all that it reads.
Complete(got) ==
  CASE got = <<>> -> FALSE
    [] got[1] = 225 -> Len(got) = 6 \/ got # SubSeq(pausebreak_scode, 1, Len(got))
    [] got[1] = 224 -> CASE Len(got) = 1 -> FALSE
                         [] Len(got) = 2 -> got[2] \notin {42, 183}
                         [] Len(got) = 3 -> got[3] # 224
                         [] OTHER -> TRUE
    [] OTHER -> TRUE

\* The keys that are told by their bytes alone, with make.
Special(got) ==
  CASE got = pausebreak_scode       -> "PAUSEBREAK"
    [] got = <<224, 42, 224, 55>>   -> "PRINTSCREEN"
    [] got = <<224, 183, 224, 170>> -> "PRINTSCREEN"
    [] OTHER                        -> NoKey

\* scan_code and code_with_e0 otherwise.  (scan_code = get_byte() == 0xe0 stores
\* the outcome of the comparison: a sequence like that of Print Screen but not
\* the same leaves 0.)
ScanCode(got) ==
  CASE got[1] # 224 -> got[1]
    [] Len(got) = 2 -> got[2]
    [] OTHER        -> 0
WithE0(got) == got[1] = 224 /\ Len(got) # 3

\* keyrow[column]
Mapped(code, e0) ==
  LET row  == code % 128
      caps == ("SHIFT_L" \in down) # ("caps" \in lock /\ row \in DOMAIN keymap /\ keymap[row][1] \in Letters)
  IN  IF row \notin DOMAIN keymap THEN NoKey
      ELSE keymap[row][IF e0 THEN 3 ELSE IF caps THEN 2 ELSE 1]

\* A mutant of PadKey: the lock is read the wrong way round.
PadKeyInverted(key, locks) ==
  CASE key = "PAD_SLASH" -> "/"
    [] key = "PAD_8" /\ "num" \notin locks -> "8"
    [] key = "PAD_8" /\ "num" \in locks -> "UP"
    [] OTHER -> key

\* What a key of the pad stands for.
PadKey(key, locks) ==
  CASE key = "PAD_SLASH" -> "/"
    [] key = "PAD_8" /\ "num" \in locks -> "8"
    [] key = "PAD_8" /\ "num" \notin locks -> "UP"
    [] OTHER -> key

\* What in_process is given.
Report(key, flags, pad) == [key |-> key, flags |-> flags, pad |-> pad]

CallKeyboardRead ==
  /\ ~call.on
  /\ call' = Fresh(TRUE)
  /\ UNCHANGED <<wire, held, lit, due, kb_in, down, lock, stray, lost>>

\* The while finds no byte.
Return ==
  /\ call.on /\ call.got = <<>> /\ kb_in = <<>>
  /\ call' = Fresh(FALSE)
  /\ UNCHANGED <<wire, held, lit, due, kb_in, down, lock, stray, lost>>

\* The last byte of a turn is in: decode, and report a key that is pressed.  key
\* keeps its value from turn to turn of one call: once it is that of Pause or
\* of Print Screen, nothing more is looked up.
Decode(got) ==
  LET special == Special(got)
      stale   == special = NoKey /\ call.key \in {"PAUSEBREAK", "PRINTSCREEN"}
      lookup  == special = NoKey /\ ~stale
      key     == IF special # NoKey THEN special
                 ELSE IF stale THEN call.key
                 ELSE Mapped(ScanCode(got), WithE0(got))
      makes   == CASE special = "PRINTSCREEN" -> {got[2] = 42}
                   [] special = "PAUSEBREAK" \/ stale -> call.make
                   [] OTHER -> {ScanCode(got) < 128}
  IN  \E make \in makes :
        LET flags  == CASE ~lookup \/ key \notin Modifiers -> down
                        [] make -> down \cup {key}
                        [] OTHER -> down \ {key}
            locks  == IF lookup /\ make /\ key \in DOMAIN Locks
                      THEN (lock \cup {Locks[key]}) \ (lock \cap {Locks[key]})
                      ELSE lock
            pad    == key \in PadKeys
            report == Report(IF pad THEN PadKey(key, locks) ELSE key, flags, pad)
            wrong  == stale \/ special = "PAUSEBREAK"
            right  == due # <<>> /\ Head(due) = report
        IN  /\ down' = flags
            /\ lock' = locks
            /\ call' = [on |-> TRUE, got |-> <<>>, make |-> {make},
                        key |-> IF lookup \/ (make /\ flags # {}) THEN NoKey ELSE key]
            /\ lost' = (lost \/ wrong)
            /\ IF lost' THEN due' = <<>> /\ stray' = <<>>
               ELSE /\ due' = IF make /\ right THEN Tail(due) ELSE due
                    /\ stray' = IF make /\ ~right THEN Append(stray, report) ELSE stray

\* get_byte_from_kbuf, and the rest of the turn after its last byte.
GetByte ==
  LET got == Append(call.got, Head(kb_in))
  IN  /\ call.on /\ kb_in # <<>>
      /\ kb_in' = Tail(kb_in)
      /\ IF Complete(got)
         THEN Decode(got)
         ELSE call' = [call EXCEPT !.got = got] /\ UNCHANGED <<down, lock, due, stray, lost>>
      /\ UNCHANGED <<wire, held, lit>>

-----------------------------------------------------------------------------
(***************************************************************************)
(* The user, whose next press or release comes when the bytes of the one   *)
(* before have been read from the keyboard.                                *)
(***************************************************************************)

\* The key the user means by pressing k with keys held and locks set.
Meaning(k, keys, locks) ==
  LET shift == "shift" \in keys
      flags == {IF x = "shift" THEN "SHIFT_L" ELSE "CTRL_R" : x \in keys \cap {"shift", "ctrl_r"}}
  IN  CASE k = "a"      -> Report(IF shift # ("caps" \in locks) THEN "A" ELSE "a", flags, FALSE)
        [] k = "shift"  -> Report("SHIFT_L", flags, FALSE)
        [] k = "ctrl_r" -> Report("CTRL_R", flags, FALSE)
        [] k = "caps"   -> Report("CAPS_LOCK", flags, FALSE)
        [] k = "num"    -> Report("NUM_LOCK", flags, FALSE)
        [] k = "pad8"   -> Report(IF shift \/ "num" \in locks THEN "8" ELSE "UP", flags, ~shift)
        [] k = "slash"  -> Report("/", flags, TRUE)
        [] k = "up"     -> Report("UP", flags, FALSE)
        [] k = "prtsc"  -> Report("PRINTSCREEN", flags, FALSE)
        [] k = "pause"  -> Report("PAUSEBREAK", flags, FALSE)

Toggled(locks, k) ==
  IF k \in {"caps", "num"} THEN (locks \cup {k}) \ (locks \cap {k}) ELSE locks

Press(k) ==
  LET now == IF k = "pause" THEN held ELSE held \cup {k}
  IN  /\ k \notin held
      /\ wire = <<>> /\ wire' = Scan[k].make
      /\ held' = now
      /\ lit' = Toggled(lit, k)
      /\ due' = IF lost THEN <<>> ELSE Append(due, Meaning(k, now, lit'))
      /\ UNCHANGED <<kb_in, down, lock, call, stray, lost>>

Release(k) ==
  /\ k \in held
  /\ wire = <<>> /\ wire' = Scan[k].break
  /\ held' = held \ {k}
  /\ UNCHANGED <<lit, due, kb_in, down, lock, call, stray, lost>>

-----------------------------------------------------------------------------
KbNext ==
  \/ KeyboardInterrupt
  \/ CallKeyboardRead \/ GetByte \/ Return
  \/ \E k \in Keys : Press(k) \/ Release(k)

\* Bytes sent raise their interrupts; task_tty goes on while it can.
KbFairness == WF_kvars(KeyboardInterrupt) /\ WF_kvars(GetByte) /\ WF_kvars(CallKeyboardRead)

KbSpec == KbInit /\ [][KbNext]_kvars /\ KbFairness
-----------------------------------------------------------------------------
(***************************************************************************)
(* Properties                                                              *)
(***************************************************************************)

\* The wire and the buffer are empty and keyboard_read has returned.
Quiet == wire = <<>> /\ kb_in = <<>> /\ ~call.on

\* in_process gets the keys the user presses, each once, in order, with the
\* modifiers and locks of the moment it was pressed, wherever the interrupts cut
\* the bytes of a key; and once it has caught up the driver knows which modifiers
\* are held and which locks are on.  Unless a byte found the buffer full, Pause
\* was pressed, or a key followed Print Screen or Pause within one call.
KeysRight ==
  ~lost =>
    /\ stray = <<>>
    /\ Quiet => /\ due = <<>>
                /\ ("SHIFT_L" \in down) = ("shift" \in held)
                /\ ("CTRL_R" \in down) = ("ctrl_r" \in held)
                /\ lock = lit

\* get_byte_from_kbuf spins in the middle of a key only while the rest of that
\* key is on its way, under the same conditions: task_tty does not hang there.
SpinIsShort ==
  (~lost /\ call.on /\ call.got # <<>> /\ kb_in = <<>>) => wire # <<>>
=============================================================================
