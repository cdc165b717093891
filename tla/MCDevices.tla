----------------------------- MODULE MCDevices -----------------------------
(***************************************************************************)
(* Model of Console and Keyboard for TLC.  The two share no state, so a    *)
(* behaviour exercises one of them: the consoles, or the keyboard with one *)
(* of three sets of keys, chosen once and for all at the beginning.        *)
(***************************************************************************)
EXTENDS Console, Keyboard

R == INSTANCE Ring

\* What module Ring proves of its buffers, on the small ones.
ASSUME RingsSmall ==
  \A size \in 1 .. 3, byte \in {0, 1} :
    \A r \in R!Buffers(size, {0, 1}) :
      /\ R!Put(r, byte, size) \in R!Buffers(size, {0, 1})
      /\ R!Contents(R!Put(r, byte, size), size) =
           IF r.count < size THEN Append(R!Contents(r, size), byte) ELSE R!Contents(r, size)
      /\ r.count > 0 => /\ R!Take(r, size) \in R!Buffers(size, {0, 1})
                        /\ R!Contents(R!Take(r, size), size) = Tail(R!Contents(r, size))

VARIABLE subject

dvars == <<cvars, kvars, subject>>

MCKeySets == [letters |-> {"a", "shift", "caps", "pad8"},
              pad     |-> {"pad8", "slash", "num", "ctrl_r"},
              special |-> {"shift", "up", "prtsc", "pause"}]
MCKeys == UNION {MCKeySets[s] : s \in DOMAIN MCKeySets}

MCInit ==
  /\ ConInit /\ KbInit
  /\ subject \in {"consoles"} \cup DOMAIN MCKeySets
  /\ subject # "consoles" => cursor[0] = 0

\* The other consoles are there to be switched to: what is printed on them stays
\* within two lines.
MCConNext ==
  \/ \E w \in Callers, con \in Consoles, ch \in Chars :
       /\ con # 0 => cursor[con] < SCREEN_SIZE - 1 /\ ch # "nl"
       /\ OutChar(w, con, ch)
  \/ \E w \in Callers : CallerStep(w)
  \/ \E con \in Consoles, dir \in {"up", "down"} : ScrollKey(con, dir)
  \/ \E nr \in 0 .. NR_CONSOLES : SelectConsole(nr)

\* The user stops when a key has been lost: no property says what follows.
MCKbNext ==
  \/ KeyboardInterrupt
  \/ CallKeyboardRead \/ GetByte \/ Return
  \/ \E key \in MCKeySets[subject] : ~lost /\ (Press(key) \/ Release(key))

MCNext ==
  /\ \/ subject = "consoles" /\ MCConNext /\ UNCHANGED kvars
     \/ subject # "consoles" /\ MCKbNext /\ UNCHANGED cvars
  /\ UNCHANGED subject

MCSpec == MCInit /\ [][MCNext]_dvars /\ ConFairness
=============================================================================
