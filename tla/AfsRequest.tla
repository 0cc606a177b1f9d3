---------------------------- MODULE AfsRequest -----------------------------
(***************************************************************************)
(* What a proc_ of afs.c promises the code that uses it.  phase[w] is the  *)
(* worker as its user sees it, or the command it is working on; out[w] are *)
(* the events of the last proc_update_.  An accepted command is completed  *)
(* by exactly one event, which names it, before another one is accepted.   *)
(***************************************************************************)
EXTENDS Naturals, Sequences

CONSTANT Procs

VARIABLES phase, out

vars == <<phase, out>>

Commands == {"open", "close", "fsync", "write", "readall", "mkdir", "write_fsync_close", "exit"}

Is(e, c, good) == e.cmd = c /\ e.ok = good

InitFailed(es) == es # <<>> /\ Is(es[1], "none", FALSE)

Go(w, from, to) == phase[w] = from /\ phase' = [phase EXCEPT ![w] = to]

Say(w, es) == out' = [out EXCEPT ![w] = es]

(* Fork; the notify that follows may find the child dead.                  *)
Start(w) == (Go(w, "off", "starting") \/ Go(w, "off", "broken")) /\ Say(w, <<>>)

Started(w) ==
  /\ Go(w, "starting", "ready")
  /\ Len(out'[w]) = 1 /\ Is(out'[w][1], "none", TRUE)
  /\ Say(w, out'[w])

StartFailed(w) ==
  /\ Go(w, "starting", "off")
  /\ Len(out'[w]) \in 1..2 /\ InitFailed(out'[w])
  /\ Len(out'[w]) = 2 => Is(out'[w][2], "exit", TRUE)
  /\ Say(w, out'[w])

Accept(w, c) == Go(w, "ready", c) /\ UNCHANGED out

Refuse(w) == Go(w, "ready", "broken") /\ UNCHANGED out

(* The one event of a user's command.  A failure may take the worker with  *)
(* it; a stop request that waits is taken up at once.                      *)
Complete(w, c) ==
  /\ Len(out'[w]) = 1 /\ out'[w][1].cmd = c
  /\ \/ Go(w, c, "ready") \/ Go(w, c, "exit") \/ Go(w, c, "broken")
     \/ Go(w, c, "off") /\ ~out'[w][1].ok
  /\ Say(w, out'[w])

(* The end of "exit": the unused placeholder, or afs_ev_stop_fail.         *)
Exited(w) ==
  /\ Go(w, "exit", "off")
  /\ Len(out'[w]) = 1 /\ (Is(out'[w][1], "none", TRUE) \/ Is(out'[w][1], "exit", FALSE))
  /\ Say(w, out'[w])

(* A free worker whose child died goes without an event; a broken one may  *)
(* owe the answer to a stop request, and so may one that is off.           *)
Vanish(w) == Go(w, "ready", "off") /\ Say(w, <<>>)

Reap(w) ==
  /\ Go(w, "broken", "off") \/ Go(w, "off", "off")
  /\ Len(out'[w]) <= 1 /\ (out'[w] # <<>> => out'[w][1].cmd = "exit")
  /\ Say(w, out'[w])

(* An update that has nothing to report.                                   *)
Quiet(w) == Go(w, phase[w], phase[w]) /\ Say(w, <<>>)

Init == phase = [w \in Procs |-> "off"] /\ out = [w \in Procs |-> <<>>]

Next == \E w \in Procs :
          \/ Start(w) \/ Started(w) \/ StartFailed(w)
          \/ \E c \in Commands : Accept(w, c)
          \/ Refuse(w)
          \/ \E c \in Commands \ {"exit"} : Complete(w, c)
          \/ Exited(w) \/ Vanish(w) \/ Reap(w) \/ Quiet(w)

Spec == Init /\ [][Next]_vars
============================================================================
