----------------------------- MODULE AfsProofs -----------------------------
(***************************************************************************)
(* Proofs about the workers of AfsProc and the context of Afs.             *)
(*                                                                         *)
(* The handshake, for any set of workers and any set of write lengths: the *)
(* operators of AfsProc map one worker's record to the next, so most of    *)
(* the work is in lemmas about a single record.                            *)
(*                                                                         *)
(* The context, for any number of workers and calls: the list of slots and *)
(* the arrays that grow with it, the inductive invariant, and that the     *)
(* context drives its workers only in ways that AfsProc describes.         *)
(***************************************************************************)
EXTENDS Afs, TLAPS

(***************************************************************************)
(* The inductive invariant of one worker.  Handshake says who holds the    *)
(* baton and what the page holds then; Honest follows the length of a      *)
(* write from the request to its result.                                   *)
(***************************************************************************)
Answerable(s) == /\ s.ran = s.cmd /\ s.res # "none"
                 /\ s.cmd \in {"none", "exit"} => s.res = "ok"

Handshake(s) ==
  /\ s.st = "uninit" <=> s.pc = "gone"
  /\ s.st = "uninit" => s.down = 0 /\ s.up = 0 /\ s.revents = {}
  /\ s.st = "dead" => s.pc = "zombie" /\ s.up = 0
  /\ s.st = "init_pend" => s.cmd = "none"
  /\ s.st = "busy" => s.cmd # "none"
  /\ s.st = "avail" => s.pc \in {"wait", "zombie"} /\ s.down = 0 /\ s.up = 0 /\ s.cst = "idle"
  /\ s.down \in {0, 1} /\ s.up \in {0, 1} /\ ~(s.down = 1 /\ s.up = 1)
  /\ s.pc = "start" => s.st = "init_pend" /\ s.cst = "not_started" /\ s.up = 0
  /\ s.pc \in {"wait", "reply"} => s.cst = "idle"
  /\ InChild(s) => s.down = 0 /\ s.up = 0
  /\ s.pc \in {"done", "reply"} => Answerable(s) /\ s.quit = (s.cmd = "exit")
  /\ s.pc = "leave" => s.up = 1 /\ s.cmd = "exit"
  /\ s.up = 1 => Answerable(s) /\ (s.cst = "idle" \/ s.cmd = "exit")
  /\ "IN" \in s.revents => s.up = 1
  /\ "HUP" \in s.revents => s.pc = "zombie"

Honest(s) ==
  ClientWaits /\ s.cmd \in LenCmds =>
    /\ s.st = "busy" => s.wlen = s.asked
    /\ s.res = "ok" /\ (s.pc \in {"done", "reply"} \/ s.up = 1) => s.written = s.asked

Good(s) == s \in ProcState /\ Handshake(s) /\ Honest(s)

IInv == TypeOK /\ \A w \in Procs : Good(proc[w])

(***************************************************************************)
(* Types of the operators' results                                         *)
(***************************************************************************)

(* An event made of a command, a flag and a length is an event.            *)
LEMMA EventType ==
  ASSUME NEW c \in Cmds, NEW good \in BOOLEAN, NEW n \in Nat
  PROVE  Event(c, good, n) \in Events
BY DEF Event, Events

(* A list of one such event is a list of events.                           *)
LEMMA OneEventType ==
  ASSUME NEW c \in Cmds, NEW good \in BOOLEAN, NEW n \in Nat
  PROVE  <<Event(c, good, n)>> \in Seq(Events)
<1>1. Event(c, good, n) \in Events
  BY EventType
<1>. HIDE DEF Event, Events
<1>. QED
  BY <1>1

(* A pair of elements of a set is a sequence over it.                      *)
LEMMA TwoType ==
  ASSUME NEW S, NEW a \in S, NEW b \in S
  PROVE  <<a, b>> \in Seq(S)
OBVIOUS

(* The sets of commands are subsets of Cmds, which has "none" and "exit".  *)
LEMMA CmdsFacts == UserCmds \subseteq Cmds /\ LenCmds \subseteq Cmds /\ "none" \in Cmds /\ "exit" \in Cmds
BY DEF UserCmds, LenCmds, Cmds

(* The record of a worker that has no child has its type.                  *)
LEMMA BlankType == Blank \in ProcState
<1>1. <<>> \in Seq(Events)
  OBVIOUS
<1>. QED
  BY <1>1, CmdsFacts DEF Blank, ProcState, ProcSt, ResSt, ChildSt, Pcs

(* Adding an event to a worker keeps its type (proc_add_ev_).              *)
LEMMA EmitType ==
  ASSUME NEW s \in ProcState, NEW es \in Seq(Events)
  PROVE  Emit(s, es) \in ProcState
BY DEF Emit, ProcState

(* proc_notify_child_ keeps the type of a worker, sent or not.             *)
LEMMA NotifyType ==
  ASSUME NEW s \in ProcState
  PROVE  proc_notify_child_(s).s \in ProcState
<1>1. s.down + 1 \in Nat
  BY DEF ProcState
<1>2. [s EXCEPT !.down = @ + 1, !.ran = "nothing"] \in ProcState
  BY <1>1, Zenon DEF ProcState
<1>3. [s EXCEPT !.st = "dead"] \in ProcState
  BY DEF ProcState, ProcSt
<1>. QED
  BY <1>2, <1>3 DEF proc_notify_child_

(* proc_send_cmd_ keeps the type of a worker.                              *)
LEMMA SendType ==
  ASSUME NEW s \in ProcState, NEW c \in Cmds
  PROVE  proc_send_cmd_(s, c).s \in ProcState
<1>. DEFINE t == [s EXCEPT !.st = "busy", !.cmd = c, !.asked = IF c \in LenCmds THEN s.wlen ELSE @]
<1>1. t \in ProcState
  BY Zenon DEF ProcState, ProcSt
<1>. QED
  BY <1>1, NotifyType DEF proc_send_cmd_

(* proc_destroy_child_ keeps the type of a worker.                         *)
LEMMA DestroyType ==
  ASSUME NEW s \in ProcState
  PROVE  proc_destroy_child_(s) \in ProcState
BY BlankType, Zenon DEF proc_destroy_child_, ProcState

(* The fork at the end of proc_init_ keeps the type of a worker.           *)
LEMMA ForkedType ==
  ASSUME NEW pc \in {"start", "zombie"}
  PROVE  Forked(pc).s \in ProcState
<1>1. [Blank EXCEPT !.st = "init_pend", !.pc = pc] \in ProcState
  BY BlankType, Zenon DEF ProcState, ProcSt, Pcs
<1>. QED
  BY <1>1, NotifyType DEF Forked

(* proc_stop_prep_ keeps the type of a worker.                             *)
LEMMA StopPrepType ==
  ASSUME NEW s \in ProcState
  PROVE  proc_stop_prep_(s).s \in ProcState
<1>1. [s EXCEPT !.stop = TRUE] \in ProcState
  BY Zenon DEF ProcState
<1>. QED
  BY <1>1, SendType, CmdsFacts DEF proc_stop_prep_

(* Reading an answer gives a worker of its type (proc_update_busy_).       *)
LEMMA AnswerType ==
  ASSUME NEW s \in ProcState
  PROVE  Answer(s) \in Seq(Events)
<1>1. s.cmd \in Cmds /\ s.written \in Nat
  BY DEF ProcState
<1>2. <<Event(s.cmd, FALSE, 0)>> \in Seq(Events)
  BY <1>1, OneEventType, Zenon
<1>3. (IF s.cmd \in LenCmds THEN s.written ELSE 0) \in Nat
  BY <1>1
<1>4. <<Event(s.cmd, TRUE, IF s.cmd \in LenCmds THEN s.written ELSE 0)>> \in Seq(Events)
  BY <1>1, <1>3, OneEventType, Zenon
<1>5. <<>> \in Seq(Events)
  OBVIOUS
<1>. QED
  BY <1>2, <1>4, <1>5, Zenon DEF Answer, proc_cmd_fail_ev_

(***************************************************************************)
(* Each operator preserves the invariant of its worker                     *)
(***************************************************************************)
(* The invariant reads neither is_stop_req nor the events, and of the poll *)
(* results only that they are no more than is really there.                *)
LEMMA FrameGood ==
  ASSUME NEW s, Good(s), NEW t \in ProcState,
         t.st = s.st, t.pc = s.pc, t.down = s.down, t.up = s.up, t.cmd = s.cmd, t.res = s.res,
         t.cst = s.cst, t.ran = s.ran, t.quit = s.quit, t.wlen = s.wlen, t.asked = s.asked,
         t.written = s.written, t.revents \subseteq s.revents
  PROVE  Good(t)
<1>1. Handshake(t)
  BY DEF Good, Handshake, Answerable, InChild
<1>2. Honest(t)
  BY DEF Good, Honest
<1>. QED
  BY <1>1, <1>2 DEF Good

(* proc_send_cmd_ keeps the invariant: it puts a byte on the socket only   *)
(* for an idle child with no byte in flight.                               *)
LEMMA SendGood ==
  ASSUME NEW s, Good(s), NEW c \in Cmds \ {"none"}
  PROVE  Good(proc_send_cmd_(s, c).s)
<1>1. proc_send_cmd_(s, c).s \in ProcState
  BY SendType DEF Good
<1>2. CASE s.st # "avail" \/ s.cst # "idle"
  BY <1>2 DEF proc_send_cmd_
<1>3. CASE s.st = "avail" /\ s.cst = "idle"
  <2>. DEFINE t == proc_send_cmd_(s, c).s
  <2>1. CASE ChildAlive(s)
    <3>1. t = [s EXCEPT !.st = "busy", !.cmd = c, !.asked = IF c \in LenCmds THEN s.wlen ELSE @,
                        !.down = @ + 1, !.ran = "nothing"]
      BY <1>3, <2>1 DEF proc_send_cmd_, proc_notify_child_, ChildAlive, Good, ProcState
    <3>. QED
      BY <1>1, <1>3, <2>1, <3>1 DEF Good, Handshake, Honest, ChildAlive, Answerable, InChild, ProcState
  <2>2. CASE ~ChildAlive(s)
    <3>1. t = [s EXCEPT !.st = "dead", !.cmd = c, !.asked = IF c \in LenCmds THEN s.wlen ELSE @]
      BY <1>3, <2>2, Zenon DEF proc_send_cmd_, proc_notify_child_, ChildAlive, Good, ProcState
    <3>. QED
      BY <1>1, <1>3, <2>2, <3>1 DEF Good, Handshake, Honest, ChildAlive, Answerable, InChild, ProcState
  <2>. QED
    BY <2>1, <2>2
<1>. QED
  BY <1>2, <1>3

(* proc_destroy_child_ keeps the invariant: nothing of the child is left.  *)
LEMMA DestroyGood ==
  ASSUME NEW s \in ProcState
  PROVE  Good(proc_destroy_child_(s))
<1>1. proc_destroy_child_(s) \in ProcState
  BY DestroyType
<1>. QED
  BY <1>1, BlankType DEF Good, Handshake, Honest, Answerable, InChild, proc_destroy_child_, Blank, ProcState, LenCmds

(* An event that is added does not touch the handshake.                    *)
LEMMA EmitGood ==
  ASSUME NEW s, Good(s), NEW es \in Seq(Events)
  PROVE  Good(Emit(s, es))
<1>. DEFINE t == Emit(s, es)
<1>1. t \in ProcState
  BY EmitType DEF Good
<1>2. /\ t.st = s.st /\ t.pc = s.pc /\ t.down = s.down /\ t.up = s.up /\ t.cmd = s.cmd
      /\ t.res = s.res /\ t.cst = s.cst /\ t.ran = s.ran /\ t.quit = s.quit
      /\ t.wlen = s.wlen /\ t.asked = s.asked /\ t.written = s.written /\ t.revents = s.revents
  BY Zenon DEF Emit, Good, ProcState
<1>. HIDE DEF t
<1>3. Good(t)
  BY <1>1, <1>2, FrameGood
<1>. QED
  BY <1>3 DEF t

(* proc_stop_prep_ keeps the invariant, in every state of the worker.      *)
LEMMA StopPrepGood ==
  ASSUME NEW s, Good(s)
  PROVE  Good(proc_stop_prep_(s).s)
<1>. DEFINE t == [s EXCEPT !.stop = TRUE]
<1>1. Good(t)
  <2>1. t \in ProcState
    BY Zenon DEF Good, ProcState
  <2>2. /\ t.st = s.st /\ t.pc = s.pc /\ t.down = s.down /\ t.up = s.up /\ t.cmd = s.cmd
        /\ t.res = s.res /\ t.cst = s.cst /\ t.ran = s.ran /\ t.quit = s.quit
        /\ t.wlen = s.wlen /\ t.asked = s.asked /\ t.written = s.written /\ t.revents = s.revents
    BY Zenon DEF Good, ProcState
  <2>. HIDE DEF t
  <2>. QED
    BY <2>1, <2>2, FrameGood
<1>2. "exit" \in Cmds \ {"none"}
  BY DEF Cmds
<1>3. Good(proc_send_cmd_(t, "exit").s)
  BY <1>1, <1>2, SendGood
<1>. HIDE DEF t
<1>4. proc_stop_prep_(s).s \in {s, t, proc_send_cmd_(t, "exit").s}
  BY DEF proc_stop_prep_, t
<1>. QED
  BY <1>1, <1>3, <1>4

(* A worker that was just forked satisfies the invariant.                  *)
LEMMA ForkedGood ==
  ASSUME NEW pc \in {"start", "zombie"}
  PROVE  Good(Forked(pc).s)
<1>. DEFINE t == Forked(pc).s
<1>1. t \in ProcState
  BY ForkedType
<1>2. /\ t.pc = pc /\ t.revents = {} /\ t.cmd = "none" /\ t.up = 0 /\ t.cst = "not_started"
      /\ pc = "start" => t.st = "init_pend" /\ t.down = 1
      /\ pc = "zombie" => t.st = "dead" /\ t.down = 0
  BY DEF Forked, proc_notify_child_, ChildAlive, Blank
<1>. HIDE DEF t
<1>3. Handshake(t)
  BY <1>1, <1>2 DEF Handshake, InChild
<1>4. Honest(t)
  BY <1>2 DEF Honest, LenCmds
<1>5. Good(t)
  BY <1>1, <1>3, <1>4 DEF Good
<1>. QED
  BY <1>5 DEF t

(* A worker without a child keeps the invariant through proc_init_.        *)
LEMMA ProcInitGood ==
  ASSUME NEW s, Good(s), NEW o \in proc_init_(s)
  PROVE  Good(o.s)
<1>. DEFINE f == [s EXCEPT !.stop = FALSE, !.evs = <<>>]
<1>0. <<>> \in Seq(Events)
  OBVIOUS
<1>1. f \in ProcState
  BY <1>0, Zenon DEF Good, ProcState
<1>2. Good(f)
  BY <1>1 DEF Good, Handshake, Honest, Answerable, InChild, ProcState
<1>3. o.s = f \/ \E pc \in {"start", "zombie"} : o.s = Forked(pc).s
  BY DEF proc_init_
<1>. HIDE DEF f
<1>. QED
  BY <1>2, <1>3, ForkedGood

(* A caller stores write_len and then tries to send: with ClientWaits only *)
(* to a worker that is not busy, so the length of a running write is safe. *)
LEMMA CallGood ==
  ASSUME NEW s, Good(s), NEW c \in UserCmds, NEW len \in Nat,
         ClientWaits => s.st # "busy"
  PROVE  Good(proc_send_cmd_([s EXCEPT !.wlen = len], c).s)
<1>. DEFINE t == [s EXCEPT !.wlen = len]
<1>1. Good(t)
  BY DEF Good, Handshake, Honest, Answerable, InChild, ProcState
<1>2. c \in Cmds \ {"none"}
  BY DEF Cmds, UserCmds
<1>. QED
  BY <1>1, <1>2, SendGood

(* poll(2) reports a byte or a hangup that is really there.                *)
LEMMA PollGood ==
  ASSUME NEW s, Good(s)
  PROVE  Good([s EXCEPT !.polled = TRUE, !.revents = Ready(s)])
<1>1. Ready(s) \in SUBSET {"IN", "HUP"}
  BY DEF Ready
<1>2. "IN" \in Ready(s) => s.up > 0
  BY DEF Ready
<1>3. "HUP" \in Ready(s) => s.pc = "zombie"
  BY DEF Ready
<1>4. s.st = "uninit" => Ready(s) = {}
  BY DEF Ready
<1>5. s.up > 0 => s.up = 1
  BY DEF Good, Handshake
<1>6. [s EXCEPT !.polled = TRUE, !.revents = Ready(s)] \in ProcState
  BY <1>1, Zenon DEF Good, ProcState
<1>. HIDE DEF Ready
<1>. QED
  BY <1>1, <1>2, <1>3, <1>4, <1>5, <1>6 DEF Good, Handshake, Honest, Answerable, InChild, ProcState

(* Clearing is_stop_req, or the used poll results, disturbs nothing.       *)
LEMMA ClearGood ==
  ASSUME NEW s, Good(s)
  PROVE  /\ Good([s EXCEPT !.stop = FALSE])
         /\ Good([s EXCEPT !.polled = FALSE, !.revents = {}])
<1>1. Good([s EXCEPT !.stop = FALSE])
  <2>. DEFINE t == [s EXCEPT !.stop = FALSE]
  <2>1. t \in ProcState
    BY Zenon DEF Good, ProcState
  <2>2. /\ t.st = s.st /\ t.pc = s.pc /\ t.down = s.down /\ t.up = s.up /\ t.cmd = s.cmd
        /\ t.res = s.res /\ t.cst = s.cst /\ t.ran = s.ran /\ t.quit = s.quit
        /\ t.wlen = s.wlen /\ t.asked = s.asked /\ t.written = s.written /\ t.revents \subseteq s.revents
    BY Zenon DEF Good, ProcState
  <2>. HIDE DEF t
  <2>3. Good(t)
    BY <2>1, <2>2, FrameGood
  <2>. QED
    BY <2>3 DEF t
<1>2. Good([s EXCEPT !.polled = FALSE, !.revents = {}])
  <2>. DEFINE t == [s EXCEPT !.polled = FALSE, !.revents = {}]
  <2>1. t \in ProcState
    BY Zenon DEF Good, ProcState
  <2>2. /\ t.st = s.st /\ t.pc = s.pc /\ t.down = s.down /\ t.up = s.up /\ t.cmd = s.cmd
        /\ t.res = s.res /\ t.cst = s.cst /\ t.ran = s.ran /\ t.quit = s.quit
        /\ t.wlen = s.wlen /\ t.asked = s.asked /\ t.written = s.written /\ t.revents \subseteq s.revents
    BY Zenon DEF Good, ProcState
  <2>. HIDE DEF t
  <2>3. Good(t)
    BY <2>1, <2>2, FrameGood
  <2>. QED
    BY <2>3 DEF t
<1>. QED
  BY <1>1, <1>2

(* proc_update_init_pend_ keeps the invariant.                             *)
LEMMA UpdateInitPendGood ==
  ASSUME NEW s, Good(s), s.st = "init_pend",
         NEW rev, "IN" \in rev => s.up = 1, s.revents = {}
  PROVE  Good(proc_update_init_pend_(s, rev).s)
<1>1. s \in ProcState
  BY DEF Good
<1>2. <<Event("none", FALSE, 0)>> \in Seq(Events) /\ <<Event("none", TRUE, 0)>> \in Seq(Events)
  BY OneEventType, CmdsFacts, Zenon
<1>3. <<Event("none", FALSE, 0), Event("exit", TRUE, 0)>> \in Seq(Events)
  <2>1. Event("none", FALSE, 0) \in Events /\ Event("exit", TRUE, 0) \in Events
    BY EventType, CmdsFacts, Zenon
  <2>. QED
    BY <2>1, TwoType, Zenon
<1>4. [s EXCEPT !.stop = FALSE] \in ProcState
  BY ClearGood, Zenon DEF Good
<1>5. Good(Emit(proc_destroy_child_([s EXCEPT !.stop = FALSE]),
                <<Event("none", FALSE, 0), Event("exit", TRUE, 0)>>))
  BY <1>3, <1>4, DestroyGood, EmitGood, Zenon
<1>6. Good(Emit(proc_destroy_child_(s), <<Event("none", FALSE, 0)>>))
  BY <1>1, <1>2, DestroyGood, EmitGood, Zenon
<1>7. ASSUME "IN" \in rev, s.res = "ok"
      PROVE  Good(Emit([s EXCEPT !.up = @ - 1, !.st = "avail"], <<Event("none", TRUE, 0)>>))
  <2>. DEFINE t == [s EXCEPT !.up = 0, !.st = "avail"]
  <2>1. s.up = 1
    BY <1>7
  <2>2. t = [s EXCEPT !.up = @ - 1, !.st = "avail"]
    BY <2>1
  <2>3. t \in ProcState
    BY <1>1, Zenon DEF ProcState, ProcSt
  <2>4. Good(t)
    <3>1. s.pc \in {"wait", "zombie"} /\ s.down = 0 /\ s.cst = "idle" /\ s.cmd = "none"
      BY <1>1, <2>1 DEF Good, Handshake, Answerable, InChild, ProcState, Pcs
    <3>. QED
      BY <1>1, <2>1, <2>3, <3>1 DEF Good, Handshake, Honest, Answerable, InChild, ProcState, LenCmds
  <2>. QED
    BY <1>2, <2>2, <2>4, EmitGood, Zenon
<1>. QED
  BY <1>5, <1>6, <1>7 DEF proc_update_init_pend_

(* proc_update_avail_ keeps the invariant.                                 *)
LEMMA UpdateAvailGood ==
  ASSUME NEW s, Good(s), NEW rev
  PROVE  Good(proc_update_avail_(s, rev).s)
BY DestroyGood DEF proc_update_avail_, Good

(* A busy worker whose answer has been read is free again.                 *)
LEMMA ReadGood ==
  ASSUME NEW s, Good(s), s.st = "busy", s.up = 1, s.revents = {}, ~(s.res = "ok" /\ s.cmd = "exit")
  PROVE  Good([s EXCEPT !.up = @ - 1, !.st = "avail", !.evs = Answer(s),
                        !.cmd = IF s.res = "ok" THEN "none" ELSE @])
<1>. DEFINE c == IF s.res = "ok" THEN "none" ELSE s.cmd
            t == [s EXCEPT !.up = 0, !.st = "avail", !.evs = Answer(s), !.cmd = c]
<1>1. s \in ProcState /\ s.cmd \in Cmds
  BY DEF Good, ProcState
<1>2. [s EXCEPT !.up = @ - 1, !.st = "avail", !.evs = Answer(s),
                !.cmd = IF s.res = "ok" THEN "none" ELSE @] = t
  OBVIOUS
<1>3. c \in Cmds
  BY <1>1, CmdsFacts
<1>4. Answer(s) \in Seq(Events)
  BY <1>1, AnswerType
<1>. HIDE DEF c, Answer
<1>5. t \in ProcState
  BY <1>1, <1>3, <1>4, Zenon DEF ProcState, ProcSt
<1>6. s.pc \in {"wait", "zombie"} /\ s.down = 0 /\ s.cst = "idle" /\ s.cmd # "exit"
  BY <1>1 DEF Good, Handshake, Answerable, InChild, ProcState, Pcs
<1>7. Handshake(t)
  BY <1>1, <1>6 DEF Good, Handshake, Answerable, InChild, ProcState
<1>8. Honest(t)
  BY <1>1, <1>6 DEF Honest, ProcState
<1>9. Good(t)
  BY <1>5, <1>7, <1>8 DEF Good
<1>. QED
  BY <1>2, <1>9

(* proc_update_busy_ keeps the invariant: it takes the answer, reports it  *)
(* and may send the exit command that waited for it.                       *)
LEMMA UpdateBusyGood ==
  ASSUME NEW s, Good(s), s.st = "busy",
         NEW rev, "IN" \in rev => s.up = 1, s.revents = {}
  PROVE  Good(proc_update_busy_(s, rev).s)
<1>1. s \in ProcState /\ s.cmd \in Cmds
  BY DEF Good, ProcState
<1>2. <<proc_cmd_fail_ev_(s.cmd)>> \in Seq(Events) /\ <<Event("none", TRUE, 0)>> \in Seq(Events)
  BY <1>1, OneEventType, CmdsFacts, Zenon DEF proc_cmd_fail_ev_
<1>3. Good(proc_destroy_child_(Emit(s, <<proc_cmd_fail_ev_(s.cmd)>>)))
  BY <1>1, <1>2, EmitType, DestroyGood, Zenon
<1>4. Good(proc_destroy_child_(Emit([s EXCEPT !.stop = FALSE], <<Event("none", TRUE, 0)>>)))
  BY <1>2, ClearGood, EmitType, DestroyGood, Zenon DEF Good
<1>5. ASSUME "IN" \in rev, ~(s.res = "ok" /\ s.cmd = "exit")
      PROVE  LET t == [s EXCEPT !.up = @ - 1, !.st = "avail", !.evs = Answer(s),
                                !.cmd = IF s.res = "ok" THEN "none" ELSE @]
             IN  Good(t) /\ Good(proc_send_cmd_(t, "exit").s)
  <2>. DEFINE t == [s EXCEPT !.up = @ - 1, !.st = "avail", !.evs = Answer(s),
                             !.cmd = IF s.res = "ok" THEN "none" ELSE @]
  <2>1. Good(t)
    BY <1>5, ReadGood, Zenon
  <2>2. "exit" \in Cmds \ {"none"}
    BY CmdsFacts
  <2>. HIDE DEF t
  <2>3. Good(proc_send_cmd_(t, "exit").s)
    BY <2>1, <2>2, SendGood
  <2>. QED
    BY <2>1, <2>3, SMTT(30) DEF t
<1>. QED
  BY <1>3, <1>4, <1>5 DEF proc_update_busy_

(* proc_update_dead_ keeps the invariant.                                  *)
LEMMA UpdateDeadGood ==
  ASSUME NEW s, Good(s)
  PROVE  Good(proc_update_dead_(s).s)
<1>1. s \in ProcState /\ [s EXCEPT !.stop = FALSE] \in ProcState
  BY ClearGood, Zenon DEF Good
<1>2. <<proc_cmd_fail_ev_("exit")>> \in Seq(Events)
  BY OneEventType, CmdsFacts, Zenon DEF proc_cmd_fail_ev_
<1>3. Emit([s EXCEPT !.stop = FALSE], <<proc_cmd_fail_ev_("exit")>>) \in ProcState
  BY <1>1, <1>2, EmitType, Zenon
<1>. QED
  BY <1>1, <1>3, DestroyGood DEF proc_update_dead_

(* So does proc_update_ of a worker that has no child.                     *)
LEMMA UpdateUninitGood ==
  ASSUME NEW s, Good(s)
  PROVE  Good(proc_update_uninit_(s).s)
<1>1. <<Event("exit", TRUE, 0)>> \in Seq(Events)
  BY OneEventType, CmdsFacts, Zenon
<1>2. Good(Emit([s EXCEPT !.stop = FALSE], <<Event("exit", TRUE, 0)>>))
  BY <1>1, ClearGood, EmitGood, Zenon
<1>. QED
  BY <1>2 DEF proc_update_uninit_

(* proc_update_ keeps the invariant: one case per state of the worker.     *)
LEMMA UpdateGood ==
  ASSUME NEW s, Good(s)
  PROVE  Good(proc_update_(s).s)
<1>. DEFINE t == [s EXCEPT !.evs = <<>>, !.polled = FALSE, !.revents = {}]
<1>0. <<>> \in Seq(Events)
  OBVIOUS
<1>1. t \in ProcState
  BY <1>0, Zenon DEF Good, ProcState
<1>2. Good(t)
  BY <1>1 DEF Good, Handshake, Honest, Answerable, InChild, ProcState
<1>3. t.revents = {} /\ t.up = s.up /\ ("IN" \in s.revents => t.up = 1)
  BY DEF Good, Handshake, ProcState
<1>. HIDE DEF t
<1>4. t.st = "init_pend" => Good(proc_update_init_pend_(t, s.revents).s)
  BY <1>2, <1>3, UpdateInitPendGood
<1>5. t.st = "busy" => Good(proc_update_busy_(t, s.revents).s)
  BY <1>2, <1>3, UpdateBusyGood
<1>6. Good(proc_update_avail_(t, s.revents).s)
  BY <1>2, UpdateAvailGood
<1>7. Good(proc_update_dead_(t).s) /\ Good(proc_update_uninit_(t).s)
  BY <1>2, UpdateDeadGood, UpdateUninitGood
<1>8. proc_update_(s) = CASE t.st = "init_pend" -> proc_update_init_pend_(t, s.revents)
                          [] t.st = "busy"      -> proc_update_busy_(t, s.revents)
                          [] t.st = "avail"     -> proc_update_avail_(t, s.revents)
                          [] t.st = "dead"      -> proc_update_dead_(t)
                          [] OTHER              -> proc_update_uninit_(t)
  BY DEF proc_update_, t
<1>. QED
  BY <1>4, <1>5, <1>6, <1>7, <1>8

(***************************************************************************)
(* The child's steps                                                       *)
(***************************************************************************)
(* What a command may leave in the shared page has its type, and a write   *)
(* that succeeds leaves the length it found there.                         *)
LEMMA OutcomeType ==
  ASSUME NEW s, Good(s), NEW o \in ChildOutcomes(s)
  PROVE  /\ o.res \in {"ok", "fail"} /\ o.file \in BOOLEAN /\ o.written \in Nat
         /\ s.cmd \in {"none", "exit"} => o.res = "ok"
         /\ s.cmd \in LenCmds /\ o.res = "ok" => o.written = s.wlen
<1>1. s.file \in BOOLEAN /\ s.written \in Nat /\ s.wlen \in Nat /\ s.cmd \in Cmds
  BY DEF Good, ProcState
<1>. DEFINE P(x) == /\ x.res \in {"ok", "fail"} /\ x.file \in BOOLEAN /\ x.written \in Nat
                    /\ s.cmd \in {"none", "exit"} => x.res = "ok"
                    /\ s.cmd \in LenCmds /\ x.res = "ok" => x.written = s.wlen
<1>2. ASSUME NEW open \in BOOLEAN, NEW n \in Nat
      PROVE  /\ s.cmd \notin {"none", "exit"} => P(Outcome(FALSE, open, n))
             /\ (s.cmd \in LenCmds => n = s.wlen) => P(Outcome(TRUE, open, n))
  BY DEF Outcome
<1>. HIDE DEF P
<1>3. ASSUME NEW open \in BOOLEAN, NEW x \in Wrote(s, open), s.cmd \notin {"none", "exit"}
      PROVE  P(x)
  <2>1. CASE x = Outcome(TRUE, open, s.wlen)
    BY <1>1, <1>2, <2>1, Zenon
  <2>2. CASE \E n \in 0..s.wlen : x = Outcome(FALSE, open, n)
    <3>1. PICK n \in 0..s.wlen : x = Outcome(FALSE, open, n)
      BY <2>2, Zenon
    <3>2. n \in Nat
      BY <1>1
    <3>. QED
      BY <1>2, <1>3, <3>1, <3>2, Zenon
  <2>. QED
    BY <2>1, <2>2, Zenon DEF Wrote
<1>4. P(o)
  <2>1. CASE s.cmd = "open"
    BY <1>1, <1>2, <2>1, Zenon DEF ChildOutcomes, proc_child_open_, LenCmds
  <2>2. CASE s.cmd = "close"
    BY <1>1, <1>2, <2>2, Zenon DEF ChildOutcomes, proc_child_close_, LenCmds
  <2>3. CASE s.cmd \in {"fsync", "readall"}
    BY <1>1, <1>2, <2>3, Zenon DEF ChildOutcomes, proc_child_fsync_, proc_child_readall_, LenCmds
  <2>4. CASE s.cmd = "write"
    <3>1. o \in Wrote(s, TRUE) \/ o = Outcome(FALSE, FALSE, s.written)
      BY <2>4, Zenon DEF ChildOutcomes, proc_child_write_
    <3>. QED
      BY <1>1, <1>2, <1>3, <2>4, <3>1, Zenon
  <2>5. CASE s.cmd = "mkdir"
    BY <1>1, <1>2, <2>5, Zenon DEF ChildOutcomes, proc_child_mkdir_, LenCmds
  <2>6. CASE s.cmd = "write_fsync_close"
    <3>1. o \in Wrote(s, s.file) \/ o = Outcome(FALSE, s.file, s.wlen)
      BY <2>6, Zenon DEF ChildOutcomes, proc_child_write_fsync_close_
    <3>. QED
      BY <1>1, <1>2, <1>3, <2>6, <3>1, Zenon
  <2>7. CASE s.cmd \in {"none", "exit"}
    BY <1>1, <1>2, <2>7, Zenon DEF ChildOutcomes, LenCmds
  <2>. QED
    BY <1>1, <2>1, <2>2, <2>3, <2>4, <2>5, <2>6, <2>7 DEF Cmds, UserCmds
<1>. QED
  BY <1>4 DEF P

(* Every step of the child keeps the invariant, its death at any point     *)
(* included.                                                               *)
LEMMA ChildStepsGood ==
  ASSUME NEW s, Good(s)
  PROVE  /\ s.pc = "start" => Good(child_start_(s))
         /\ s.pc = "wait" /\ s.down > 0 => Good(child_read_(s))
         /\ s.pc = "run" => \A o \in ChildOutcomes(s) : Good(child_run_(s, o))
         /\ s.pc = "done" => Good(child_idle_(s))
         /\ s.pc = "reply" => Good(child_reply_(s))
         /\ s.pc = "leave" => Good(child_leave_(s))
         /\ ChildAlive(s) => Good([s EXCEPT !.pc = "zombie"])
<1>. USE DEF InChild, Answerable, ProcState
<1>1. ASSUME s.pc = "start" PROVE Good(child_start_(s))
  <2>. DEFINE t == child_start_(s)
  <2>1. t \in ProcState
    BY <1>1, Zenon DEF Good, child_start_, ChildSt, Pcs
  <2>2. /\ t.pc = "wait" /\ t.cst = "idle"
        /\ t.st = s.st /\ t.down = s.down /\ t.up = s.up /\ t.cmd = s.cmd /\ t.res = s.res
        /\ t.ran = s.ran /\ t.quit = s.quit /\ t.wlen = s.wlen /\ t.asked = s.asked /\ t.written = s.written /\ t.revents = s.revents
    BY <1>1, Zenon DEF Good, Handshake, child_start_
  <2>. HIDE DEF t
  <2>3. Handshake(t)
    BY <1>1, <2>2 DEF Good, Handshake
  <2>4. Honest(t)
    BY <1>1, <2>2 DEF Good, Honest
  <2>5. Good(t)
    BY <2>1, <2>3, <2>4 DEF Good
  <2>. QED
    BY <2>5 DEF t
<1>2. ASSUME s.pc = "wait", s.down > 0 PROVE Good(child_read_(s))
  <2>1. s.down = 1 /\ s.up = 0
    BY <1>2 DEF Good, Handshake
  <2>. DEFINE t == [s EXCEPT !.pc = "run", !.down = 0, !.cst = "busy", !.res = "none"]
  <2>2. child_read_(s) = t
    BY <2>1 DEF child_read_
  <2>3. t \in ProcState
    BY Zenon DEF Good, ChildSt, Pcs, ResSt
  <2>4. Handshake(t)
    BY <1>2, <2>1 DEF Good, Handshake
  <2>5. Honest(t)
    BY <1>2, <2>1 DEF Good, Honest
  <2>. QED
    BY <2>2, <2>3, <2>4, <2>5 DEF Good
<1>3. ASSUME s.pc = "run", NEW o \in ChildOutcomes(s) PROVE Good(child_run_(s, o))
  <2>1. /\ o.res \in {"ok", "fail"} /\ o.file \in BOOLEAN /\ o.written \in Nat
        /\ s.cmd \in {"none", "exit"} => o.res = "ok"
        /\ s.cmd \in LenCmds /\ o.res = "ok" => o.written = s.wlen
    BY OutcomeType
  <2>2. s.st \in {"init_pend", "busy"}
    BY <1>3 DEF Good, Handshake, ProcSt
  <2>3. child_run_(s, o) \in ProcState
    BY <2>1, ZenonT(40) DEF Good, child_run_, Pcs, ResSt
  <2>. QED
    BY <1>3, <2>1, <2>2, <2>3 DEF Good, Handshake, Honest, child_run_, LenCmds
<1>4. ASSUME s.pc = "done" PROVE Good(child_idle_(s))
  <2>. DEFINE t == child_idle_(s)
  <2>1. t \in ProcState
    BY <1>4, Zenon DEF Good, child_idle_, ChildSt, Pcs
  <2>2. /\ t.pc = "reply" /\ t.cst = "idle"
        /\ t.st = s.st /\ t.down = s.down /\ t.up = s.up /\ t.cmd = s.cmd /\ t.res = s.res
        /\ t.ran = s.ran /\ t.quit = s.quit /\ t.wlen = s.wlen /\ t.asked = s.asked /\ t.written = s.written /\ t.revents = s.revents
    BY <1>4, Zenon DEF Good, Handshake, child_idle_
  <2>. HIDE DEF t
  <2>3. Handshake(t)
    BY <1>4, <2>2 DEF Good, Handshake
  <2>4. Honest(t)
    BY <1>4, <2>2 DEF Good, Honest
  <2>5. Good(t)
    BY <2>1, <2>3, <2>4 DEF Good
  <2>. QED
    BY <2>5 DEF t
<1>5. ASSUME s.pc = "reply" PROVE Good(child_reply_(s))
  <2>. DEFINE next == IF s.quit THEN "leave" ELSE "wait"
              t == [s EXCEPT !.pc = next, !.up = 1]
  <2>1. s.up = 0 /\ s.up + 1 = 1 /\ s.down = 0
    BY <1>5 DEF Good, Handshake
  <2>2. child_reply_(s) = t
    BY <2>1 DEF child_reply_
  <2>3. next \in Pcs /\ (s.quit => next = "leave") /\ (~s.quit => next = "wait")
    BY DEF Pcs
  <2>. HIDE DEF next
  <2>4. t \in ProcState
    BY <2>3, Zenon DEF Good
  <2>5. Handshake(t)
    BY <1>5, <2>1, <2>3 DEF Good, Handshake
  <2>6. Honest(t)
    BY <1>5, <2>1 DEF Good, Honest
  <2>. QED
    BY <2>2, <2>4, <2>5, <2>6 DEF Good
<1>6. ASSUME s.pc = "leave" PROVE Good(child_leave_(s))
  <2>. DEFINE t == child_leave_(s)
  <2>1. t \in ProcState
    BY <1>6, Zenon DEF Good, child_leave_, ChildSt, Pcs
  <2>2. /\ t.pc = "zombie" /\ t.cst = "not_started"
        /\ t.st = s.st /\ t.down = s.down /\ t.up = s.up /\ t.cmd = s.cmd /\ t.res = s.res
        /\ t.ran = s.ran /\ t.quit = s.quit /\ t.wlen = s.wlen /\ t.asked = s.asked /\ t.written = s.written /\ t.revents = s.revents
    BY <1>6, Zenon DEF Good, Handshake, child_leave_
  <2>. HIDE DEF t
  <2>3. Handshake(t)
    BY <1>6, <2>2 DEF Good, Handshake
  <2>4. Honest(t)
    BY <1>6, <2>2 DEF Good, Honest
  <2>5. Good(t)
    BY <2>1, <2>3, <2>4 DEF Good
  <2>. QED
    BY <2>5 DEF t
<1>7. ASSUME ChildAlive(s) PROVE Good([s EXCEPT !.pc = "zombie"])
  <2>. DEFINE t == [s EXCEPT !.pc = "zombie"]
  <2>1. t \in ProcState
    BY <1>7, Zenon DEF Good, ChildSt, Pcs
  <2>2. /\ t.pc = "zombie"
        /\ t.st = s.st /\ t.down = s.down /\ t.up = s.up /\ t.cmd = s.cmd /\ t.res = s.res
        /\ t.ran = s.ran /\ t.quit = s.quit /\ t.wlen = s.wlen /\ t.asked = s.asked /\ t.written = s.written /\ t.revents = s.revents /\ t.cst = s.cst
    BY <1>7, Zenon DEF Good, Handshake
  <2>. HIDE DEF t
  <2>3. Handshake(t)
    BY <1>7, <2>2 DEF Good, Handshake, ChildAlive
  <2>4. Honest(t)
    BY <1>7, <2>2 DEF Good, Honest
  <2>5. Good(t)
    BY <2>1, <2>3, <2>4 DEF Good
  <2>. QED
    BY <2>5 DEF t
<1>. QED
  BY <1>1, <1>2, <1>3, <1>4, <1>5, <1>6, <1>7

(***************************************************************************)
(* The invariant of the whole                                              *)
(***************************************************************************)

(* Replacing one worker's record by a good one keeps the invariant.        *)
LEMMA SetGood ==
  ASSUME IInv, NEW w \in Procs, NEW t, Good(t), Set(w, t)
  PROVE  IInv'
<1>1. proc' \in [Procs -> ProcState]
  BY DEF Set, IInv, TypeOK, Good
<1>2. \A v \in Procs : Good(proc'[v])
  BY DEF Set, IInv, TypeOK
<1>. QED
  BY <1>1, <1>2 DEF IInv, TypeOK

(* The invariant is inductive: one case per action.                        *)
LEMMA StepInv == IInv /\ [Next]_vars => IInv'
<1>. SUFFICES ASSUME IInv, [Next]_vars PROVE IInv'
  OBVIOUS
<1>1. CASE UNCHANGED vars
  BY <1>1 DEF vars, IInv, TypeOK
<1>2. ASSUME NEW w \in Procs, Parent(w) PROVE IInv'
  <2>. DEFINE s == proc[w]
  <2>1. Good(s)
    BY DEF IInv
  <2>2. CASE ProcInit(w)
    BY <2>1, <2>2, ProcInitGood, SetGood DEF ProcInit
  <2>3. CASE \E c \in UserCmds, len \in Lens \cup {proc[w].wlen} : Call(w, c, len)
    <3>1. PICK c \in UserCmds, len \in Lens \cup {proc[w].wlen} : Call(w, c, len)
      BY <2>3
    <3>2. len \in Nat
      BY <2>1, LensAssumption DEF Good, ProcState
    <3>3. Good(proc_send_cmd_([s EXCEPT !.wlen = len], c).s)
      BY <2>1, <3>1, <3>2, CallGood DEF Call
    <3>. QED
      BY <3>1, <3>3, SetGood DEF Call
  <2>4. CASE ProcStopPrep(w)
    BY <2>1, <2>4, StopPrepGood, SetGood DEF ProcStopPrep
  <2>5. CASE Poll(w)
    BY <2>1, <2>5, PollGood, SetGood, Zenon DEF Poll
  <2>6. CASE ProcUpdate(w)
    BY <2>1, <2>6, UpdateGood, SetGood DEF ProcUpdate
  <2>. QED
    BY <1>2, <2>2, <2>3, <2>4, <2>5, <2>6 DEF Parent
<1>3. ASSUME NEW w \in Procs, Child(w) \/ ChildDie(w) PROVE IInv'
  <2>. DEFINE s == proc[w]
  <2>1. Good(s)
    BY DEF IInv
  <2>2. CASE ChildStart(w)
    BY <2>1, <2>2, ChildStepsGood, SetGood, Zenon DEF ChildStart
  <2>3. CASE ChildRead(w)
    BY <2>1, <2>3, ChildStepsGood, SetGood, Zenon DEF ChildRead
  <2>4. CASE ChildRun(w)
    BY <2>1, <2>4, ChildStepsGood, SetGood, Zenon DEF ChildRun
  <2>5. CASE ChildIdle(w)
    BY <2>1, <2>5, ChildStepsGood, SetGood, Zenon DEF ChildIdle
  <2>6. CASE ChildReply(w)
    BY <2>1, <2>6, ChildStepsGood, SetGood, Zenon DEF ChildReply
  <2>7. CASE ChildLeave(w)
    BY <2>1, <2>7, ChildStepsGood, SetGood, Zenon DEF ChildLeave
  <2>8. CASE ChildDie(w)
    BY <2>1, <2>8, ChildStepsGood, SetGood DEF ChildDie
  <2>. QED
    BY <1>3, <2>2, <2>3, <2>4, <2>5, <2>6, <2>7, <2>8 DEF Child
<1>. QED
  BY <1>1, <1>2, <1>3 DEF Next

(* The invariant holds initially.                                          *)
LEMMA InitInv == Init => IInv
<1>1. Good(Blank)
  BY BlankType DEF Good, Handshake, Honest, Answerable, InChild, Blank, LenCmds
<1>. QED
  BY <1>1, BlankType DEF Init, IInv, TypeOK

(* IInv holds in every reachable state.                                    *)
THEOREM Invariance == Spec => []IInv
BY InitInv, StepInv, PTL DEF Spec

(* Every worker, with its child and the page and the socket they share,    *)
(* always has its type.                                                    *)
THEOREM TypeCorrect == Spec => []TypeOK
<1>1. IInv => TypeOK
  BY DEF IInv
<1>. QED
  BY <1>1, Invariance, PTL

(* Parent and child never both own the shared page: at most one byte is in *)
(* flight, and none while the child works on a command.                    *)
THEOREM BatonSafe == Spec => []OneBaton
<1>1. ASSUME NEW s, Good(s)
      PROVE  /\ s.down + s.up <= 1
             /\ InChild(s) => s.down = 0 /\ s.up = 0
             /\ s.st = "avail" => s.down = 0 /\ s.up = 0 /\ ~InChild(s) /\ s.cst = "idle"
  <2>1. s.down + s.up <= 1
    BY <1>1 DEF Good, Handshake
  <2>. QED
    BY <1>1, <2>1 DEF Good, Handshake, InChild
<1>2. IInv => OneBaton
  BY <1>1, Zenon DEF IInv, OneBaton
<1>. QED
  BY <1>2, Invariance, PTL

(* An answer that proc_update_busy_ reads is the result of the command it  *)
(* waits for.                                                              *)
THEOREM AnswersMatch == Spec => []AnswerIsForCmd
<1>1. IInv => AnswerIsForCmd
  BY DEF IInv, Good, Handshake, Answerable, AnswerIsForCmd, ProcState
<1>. QED
  BY <1>1, Invariance, PTL

(***************************************************************************)
(* What one step does to the record of the worker that takes it            *)
(***************************************************************************)
ChildStep(s, t) == t.st = s.st /\ t.cmd = s.cmd /\ t.evs = s.evs /\ t.polled = s.polled

CallStep(s, t) ==
  \E c \in UserCmds, len \in Nat : t = proc_send_cmd_([s EXCEPT !.wlen = len], c).s

PollStep(s, t) == t = [s EXCEPT !.polled = TRUE, !.revents = Ready(s)]

RecordStep(s, t) ==
  \/ s.st = "uninit" /\ \E o \in proc_init_(s) : t = o.s
  \/ CallStep(s, t)
  \/ t = proc_stop_prep_(s).s
  \/ PollStep(s, t)
  \/ t = proc_update_(s).s
  \/ ChildStep(s, t)

(* Every step changes one record, by one of the operators.                 *)
LEMMA StepIsLocal ==
  ASSUME IInv, Next
  PROVE  \E w \in Procs : \E t : Set(w, t) /\ RecordStep(proc[w], t)
<1>1. PICK w \in Procs : Parent(w) \/ Child(w) \/ ChildDie(w)
  BY DEF Next
<1>. DEFINE s == proc[w]
<1>2. Good(s) /\ s \in ProcState
  BY DEF IInv, Good
<1>. SUFFICES \E t : Set(w, t) /\ RecordStep(s, t)
  OBVIOUS
<1>3. CASE ProcInit(w)
  BY <1>3 DEF ProcInit, RecordStep
<1>4. CASE \E c \in UserCmds, len \in Lens \cup {proc[w].wlen} : Call(w, c, len)
  <2>1. PICK c \in UserCmds, len \in Lens \cup {proc[w].wlen} : Call(w, c, len)
    BY <1>4
  <2>2. len \in Nat
    BY <1>2, LensAssumption DEF ProcState
  <2>. QED
    BY <2>1, <2>2 DEF Call, RecordStep, CallStep
<1>5. CASE ProcStopPrep(w)
  BY <1>5 DEF ProcStopPrep, RecordStep
<1>6. CASE Poll(w)
  BY <1>6 DEF Poll, RecordStep, PollStep
<1>7. CASE ProcUpdate(w)
  BY <1>7 DEF ProcUpdate, RecordStep
<1>8. CASE Child(w) \/ ChildDie(w)
  <2>1. /\ ChildStep(s, child_start_(s)) /\ ChildStep(s, child_read_(s))
        /\ ChildStep(s, child_idle_(s)) /\ ChildStep(s, child_reply_(s))
        /\ ChildStep(s, child_leave_(s)) /\ ChildStep(s, [s EXCEPT !.pc = "zombie"])
    BY <1>2 DEF ChildStep, child_start_, child_read_, child_idle_, child_reply_, child_leave_, ProcState
  <2>2. \A o : ChildStep(s, child_run_(s, o))
    BY <1>2 DEF ChildStep, child_run_, ProcState
  <2>3. \E t : Set(w, t) /\ ChildStep(s, t)
    BY <1>8, <2>1, <2>2 DEF Child, ChildStart, ChildRead, ChildRun, ChildIdle, ChildReply,
                            ChildLeave, ChildDie
  <2>. QED
    BY <2>3 DEF RecordStep
<1>. QED
  BY <1>1, <1>3, <1>4, <1>5, <1>6, <1>7, <1>8 DEF Parent

(* A send, from a free worker, makes it busy or dead and keeps the events; *)
(* from any other it changes nothing.                                      *)
LEMMA SendEffect ==
  ASSUME NEW s \in ProcState, NEW c
  PROVE  LET t == proc_send_cmd_(s, c).s IN
           /\ t.evs = s.evs /\ t.polled = s.polled
           /\ \/ t = s
              \/ s.st = "avail" /\ t.st = "busy" /\ t.cmd = c
              \/ s.st = "avail" /\ t.st = "dead"
BY DEF proc_send_cmd_, proc_notify_child_, ProcState

(* The child is told only when it is free, and the answer is taken only    *)
(* after it is given.                                                      *)
THEOREM CmdNotRewritten == Spec => CmdStable
<1>. DEFINE Held(s, t) == (s.down > 0 \/ InChild(s)) /\ s.pc # "zombie" /\ t.st # "uninit" => t.cmd = s.cmd
<1>1. ASSUME NEW s, NEW t, Good(s), RecordStep(s, t)
      PROVE  Held(s, t)
  <2>. SUFFICES ASSUME s.down > 0 \/ InChild(s), s.pc # "zombie", t.st # "uninit"
                PROVE  t.cmd = s.cmd
    OBVIOUS
  <2>1. s \in ProcState /\ s.st # "avail" /\ s.st # "uninit" /\ s.up # 1 /\ "IN" \notin s.revents
    BY <1>1 DEF Good, Handshake, InChild
  <2>2. CASE CallStep(s, t)
    <3>1. PICK c \in UserCmds, len \in Nat : t = proc_send_cmd_([s EXCEPT !.wlen = len], c).s
      BY <2>2 DEF CallStep
    <3>2. [s EXCEPT !.wlen = len].st # "avail"
      BY <2>1 DEF ProcState
    <3>3. t = [s EXCEPT !.wlen = len]
      BY <3>1, <3>2 DEF proc_send_cmd_
    <3>. QED
      BY <2>1, <3>3 DEF ProcState
  <2>3. CASE t = proc_stop_prep_(s).s
    BY <2>1, <2>3 DEF proc_stop_prep_, ProcState
  <2>4. CASE PollStep(s, t)
    BY <2>1, <2>4 DEF PollStep, ProcState
  <2>5. CASE t = proc_update_(s).s
    <3>. DEFINE r == [s EXCEPT !.evs = <<>>, !.polled = FALSE, !.revents = {}]
    <3>1. r.st = s.st /\ r.cmd = s.cmd
      BY <2>1 DEF ProcState
    <3>2. \A x : proc_destroy_child_(x).st = "uninit"
      BY DEF proc_destroy_child_, Blank
    <3>3. \A x, es : Emit(proc_destroy_child_(x), es).st = "uninit"
      BY DEF proc_destroy_child_, Blank, Emit
    <3>4. CASE s.st = "init_pend"
      BY <2>1, <2>5, <3>1, <3>3, <3>4 DEF proc_update_, proc_update_init_pend_
    <3>5. CASE s.st = "busy"
      BY <2>1, <2>5, <3>1, <3>2, <3>5 DEF proc_update_, proc_update_busy_
    <3>6. CASE s.st = "dead"
      BY <2>1, <2>5, <3>1, <3>2, <3>6 DEF proc_update_, proc_update_dead_
    <3>. QED
      BY <2>1, <3>4, <3>5, <3>6 DEF ProcState, ProcSt
  <2>6. CASE ChildStep(s, t)
    BY <2>6 DEF ChildStep
  <2>. QED
    BY <1>1, <2>1, <2>2, <2>3, <2>4, <2>5, <2>6 DEF RecordStep
<1>2. ASSUME IInv, Next PROVE \A w \in Procs : CmdKept(w)
  <2>1. PICK w \in Procs : \E t : Set(w, t) /\ RecordStep(proc[w], t)
    BY <1>2, StepIsLocal
  <2>2. PICK t : Set(w, t) /\ RecordStep(proc[w], t)
    BY <2>1
  <2>3. proc'[w] = t /\ \A v \in Procs \ {w} : proc'[v] = proc[v]
    BY <1>2, <2>2 DEF Set, IInv, TypeOK
  <2>4. Held(proc[w], t)
    BY <1>1, <1>2, <2>2 DEF IInv
  <2>. QED
    BY <2>3, <2>4 DEF CmdKept
<1>3. IInv /\ [Next]_vars => [\A w \in Procs : CmdKept(w)]_vars
  BY <1>2
<1>. QED
  BY <1>3, Invariance, PTL DEF Spec, CmdStable

(***************************************************************************)
(* Everything proc_update_ can do: the states it goes between and the      *)
(* events it leaves.                                                       *)
(***************************************************************************)
Goes(s, t, from, to) == s.st = from /\ t.st = to

UpdateStep(s, t) ==
  \/ t.st = s.st /\ t.cmd = s.cmd /\ t.evs = <<>>
  \/ Goes(s, t, "init_pend", "avail") /\ t.evs = <<Event("none", TRUE, 0)>>
  \/ Goes(s, t, "init_pend", "uninit") /\ t.evs = <<Event("none", FALSE, 0)>>
  \/ Goes(s, t, "init_pend", "uninit") /\ t.evs = <<Event("none", FALSE, 0), Event("exit", TRUE, 0)>>
  \/ Goes(s, t, "avail", "uninit") /\ t.evs = <<>>
  \/ Goes(s, t, "busy", "uninit") /\ t.evs = <<Event(s.cmd, FALSE, 0)>>
  \/ Goes(s, t, "busy", "uninit") /\ t.evs = <<Event("none", TRUE, 0)>> /\ s.cmd = "exit"
  \/ /\ s.st = "busy" /\ s.up = 1 /\ s.cmd # "exit" /\ t.evs = Answer(s)
     /\ t.st \in {"avail", "dead"} \/ (t.st = "busy" /\ t.cmd = "exit")
  \/ Goes(s, t, "dead", "uninit") /\ t.evs = <<>>
  \/ Goes(s, t, "dead", "uninit") /\ t.evs = <<Event("exit", FALSE, 0)>>
  \/ Goes(s, t, "uninit", "uninit") /\ t.evs = <<Event("exit", TRUE, 0)>>

(* All that proc_update_ can do to a worker: its change of state and the   *)
(* events it reports.                                                      *)
LEMMA UpdateCases ==
  ASSUME NEW s, Good(s)
  PROVE  UpdateStep(s, proc_update_(s).s)
<1>. DEFINE r == [s EXCEPT !.evs = <<>>, !.polled = FALSE, !.revents = {}]
            t == proc_update_(s).s
<1>1. s \in ProcState /\ r.st = s.st /\ r.cmd = s.cmd /\ r.evs = <<>> /\ r.stop = s.stop
      /\ r.res = s.res /\ r.written = s.written /\ r.up = s.up
  BY DEF Good, ProcState
<1>2. r \in ProcState
  <2>1. <<>> \in Seq(Events)
    OBVIOUS
  <2>. QED
    BY <1>1, <2>1, Zenon DEF ProcState
<1>3. \A x : proc_destroy_child_(x).st = "uninit" /\ proc_destroy_child_(x).evs = x.evs
  BY DEF proc_destroy_child_, Blank
<1>4. \A x, es : /\ Emit(proc_destroy_child_(x), es).st = "uninit"
                 /\ Emit(proc_destroy_child_(x), es).evs = es
  BY DEF proc_destroy_child_, Blank, Emit
<1>5. \A es : Emit(r, es).evs = es /\ Emit([r EXCEPT !.stop = FALSE], es).evs = es
             /\ Emit([r EXCEPT !.stop = FALSE], es).st = r.st
  BY <1>2 DEF Emit, ProcState
<1>. HIDE DEF r
<1>6. /\ s.st = "init_pend" => t = proc_update_init_pend_(r, s.revents).s
      /\ s.st = "avail"     => t = proc_update_avail_(r, s.revents).s
      /\ s.st = "busy"      => t = proc_update_busy_(r, s.revents).s
      /\ s.st = "dead"      => t = proc_update_dead_(r).s
      /\ s.st = "uninit"    => t = proc_update_uninit_(r).s
  BY <1>1 DEF proc_update_, r
<1>. SUFFICES UpdateStep(s, t)
  OBVIOUS
<1>. HIDE DEF t
<1>7. CASE s.st = "init_pend"
  <2>1. \A es : Emit([r EXCEPT !.up = @ - 1, !.st = "avail"], es).st = "avail"
              /\ Emit([r EXCEPT !.up = @ - 1, !.st = "avail"], es).evs = es
    BY <1>2 DEF Emit, ProcState
  <2>2. \/ t = r
        \/ t.st = "avail" /\ t.evs = <<Event("none", TRUE, 0)>>
        \/ t.st = "uninit" /\ t.evs = <<Event("none", FALSE, 0)>>
        \/ t.st = "uninit" /\ t.evs = <<Event("none", FALSE, 0), Event("exit", TRUE, 0)>>
    <3>. DEFINE none == <<Event("none", FALSE, 0)>>
                both == <<Event("none", FALSE, 0), Event("exit", TRUE, 0)>>
                up   == <<Event("none", TRUE, 0)>>
    <3>1. t \in {r, Emit(proc_destroy_child_(r), none),
                 Emit(proc_destroy_child_([r EXCEPT !.stop = FALSE]), both),
                 Emit([r EXCEPT !.up = @ - 1, !.st = "avail"], up)}
      BY <1>6, <1>7 DEF proc_update_init_pend_
    <3>. HIDE DEF none, both, up
    <3>2. \/ t = r
          \/ t.st = "avail" /\ t.evs = up
          \/ t.st = "uninit" /\ t.evs = none
          \/ t.st = "uninit" /\ t.evs = both
      BY <1>4, <2>1, <3>1
    <3>. QED
      BY <3>2, Zenon DEF none, both, up
  <2>. QED
    BY <1>1, <1>7, <2>2, Zenon DEF UpdateStep, Goes
<1>8. CASE s.st = "avail"
  <2>1. t = r \/ (t.st = "uninit" /\ t.evs = <<>>)
    BY <1>1, <1>3, <1>6, <1>8 DEF proc_update_avail_
  <2>. QED
    BY <1>1, <1>8, <2>1 DEF UpdateStep, Goes
<1>9. CASE s.st = "dead"
  <2>1. t.st = "uninit" /\ (t.evs = <<>> \/ t.evs = <<Event("exit", FALSE, 0)>>)
    <3>. DEFINE fail == <<Event("exit", FALSE, 0)>>
    <3>1. t \in {proc_destroy_child_(r), proc_destroy_child_(Emit([r EXCEPT !.stop = FALSE], fail))}
      BY <1>6, <1>9 DEF proc_update_dead_, proc_cmd_fail_ev_
    <3>. HIDE DEF fail
    <3>2. t.st = "uninit" /\ (t.evs = <<>> \/ t.evs = fail)
      BY <1>1, <1>3, <1>5, <3>1
    <3>. QED
      BY <3>2, Zenon DEF fail
  <2>. QED
    BY <1>9, <2>1, Zenon DEF UpdateStep, Goes
<1>10. CASE s.st = "uninit"
  <2>1. t = r \/ (t.st = "uninit" /\ t.evs = <<Event("exit", TRUE, 0)>>)
    BY <1>1, <1>5, <1>6, <1>10, ZenonT(40) DEF proc_update_uninit_
  <2>. QED
    BY <1>1, <1>10, <2>1, Zenon DEF UpdateStep, Goes
<1>11. CASE s.st = "busy"
  <2>2. CASE "HUP" \in s.revents
    <3>1. t.st = "uninit" /\ t.evs = <<Event(s.cmd, FALSE, 0)>>
      <4>. DEFINE fail == <<Event(s.cmd, FALSE, 0)>>
      <4>1. t = proc_destroy_child_(Emit(r, fail))
        BY <1>1, <1>6, <1>11, <2>2 DEF proc_update_busy_, proc_cmd_fail_ev_
      <4>. HIDE DEF fail
      <4>2. t.st = "uninit" /\ t.evs = fail
        BY <1>3, <1>5, <4>1
      <4>. QED
        BY <4>2 DEF fail
    <3>. QED
      BY <1>11, <3>1 DEF UpdateStep, Goes
  <2>3. CASE "HUP" \notin s.revents /\ "IN" \notin s.revents
    <3>1. t = r
      BY <1>6, <1>11, <2>3 DEF proc_update_busy_
    <3>. QED
      BY <1>1, <3>1, Zenon DEF UpdateStep
  <2>4. CASE "HUP" \notin s.revents /\ "IN" \in s.revents /\ s.res = "ok" /\ s.cmd = "exit"
    <3>1. t.st = "uninit" /\ t.evs = <<Event("none", TRUE, 0)>>
      <4>. DEFINE up == <<Event("none", TRUE, 0)>>
      <4>1. t = proc_destroy_child_(Emit([r EXCEPT !.stop = FALSE], up))
        BY <1>1, <1>6, <1>11, <2>4 DEF proc_update_busy_
      <4>. HIDE DEF up
      <4>2. t.st = "uninit" /\ t.evs = up
        BY <1>3, <1>5, <4>1, Zenon
      <4>. QED
        BY <4>2 DEF up
    <3>. QED
      BY <1>11, <2>4, <3>1 DEF UpdateStep, Goes
  <2>5. CASE "HUP" \notin s.revents /\ "IN" \in s.revents /\ ~(s.res = "ok" /\ s.cmd = "exit")
    <3>1. s.up = 1 /\ s.cmd # "exit"
      BY <2>5 DEF Good, Handshake, Answerable
    <3>. DEFINE c == IF s.res = "ok" THEN "none" ELSE s.cmd
                q == [r EXCEPT !.up = 0, !.st = "avail", !.evs = Answer(r), !.cmd = c]
    <3>2. Answer(r) = Answer(s)
      BY <1>1 DEF Answer, proc_cmd_fail_ev_
    <3>3. c \in Cmds /\ Answer(r) \in Seq(Events)
      BY <1>1, <1>2, AnswerType, CmdsFacts DEF ProcState
    <3>. HIDE DEF Answer
    <3>4. q \in ProcState /\ q.st = "avail" /\ q.evs = Answer(s)
      BY <1>2, <3>2, <3>3, Zenon DEF ProcState, ProcSt
    <3>5. [r EXCEPT !.up = @ - 1, !.st = "avail", !.evs = Answer(r),
                    !.cmd = IF r.res = "ok" THEN "none" ELSE @] = q
      BY <1>1, <1>2, <3>1 DEF ProcState
    <3>6. t \in {q, proc_send_cmd_(q, "exit").s}
      BY <1>1, <1>6, <1>11, <2>5, <3>5 DEF proc_update_busy_
    <3>. HIDE DEF q
    <3>7. t.evs = Answer(s) /\ (t.st \in {"avail", "dead"} \/ (t.st = "busy" /\ t.cmd = "exit"))
      <4>1. \/ t = q \/ (t.st = "busy" /\ t.cmd = "exit") \/ t.st = "dead"
        BY <3>4, <3>6, SendEffect
      <4>2. t.evs = q.evs
        BY <3>4, <3>6, SendEffect
      <4>. QED
        BY <3>4, <4>1, <4>2
    <3>. QED
      BY <1>11, <3>1, <3>7, Zenon DEF UpdateStep
  <2>. QED
    BY <2>2, <2>3, <2>4, <2>5
<1>. QED
  BY <1>1, <1>7, <1>8, <1>9, <1>10, <1>11 DEF ProcState, ProcSt

(* proc_init_ leaves no events and a worker that is off, starting or dead. *)
LEMMA InitEffect ==
  ASSUME NEW s \in ProcState, NEW o \in proc_init_(s)
  PROVE  o.s.evs = <<>> /\ o.s.st \in {s.st, "init_pend", "dead"}
<1>1. CASE o.s = [s EXCEPT !.stop = FALSE, !.evs = <<>>]
  BY <1>1 DEF ProcState
<1>2. CASE \E pc \in {"start", "zombie"} : o.s = Forked(pc).s
  BY <1>2 DEF Forked, proc_notify_child_, ChildAlive, Blank
<1>. QED
  BY <1>1, <1>2 DEF proc_init_

(* A call or a stop request keeps the events and the poll results.         *)
LEMMA CallsKeepEvents ==
  ASSUME NEW s \in ProcState, NEW t, CallStep(s, t) \/ t = proc_stop_prep_(s).s
  PROVE  t.evs = s.evs /\ t.polled = s.polled
<1>1. CASE CallStep(s, t)
  <2>1. PICK c \in UserCmds, len \in Nat : t = proc_send_cmd_([s EXCEPT !.wlen = len], c).s
    BY <1>1 DEF CallStep
  <2>. DEFINE r == [s EXCEPT !.wlen = len]
  <2>2. r \in ProcState /\ r.evs = s.evs /\ r.polled = s.polled
    BY DEF ProcState
  <2>. HIDE DEF r
  <2>3. proc_send_cmd_(r, c).s.evs = r.evs /\ proc_send_cmd_(r, c).s.polled = r.polled
    BY <2>2, SendEffect
  <2>4. t = proc_send_cmd_(r, c).s
    BY <2>1 DEF r
  <2>. QED
    BY <2>2, <2>3, <2>4
<1>2. CASE t = proc_stop_prep_(s).s
  <2>. DEFINE r == [s EXCEPT !.stop = TRUE]
  <2>1. r \in ProcState /\ r.evs = s.evs /\ r.polled = s.polled
    BY Zenon DEF ProcState
  <2>2. t \in {s, r, proc_send_cmd_(r, "exit").s}
    BY <1>2 DEF proc_stop_prep_
  <2>. HIDE DEF r
  <2>3. proc_send_cmd_(r, "exit").s.evs = r.evs /\ proc_send_cmd_(r, "exit").s.polled = r.polled
    BY <2>1, SendEffect
  <2>. QED
    BY <2>1, <2>2, <2>3
<1>. QED
  BY <1>1, <1>2

(* When callers wait for the event of one command before they give the     *)
(* next, a successful write reports the length it was asked for.           *)
THEOREM LengthReported ==
  ASSUME ClientWaits
  PROVE  Spec => WriteLenAsRequested
<1>. DEFINE Kept(s, t) == s.polled /\ ~t.polled =>
              \A i \in DOMAIN t.evs : t.evs[i].ok /\ t.evs[i].cmd \in LenCmds => t.evs[i].len = s.asked
<1>1. ASSUME NEW s, NEW t, Good(s), RecordStep(s, t)
      PROVE  Kept(s, t)
  <2>0. s \in ProcState
    BY <1>1 DEF Good
  <2>1. CASE \E o \in proc_init_(s) : t = o.s
    <3>1. t.evs = <<>>
      BY <2>0, <2>1, InitEffect
    <3>. QED
      BY <3>1
  <2>2. CASE CallStep(s, t) \/ t = proc_stop_prep_(s).s
    BY <2>0, <2>2, CallsKeepEvents
  <2>3. CASE PollStep(s, t)
    <3>1. t.polled = TRUE
      BY <2>0, <2>3 DEF PollStep, ProcState
    <3>. QED
      BY <3>1
  <2>4. CASE t = proc_update_(s).s
    <3>1. UpdateStep(s, t)
      BY <1>1, <2>4, UpdateCases
    <3>2. "none" \notin LenCmds /\ "exit" \notin LenCmds
      BY DEF LenCmds
    <3>3. CASE s.st = "busy" /\ s.up = 1 /\ t.evs = Answer(s)
      <4>1. s.cmd \in LenCmds /\ s.res = "ok" => s.written = s.asked
        BY <1>1, <3>3 DEF Good, Honest
      <4>. QED
        BY <3>2, <3>3, <4>1 DEF Answer, Event, proc_cmd_fail_ev_
    <3>4. CASE t.evs = <<>>
      BY <3>4
    <3>5. CASE \E c, good, n : t.evs = <<Event(c, good, n)>> /\ (good = FALSE \/ c \notin LenCmds)
      BY <3>5 DEF Event
    <3>6. CASE t.evs = <<Event("none", FALSE, 0), Event("exit", TRUE, 0)>>
      BY <3>2, <3>6 DEF Event
    <3>. QED
      BY <3>1, <3>2, <3>3, <3>4, <3>5, <3>6, Zenon DEF UpdateStep, Goes
  <2>5. CASE ChildStep(s, t)
    BY <2>5 DEF ChildStep
  <2>. QED
    BY <1>1, <2>1, <2>2, <2>3, <2>4, <2>5 DEF RecordStep
<1>2. ASSUME IInv, Next PROVE \A w \in Procs : LenKept(w)
  <2>1. PICK w \in Procs : \E t : Set(w, t) /\ RecordStep(proc[w], t)
    BY <1>2, StepIsLocal
  <2>2. PICK t : Set(w, t) /\ RecordStep(proc[w], t)
    BY <2>1
  <2>3. proc'[w] = t /\ \A v \in Procs \ {w} : proc'[v] = proc[v]
    BY <1>2, <2>2 DEF Set, IInv, TypeOK
  <2>4. Kept(proc[w], t)
    BY <1>1, <1>2, <2>2 DEF IInv
  <2>. QED
    BY <2>3, <2>4 DEF LenKept, Updated
<1>3. IInv /\ [Next]_vars => [\A w \in Procs : LenKept(w)]_vars
  BY <1>2
<1>. QED
  BY <1>3, Invariance, PTL DEF Spec, WriteLenAsRequested
----------------------------------------------------------------------------
(***************************************************************************)
(* The handshake of AfsProc implements the promise of AfsRequest, for any  *)
(* set of workers: every step of a worker is a step of the promise, or     *)
(* changes nothing that the promise speaks of.                             *)
(***************************************************************************)
phase == [v \in Procs |-> Phase(proc[v])]
out   == [v \in Procs |-> proc[v].evs]

(* The abstract step that replacing one worker's record amounts to.        *)
LEMMA Mapped ==
  ASSUME TypeOK, NEW w \in Procs, NEW t, Set(w, t)
  PROVE  /\ Request!Go(w, Phase(proc[w]), Phase(t))
         /\ Request!Say(w, proc'[w].evs)
         /\ proc'[w] = t
         /\ t.evs = proc[w].evs => out' = out
         /\ Phase(t) = Phase(proc[w]) => phase' = phase
<1>1. proc' = [proc EXCEPT ![w] = t] /\ proc \in [Procs -> ProcState]
  BY DEF Set, TypeOK
<1>2. phase' = [phase EXCEPT ![w] = Phase(t)]
  BY <1>1, Zenon DEF phase, Phase
<1>3. out' = [out EXCEPT ![w] = t.evs]
  BY <1>1, Zenon DEF out
<1>4. Request!Go(w, Phase(proc[w]), Phase(t))
  BY <1>2 DEF phase, Request!Go
<1>5. Request!Say(w, proc'[w].evs) /\ proc'[w] = t
  BY <1>1, <1>3 DEF out, Request!Say
<1>. QED
  BY <1>2, <1>3, <1>4, <1>5, Zenon DEF phase, out

(* Each thing an update can do is one action of the promise.               *)
LEMMA UpdateMapped ==
  ASSUME TypeOK, NEW w \in Procs, NEW t, Set(w, t), Good(proc[w]), UpdateStep(proc[w], t)
  PROVE  Request!Next
<1>. DEFINE s == proc[w]
<1>. DEFINE e == proc'[w].evs
<1>1. Request!Go(w, Phase(s), Phase(t)) /\ Request!Say(w, e) /\ e = t.evs
  BY Mapped, SMTT(30)
<1>2. s.cmd \in Cmds /\ (s.st = "busy" => s.cmd # "none")
  BY DEF Good, Handshake, ProcState
<1>3. ASSUME NEW c, NEW good, NEW n, t.evs = <<Event(c, good, n)>>
      PROVE  Len(e) = 1 /\ e[1].cmd = c /\ e[1].ok = good /\ e # <<>>
  BY <1>1, <1>3 DEF Event
<1>4. /\ Phase(s) = CASE s.st = "uninit" -> "off" [] s.st = "init_pend" -> "starting"
                      [] s.st = "avail" -> "ready" [] s.st = "dead" -> "broken" [] OTHER -> s.cmd
      /\ Phase(t) = CASE t.st = "uninit" -> "off" [] t.st = "init_pend" -> "starting"
                      [] t.st = "avail" -> "ready" [] t.st = "dead" -> "broken" [] OTHER -> t.cmd
  BY DEF Phase
<1>5. CASE t.st = s.st /\ t.cmd = s.cmd /\ t.evs = <<>>
  <2>1. Phase(t) = Phase(s)
    BY <1>5 DEF Phase
  <2>2. Request!Quiet(w)
    BY <1>1, <1>5, <2>1 DEF Request!Quiet, Request!Go, Request!Say
  <2>. QED
    BY <2>2 DEF Request!Next
<1>6. CASE Goes(s, t, "init_pend", "avail") /\ t.evs = <<Event("none", TRUE, 0)>>
  <2>1. Phase(s) = "starting" /\ Phase(t) = "ready"
    BY <1>4, <1>6 DEF Goes
  <2>2. Len(e) = 1 /\ e[1].cmd = "none" /\ e[1].ok = TRUE
    BY <1>3, <1>6, Zenon
  <2>3. Request!Started(w)
    BY <1>1, <2>1, <2>2, Zenon DEF Request!Started, Request!Is, Request!Say
  <2>. QED
    BY <2>3 DEF Request!Next
<1>7. CASE Goes(s, t, "init_pend", "uninit") /\ t.evs = <<Event("none", FALSE, 0)>>
  <2>1. Phase(s) = "starting" /\ Phase(t) = "off"
    BY <1>4, <1>7 DEF Goes
  <2>0. Len(e) = 1 /\ e # <<>> /\ e[1].cmd = "none" /\ e[1].ok = FALSE
    BY <1>3, <1>7, Zenon
  <2>2. /\ e # <<>> /\ e[1].cmd = "none" /\ e[1].ok = FALSE
        /\ Len(e) \in 1..2 /\ (Len(e) = 2 => e[2].cmd = "exit" /\ e[2].ok = TRUE)
    BY <2>0
  <2>3. Request!StartFailed(w)
    BY <1>1, <2>1, <2>2, Zenon DEF Request!StartFailed, Request!InitFailed, Request!Is, Request!Say
  <2>. QED
    BY <2>3 DEF Request!Next
<1>8. CASE /\ Goes(s, t, "init_pend", "uninit")
           /\ t.evs = <<Event("none", FALSE, 0), Event("exit", TRUE, 0)>>
  <2>1. Phase(s) = "starting" /\ Phase(t) = "off"
    BY <1>4, <1>8 DEF Goes
  <2>0. /\ Len(e) = 2 /\ e # <<>> /\ e[1].cmd = "none" /\ e[1].ok = FALSE
        /\ e[2].cmd = "exit" /\ e[2].ok = TRUE
    BY <1>1, <1>8 DEF Event
  <2>2. /\ e # <<>> /\ e[1].cmd = "none" /\ e[1].ok = FALSE
        /\ Len(e) \in 1..2 /\ (Len(e) = 2 => e[2].cmd = "exit" /\ e[2].ok = TRUE)
    BY <2>0
  <2>3. Request!StartFailed(w)
    BY <1>1, <2>1, <2>2, Zenon DEF Request!StartFailed, Request!InitFailed, Request!Is, Request!Say
  <2>. QED
    BY <2>3 DEF Request!Next
<1>9. CASE Goes(s, t, "avail", "uninit") /\ t.evs = <<>>
  <2>1. Phase(s) = "ready" /\ Phase(t) = "off"
    BY <1>4, <1>9 DEF Goes
  <2>2. Request!Vanish(w)
    BY <1>1, <1>9, <2>1 DEF Request!Vanish, Request!Say
  <2>. QED
    BY <2>2 DEF Request!Next
<1>10. CASE /\ Goes(s, t, "busy", "uninit")
            /\ \/ t.evs = <<Event(s.cmd, FALSE, 0)>>
               \/ t.evs = <<Event("none", TRUE, 0)>> /\ s.cmd = "exit"
  <2>1. Phase(s) = s.cmd /\ Phase(t) = "off"
    BY <1>4, <1>10 DEF Goes
  <2>2. CASE s.cmd = "exit"
    <3>1. Len(e) = 1 /\ \/ e[1].cmd = "none" /\ e[1].ok = TRUE
                        \/ e[1].cmd = "exit" /\ e[1].ok = FALSE
      BY <1>3, <1>10, <2>2, Zenon
    <3>2. Request!Exited(w)
      BY <1>1, <2>1, <2>2, <3>1, Zenon DEF Request!Exited, Request!Is, Request!Say
    <3>. QED
      BY <3>2 DEF Request!Next
  <2>3. CASE s.cmd # "exit"
    <3>1. PICK c \in Request!Commands \ {"exit"} : c = s.cmd
      BY <1>2, <1>10, <2>3 DEF Cmds, UserCmds, Request!Commands, Goes
    <3>2. Len(e) = 1 /\ e[1].cmd = c /\ e[1].ok = FALSE
      BY <1>3, <1>10, <2>3, <3>1, Zenon
    <3>3. Request!Complete(w, c)
      BY <1>1, <2>1, <3>1, <3>2, Zenon DEF Request!Complete, Request!Say
    <3>. QED
      BY <3>3 DEF Request!Next
  <2>. QED
    BY <2>2, <2>3
<1>11. CASE /\ s.st = "busy" /\ s.up = 1 /\ s.cmd # "exit" /\ t.evs = Answer(s)
            /\ t.st \in {"avail", "dead"} \/ (t.st = "busy" /\ t.cmd = "exit")
  <2>1. Phase(s) = s.cmd /\ Phase(t) \in {"ready", "broken", "exit"}
    BY <1>4, <1>11
  <2>2. Len(e) = 1 /\ e[1].cmd = s.cmd
    <3>1. \E good, n : t.evs = <<Event(s.cmd, good, n)>>
      BY <1>2, <1>11, Zenon DEF Answer, proc_cmd_fail_ev_
    <3>2. PICK good, n : t.evs = <<Event(s.cmd, good, n)>>
      BY <3>1
    <3>. QED
      BY <1>3, <3>2, Zenon
  <2>3. PICK c \in Request!Commands \ {"exit"} : c = s.cmd
    BY <1>2, <1>11 DEF Cmds, UserCmds, Request!Commands
  <2>4. Request!Complete(w, c)
    BY <1>1, <2>1, <2>2, <2>3, Zenon DEF Request!Complete, Request!Say
  <2>. QED
    BY <2>4 DEF Request!Next
<1>12. CASE \/ Goes(s, t, "dead", "uninit") /\ t.evs \in {<<>>, <<Event("exit", FALSE, 0)>>}
            \/ Goes(s, t, "uninit", "uninit") /\ t.evs = <<Event("exit", TRUE, 0)>>
  <2>1. Phase(s) \in {"broken", "off"} /\ Phase(t) = "off"
    BY <1>4, <1>12, Zenon DEF Goes
  <2>2. Len(e) <= 1 /\ (e # <<>> => e[1].cmd = "exit")
    <3>1. CASE t.evs = <<>>
      BY <1>1, <3>1
    <3>2. CASE t.evs = <<Event("exit", FALSE, 0)>> \/ t.evs = <<Event("exit", TRUE, 0)>>
      <4>1. Len(e) = 1 /\ e[1].cmd = "exit"
        BY <1>3, <3>2, Zenon
      <4>. QED
        BY <4>1
    <3>. QED
      BY <1>12, <3>1, <3>2, Zenon
  <2>3. Request!Reap(w)
    BY <1>1, <2>1, <2>2, Zenon DEF Request!Reap, Request!Say
  <2>. QED
    BY <2>3 DEF Request!Next
<1>. QED
  BY <1>5, <1>6, <1>7, <1>8, <1>9, <1>10, <1>11, <1>12, Zenon DEF UpdateStep, Goes

(* A send is an accepted command, a worker found dead, or nothing.  r is   *)
(* the record s with a field that the promise does not speak of changed.   *)
LEMMA SendMapped ==
  ASSUME TypeOK, NEW w \in Procs, NEW r \in ProcState, NEW c \in Request!Commands,
         r.st = proc[w].st, r.cmd = proc[w].cmd, r.evs = proc[w].evs,
         Set(w, proc_send_cmd_(r, c).s)
  PROVE  Request!Next \/ (phase' = phase /\ out' = out)
<1>. DEFINE s == proc[w]
            t == proc_send_cmd_(r, c).s
<1>1. /\ Request!Go(w, Phase(s), Phase(t))
      /\ t.evs = s.evs => out' = out
      /\ Phase(t) = Phase(s) => phase' = phase
  BY Mapped
<1>2. /\ t.evs = r.evs
      /\ \/ t = r
         \/ r.st = "avail" /\ t.st = "busy" /\ t.cmd = c
         \/ r.st = "avail" /\ t.st = "dead"
  BY SendEffect
<1>. HIDE DEF t
<1>3. out' = out
  BY <1>1, <1>2
<1>4. CASE t = r
  <2>1. Phase(t) = Phase(s)
    BY <1>4 DEF Phase
  <2>. QED
    BY <1>1, <1>3, <2>1
<1>5. CASE r.st = "avail" /\ t.st = "busy" /\ t.cmd = c
  <2>1. Phase(s) = "ready" /\ Phase(t) = c
    BY <1>5 DEF Phase
  <2>2. Request!Accept(w, c)
    BY <1>1, <1>3, <2>1 DEF Request!Accept, out
  <2>. QED
    BY <2>2 DEF Request!Next
<1>6. CASE r.st = "avail" /\ t.st = "dead"
  <2>1. Phase(s) = "ready" /\ Phase(t) = "broken"
    BY <1>6 DEF Phase
  <2>2. Request!Refuse(w)
    BY <1>1, <1>3, <2>1 DEF Request!Refuse, out
  <2>. QED
    BY <2>2 DEF Request!Next
<1>. QED
  BY <1>2, <1>4, <1>5, <1>6

(* Every step of AfsProc, action by action, is a step of AfsRequest or     *)
(* leaves its variables alone.                                             *)
LEMMA StepMapped ==
  ASSUME IInv, Next
  PROVE  Request!Next \/ (phase' = phase /\ out' = out)
<1>1. PICK w \in Procs : \E t : Set(w, t) /\ RecordStep(proc[w], t)
  BY StepIsLocal
<1>2. PICK t : Set(w, t) /\ RecordStep(proc[w], t)
  BY <1>1
<1>. DEFINE s == proc[w]
<1>3. TypeOK /\ Good(s) /\ s \in ProcState
  BY DEF IInv, Good
<1>4. /\ Request!Go(w, Phase(s), Phase(t)) /\ Request!Say(w, proc'[w].evs) /\ proc'[w] = t
      /\ t.evs = s.evs => out' = out
      /\ Phase(t) = Phase(s) => phase' = phase
  BY <1>2, <1>3, Mapped
<1>5. CASE s.st = "uninit" /\ \E o \in proc_init_(s) : t = o.s
  <2>1. t.evs = <<>> /\ t.st \in {"uninit", "init_pend", "dead"}
    BY <1>3, <1>5, InitEffect
  <2>2. Phase(s) = "off" /\ Phase(t) \in {"off", "starting", "broken"}
    BY <1>5, <2>1 DEF Phase
  <2>3. CASE Phase(t) \in {"starting", "broken"}
    <3>1. Request!Start(w)
      BY <1>4, <2>1, <2>2, <2>3 DEF Request!Start, Request!Say
    <3>. QED
      BY <3>1 DEF Request!Next
  <2>4. CASE Phase(t) = Phase(s)
    <3>1. Request!Quiet(w)
      BY <1>4, <2>1, <2>4 DEF Request!Quiet, Request!Go, Request!Say
    <3>. QED
      BY <3>1 DEF Request!Next
  <2>. QED
    BY <2>2, <2>3, <2>4
<1>6. CASE CallStep(s, t)
  <2>1. PICK c \in UserCmds, len \in Nat : t = proc_send_cmd_([s EXCEPT !.wlen = len], c).s
    BY <1>6 DEF CallStep
  <2>. DEFINE r == [s EXCEPT !.wlen = len]
  <2>2. r \in ProcState /\ r.st = s.st /\ r.cmd = s.cmd /\ r.evs = s.evs
    BY <1>3, SMTT(30) DEF ProcState
  <2>3. c \in Request!Commands
    BY DEF UserCmds, Request!Commands
  <2>4. Set(w, proc_send_cmd_(r, c).s)
    BY <1>2, <2>1
  <2>. HIDE DEF r
  <2>. QED
    BY <1>3, <2>2, <2>3, <2>4, SendMapped
<1>7. CASE t = proc_stop_prep_(s).s
  <2>. DEFINE r == [s EXCEPT !.stop = TRUE]
  <2>1. r \in ProcState /\ r.st = s.st /\ r.cmd = s.cmd /\ r.evs = s.evs
    BY <1>3, Zenon DEF ProcState
  <2>2. t \in {s, r, proc_send_cmd_(r, "exit").s}
    BY <1>7 DEF proc_stop_prep_
  <2>. HIDE DEF r
  <2>3. CASE t \in {s, r}
    <3>1. Phase(t) = Phase(s) /\ t.evs = s.evs
      BY <2>1, <2>3 DEF Phase
    <3>. QED
      BY <1>4, <3>1
  <2>4. CASE t = proc_send_cmd_(r, "exit").s
    <3>1. "exit" \in Request!Commands
      BY DEF Request!Commands
    <3>2. Set(w, proc_send_cmd_(r, "exit").s)
      BY <1>2, <2>4
    <3>. QED
      BY <1>3, <2>1, <3>1, <3>2, SendMapped
  <2>. QED
    BY <2>2, <2>3, <2>4
<1>8. CASE t = proc_update_(s).s
  <2>1. UpdateStep(s, t)
    BY <1>3, <1>8, UpdateCases
  <2>. QED
    BY <1>2, <1>3, <2>1, UpdateMapped
<1>9. CASE PollStep(s, t) \/ ChildStep(s, t)
  <2>1. t.st = s.st /\ t.cmd = s.cmd /\ t.evs = s.evs
    BY <1>3, <1>9, Zenon DEF PollStep, ChildStep, ProcState
  <2>2. Phase(t) = Phase(s)
    BY <2>1 DEF Phase
  <2>. QED
    BY <1>4, <2>1, <2>2
<1>. QED
  BY <1>2, <1>5, <1>6, <1>7, <1>8, <1>9 DEF RecordStep

(* Every step of AfsProc is a step of AfsRequest or leaves it alone.       *)
THEOREM Refinement == Spec => ImplementsRequest
<1>1. Init => Request!Init
  BY DEF Init, Request!Init, Phase, Blank
<1>2. IInv /\ [Next]_vars => [Request!Next]_(Request!vars)
  <2>1. ASSUME IInv, Next PROVE [Request!Next]_(Request!vars)
    BY <2>1, StepMapped DEF Request!vars, phase, out
  <2>2. ASSUME UNCHANGED vars PROVE UNCHANGED Request!vars
    BY <2>2 DEF vars, Request!vars, Phase
  <2>. QED
    BY <2>1, <2>2
<1>. QED
  BY <1>1, <1>2, Invariance, PTL DEF Spec, ImplementsRequest, Request!Spec
----------------------------------------------------------------------------
(***************************************************************************)
(* What the owner of a worker is told, and the file that its child holds   *)
(***************************************************************************)
(* It has no file open, and is not about to open one.                      *)
Shut(s) == s.file = FALSE /\ (s.cmd = "open" => s.down = 0 /\ s.pc # "run")

(* A child that has not been given a command, or has done a close, has no  *)
(* file open.                                                              *)
Tidy(s) ==
  /\ s.st \in {"uninit", "init_pend"} => s.file = FALSE
  /\ s.st = "busy" /\ s.cmd = "close" /\ s.ran = "close" => s.file = FALSE

(* The command of the event that an update looks at first                  *)
First(s) == IF s.evs = <<>> THEN "nothing" ELSE s.evs[1].cmd

(* What a step that is not the parent's leaves alone                       *)
SameToParent(s, t) ==
  /\ t.st = s.st /\ t.cmd = s.cmd /\ t.evs = s.evs /\ t.stop = s.stop
  /\ Shut(s) => Shut(t)
  /\ Tidy(s) => Tidy(t)

(* A command other than "open" does not open a file for its successors.    *)
LEMMA OutcomeFile ==
  ASSUME NEW s, Good(s), s.file = FALSE, s.cmd # "open", NEW o \in ChildOutcomes(s)
  PROVE  o.file = FALSE
<1>1. \A good, n : Outcome(good, FALSE, n).file = FALSE
  BY DEF Outcome
<1>2. s.cmd \in Cmds
  BY DEF Good, ProcState
<1>3. \E good, n : o = Outcome(good, FALSE, n)
  BY <1>2, Zenon DEF ChildOutcomes, proc_child_close_, proc_child_fsync_, proc_child_readall_, proc_child_write_,
       proc_child_mkdir_, proc_child_write_fsync_close_, Wrote
<1> QED
  BY <1>1, <1>3, Zenon

(* A close leaves no file open, whether or not there was one.              *)
LEMMA CloseShuts ==
  ASSUME NEW s, s.cmd = "close", NEW o \in ChildOutcomes(s)
  PROVE  o.file = FALSE
BY DEF ChildOutcomes, proc_child_close_, Outcome

(* The steps of a child                                                    *)
LEMMA ChildTidy ==
  ASSUME NEW s, Good(s)
  PROVE  /\ s.pc = "start" => SameToParent(s, child_start_(s))
         /\ s.pc = "wait" /\ s.down > 0 => SameToParent(s, child_read_(s))
         /\ s.pc = "run" => \A o \in ChildOutcomes(s) : SameToParent(s, child_run_(s, o))
         /\ s.pc = "done" => SameToParent(s, child_idle_(s))
         /\ s.pc = "reply" => SameToParent(s, child_reply_(s))
         /\ s.pc = "leave" => SameToParent(s, child_leave_(s))
         /\ SameToParent(s, [s EXCEPT !.pc = "zombie"])
<1>1. s \in ProcState
  BY DEF Good
<1>2. s.pc = "wait" /\ s.down > 0 => SameToParent(s, child_read_(s))
  BY <1>1 DEF SameToParent, Shut, Tidy, child_read_, ProcState
<1>3. ASSUME s.pc = "run", NEW o \in ChildOutcomes(s) PROVE SameToParent(s, child_run_(s, o))
  <2> DEFINE t == child_run_(s, o)
  <2>1. t.st = s.st /\ t.cmd = s.cmd /\ t.evs = s.evs /\ t.stop = s.stop /\ t.file = o.file /\ t.ran = s.cmd /\ t.down = s.down
        /\ t.pc = "done"
    BY <1>1, Zenon DEF child_run_, ProcState
  <2> HIDE DEF t
  <2>2. Shut(s) => Shut(t)
    BY <1>3, <2>1, OutcomeFile, Zenon DEF Shut
  <2>3. s.file = FALSE /\ s.st \in {"uninit", "init_pend"} => t.file = FALSE
    <3>1. s.st \in {"uninit", "init_pend"} => s.cmd # "open"
      BY <1>3 DEF Good, Handshake
    <3> QED BY <2>1, <3>1, OutcomeFile, Zenon
  <2>4. t.cmd = "close" => t.file = FALSE
    BY <2>1, CloseShuts, Zenon
  <2> QED BY <2>1, <2>2, <2>3, <2>4 DEF SameToParent, Tidy, t
<1>4. /\ s.pc = "start" => SameToParent(s, child_start_(s))
      /\ s.pc = "done" => SameToParent(s, child_idle_(s))
      /\ s.pc = "reply" => SameToParent(s, child_reply_(s))
      /\ s.pc = "leave" => SameToParent(s, child_leave_(s))
      /\ SameToParent(s, [s EXCEPT !.pc = "zombie"])
  BY <1>1 DEF SameToParent, Shut, Tidy, child_start_, child_idle_, child_reply_, child_leave_, ProcState
<1> QED
  BY <1>2, <1>3, <1>4

(* poll() of a worker                                                      *)
LEMMA PollTidy ==
  ASSUME NEW s, Good(s)
  PROVE  SameToParent(s, [s EXCEPT !.polled = TRUE, !.revents = Ready(s)])
BY DEF SameToParent, Shut, Tidy, Good, ProcState

(* What proc_send_cmd_ does to a worker                                    *)
SentTo(s, c, t, r) ==
  /\ t.evs = s.evs /\ t.stop = s.stop
  /\ \/ s.st # "avail" /\ t = s /\ r = "afs_fail"
     \/ s.st = "avail" /\ t.st = "busy" /\ t.cmd = c /\ r = "afs_ok"
     \/ s.st = "avail" /\ t.st = "dead" /\ r = "afs_fail"
  /\ Tidy(s) => Tidy(t)
  /\ Shut(s) /\ (c # "open" \/ t.st # "busy") => Shut(t)

(* It takes a free worker only, and a command other than "open" opens no   *)
(* file.                                                                   *)
LEMMA SendTidy ==
  ASSUME NEW s, Good(s), NEW c \in Cmds \ {"none"}
  PROVE  SentTo(s, c, proc_send_cmd_(s, c).s, proc_send_cmd_(s, c).r)
<1> DEFINE t == proc_send_cmd_(s, c).s
           r == proc_send_cmd_(s, c).r
           b == [s EXCEPT !.st = "busy", !.cmd = c, !.asked = IF c \in LenCmds THEN s.wlen ELSE @]
<1>1. s \in ProcState /\ (s.st = "avail" => s.cst = "idle" /\ s.down = 0 /\ s.pc \in {"wait", "zombie"})
  BY DEF Good, Handshake
<1>2. CASE s.st # "avail"
  BY <1>2 DEF proc_send_cmd_, Shut, SentTo
<1>3. CASE s.st = "avail"
  <2>1. proc_send_cmd_(s, c) = proc_notify_child_(b)
    BY <1>1, <1>3 DEF proc_send_cmd_
  <2>2. b \in ProcState /\ b.st = "busy" /\ b.cmd = c /\ b.evs = s.evs /\ b.stop = s.stop /\ b.file = s.file /\ b.pc = s.pc
        /\ b.down = s.down
    BY <1>1, Zenon DEF ProcState, ProcSt
  <2> HIDE DEF b
  <2>3. CASE ChildAlive(b)
    <3>1. t = [b EXCEPT !.down = @ + 1, !.ran = "nothing"] /\ r = "afs_ok"
      BY <2>1, <2>3 DEF proc_notify_child_
    <3>2. t.st = "busy" /\ t.cmd = c /\ t.evs = s.evs /\ t.stop = s.stop /\ t.file = s.file /\ t.ran = "nothing"
      BY <2>2, <3>1 DEF ProcState
    <3> QED BY <1>3, <3>1, <3>2 DEF Tidy, Shut, SentTo
  <2>4. CASE ~ChildAlive(b)
    <3>1. t = [b EXCEPT !.st = "dead"] /\ r = "afs_fail"
      BY <2>1, <2>4 DEF proc_notify_child_
    <3>2. t.st = "dead" /\ t.evs = s.evs /\ t.stop = s.stop /\ t.file = s.file /\ t.pc = s.pc /\ t.down = s.down
      BY <2>2, <3>1 DEF ProcState
    <3> QED BY <1>1, <1>3, <3>1, <3>2 DEF Tidy, Shut, SentTo
  <2> QED BY <2>3, <2>4
<1> QED
  BY <1>2, <1>3

(* proc_init_ of a worker without a child starts one that has no file open, *)
(* or fails.                                                               *)
LEMMA InitTidy ==
  ASSUME NEW s, Good(s), Tidy(s), s.st = "uninit", NEW o \in proc_init_(s)
  PROVE  /\ ~o.s.stop /\ Tidy(o.s) /\ Shut(o.s) /\ o.s.st \in {"uninit", "init_pend", "dead"}
         /\ o.r = "afs_ok" => o.s.st = "init_pend"
<1> DEFINE f == [s EXCEPT !.stop = FALSE, !.evs = <<>>]
<1>1. o = [s |-> f, r |-> "afs_fail"] \/ o = Forked("start") \/ o = Forked("zombie")
  BY DEF proc_init_
<1>2. CASE o = [s |-> f, r |-> "afs_fail"]
  <2>1. s \in ProcState /\ s.pc = "gone" /\ s.down = 0 /\ s.file = FALSE
    BY DEF Good, Handshake, Tidy
  <2>2. f.st = "uninit" /\ f.stop = FALSE /\ f.file = FALSE /\ f.pc = "gone" /\ f.down = 0
    BY <2>1 DEF ProcState
  <2>3. o.s = f /\ o.r = "afs_fail"
    BY <1>2
  <2> HIDE DEF f
  <2> QED BY <2>2, <2>3 DEF Tidy, Shut
<1>3. ASSUME NEW pc \in {"start", "zombie"}
      PROVE  LET q == Forked(pc) IN
               /\ q.s.stop = FALSE /\ q.s.file = FALSE /\ q.s.cmd = "none" /\ q.s.st \in {"init_pend", "dead"}
               /\ q.r = "afs_ok" => q.s.st = "init_pend"
  BY DEF Forked, proc_notify_child_, ChildAlive, Blank
<1>4. CASE o = Forked("start") \/ o = Forked("zombie")
  BY <1>3, <1>4, Zenon DEF Tidy, Shut
<1> QED
  BY <1>1, <1>2, <1>4

(* What a step of a loop other than afs_update's does to a worker: it may  *)
(* take up a request to stop.                                              *)
Nudged(s, t, stop) ==
  /\ t.stop => s.stop \/ stop
  /\ \/ t.st = s.st /\ t.cmd = s.cmd
     \/ s.st = "avail" /\ (t.st = "dead" \/ (t.st = "busy" /\ t.cmd = "exit" /\ stop))
  /\ Tidy(s) => Tidy(t)
  /\ Shut(s) => Shut(t)

(* proc_stop_prep_ asks a free worker to exit, and leaves another alone.   *)
LEMMA StopPrepTidy ==
  ASSUME NEW s, Good(s)
  PROVE  Nudged(s, proc_stop_prep_(s).s, TRUE)
<1> DEFINE u == [s EXCEPT !.stop = TRUE]
<1>1. Good(u) /\ u.st = s.st /\ u.cmd = s.cmd /\ u.evs = s.evs /\ u.file = s.file /\ u.ran = s.ran /\ u.down = s.down /\ u.pc = s.pc
  <2>1. s \in ProcState
    BY DEF Good
  <2>2. u \in ProcState
    BY <2>1, Zenon DEF ProcState
  <2>3. /\ u.st = s.st /\ u.pc = s.pc /\ u.down = s.down /\ u.up = s.up /\ u.cmd = s.cmd
        /\ u.res = s.res /\ u.cst = s.cst /\ u.ran = s.ran /\ u.quit = s.quit
        /\ u.wlen = s.wlen /\ u.asked = s.asked /\ u.written = s.written /\ u.revents = s.revents
        /\ u.evs = s.evs /\ u.file = s.file
    BY <2>1, Zenon DEF ProcState
  <2> HIDE DEF u
  <2>4. Good(u)
    BY <2>2, <2>3, FrameGood
  <2> QED BY <2>3, <2>4
<1>2. proc_stop_prep_(s).s \in {s, u} \/ (s.st = "avail" /\ proc_stop_prep_(s).s = proc_send_cmd_(u, "exit").s)
  BY DEF proc_stop_prep_
<1>3. (Tidy(s) => Tidy(u)) /\ (Shut(s) => Shut(u))
  BY <1>1 DEF Tidy, Shut
<1> HIDE DEF u
<1>4. CASE proc_stop_prep_(s).s \in {s, u}
  BY <1>1, <1>3, <1>4, SMTT(30) DEF Nudged
<1>5. CASE s.st = "avail" /\ proc_stop_prep_(s).s = proc_send_cmd_(u, "exit").s
  <2>1. "exit" \in Cmds \ {"none"}
    BY DEF Cmds
  <2> QED BY <1>1, <1>3, <1>5, <2>1, SendTidy DEF SentTo, Nudged
<1> QED
  BY <1>2, <1>4, <1>5, Zenon

(* What proc_update_ does to a worker, in each of its outcomes             *)
Quiet(s, t) ==
  /\ t.evs = <<>>
  /\ (t.st = s.st /\ t.cmd = s.cmd) \/ (s.st \notin {"init_pend", "busy"} /\ t.st = "uninit")
Started(s, t) ==
  /\ s.st = "init_pend" /\ Len(t.evs) \in 1..2 /\ t.evs[1].cmd = "none"
  /\ t.evs[1].ok => t.st = "avail" /\ Len(t.evs) = 1
  /\ ~t.evs[1].ok => t.st = "uninit"
  /\ Len(t.evs) = 2 => t.evs[2].cmd = "exit"
Replied(s, t) ==
  /\ s.st = "busy" /\ Len(t.evs) = 1 /\ t.evs[1].cmd = s.cmd
  /\ t.st \in {"avail", "uninit", "dead"} \/ (t.st = "busy" /\ t.cmd = "exit" /\ s.stop)
  /\ s.cmd = "exit" => t.st = "uninit"
Exited(s, t) ==
  /\ s.st = "busy" => s.cmd = "exit"
  /\ s.st \in {"busy", "dead", "uninit"} /\ t.st = "uninit"
  /\ Len(t.evs) = 1 /\ t.evs[1].cmd \in {"none", "exit"}

UpdatedTo(s, t, r) ==
  /\ Quiet(s, t) \/ Started(s, t) \/ Replied(s, t) \/ Exited(s, t)
  /\ t.stop => s.stop
  /\ r # "afs_ok" => t.st \in {"uninit", "dead"}
  /\ Tidy(t) /\ (Shut(s) => Shut(t))
  /\ First(t) \in {"none", "close"} => Shut(t)

(* A worker that has been destroyed                                        *)
DestroyedTo(t, es, stop) == t.st = "uninit" /\ t.evs = es /\ t.stop = stop /\ Tidy(t) /\ Shut(t)

(* proc_destroy_child_ leaves the events and is_stop_req.                  *)
LEMMA DestroyTidy ==
  ASSUME NEW s, NEW es
  PROVE  /\ DestroyedTo(proc_destroy_child_(s), s.evs, s.stop)
         /\ DestroyedTo(Emit(proc_destroy_child_(s), es), es, s.stop)
BY DEF DestroyedTo, proc_destroy_child_, Emit, Blank, Tidy, Shut

(* The event of an answer is one, and is the command's.                    *)
LEMMA AnswerIs ==
  ASSUME NEW s, s.cmd # "none"
  PROVE  Len(Answer(s)) = 1 /\ Answer(s)[1].cmd = s.cmd
BY DEF Answer, proc_cmd_fail_ev_, Event

(* The update of a worker that was asked to start                          *)
LEMMA UpdateInitPendTidy ==
  ASSUME NEW s, Good(s), Tidy(s), s.st = "init_pend", s.evs = <<>>, NEW rev, "IN" \in rev => s.up = 1
  PROVE  LET o == proc_update_init_pend_(s, rev) IN UpdatedTo(s, o.s, o.r)
<1> DEFINE o == proc_update_init_pend_(s, rev)
           f == Event("none", FALSE, 0)
           g == Event("none", TRUE, 0)
           x == Event("exit", TRUE, 0)
           c == [s EXCEPT !.stop = FALSE]
           d == Emit(proc_destroy_child_(c), <<f, x>>)
           e == Emit(proc_destroy_child_(s), <<f>>)
           u == Emit([s EXCEPT !.up = @ - 1, !.st = "avail"], <<g>>)
<1>1. s \in ProcState /\ s.cmd = "none" /\ s.file = FALSE
  BY DEF Good, Handshake, Tidy
<1>2. f.cmd = "none" /\ ~f.ok /\ g.cmd = "none" /\ g.ok /\ x.cmd = "exit"
  BY DEF Event
<1>3. c.stop = FALSE
  BY <1>1 DEF ProcState
<1>4. DestroyedTo(d, <<f, x>>, c.stop) /\ DestroyedTo(e, <<f>>, s.stop)
  BY DestroyTidy, Zenon
<1>5. u.st = "avail" /\ u.evs = <<g>> /\ u.stop = s.stop /\ u.cmd = "none" /\ u.file = FALSE
  BY <1>1, Zenon DEF Emit, ProcState
<1>6. \/ o = [s |-> d, r |-> "afs_fail"] \/ o = [s |-> e, r |-> "afs_fail"]
      \/ o = [s |-> u, r |-> "afs_ok"] \/ o = [s |-> s, r |-> "afs_ok"]
  BY Zenon DEF proc_update_init_pend_
<1> SUFFICES UpdatedTo(s, o.s, o.r)
  OBVIOUS
<1> HIDE DEF o, c, d, e, f, g, u, x
<1>7. CASE o = [s |-> d, r |-> "afs_fail"]
  <2>1. Started(s, d)
    BY <1>2, <1>4, SMTT(30) DEF Started, DestroyedTo
  <2> QED BY <1>3, <1>4, <1>7, <2>1 DEF UpdatedTo, DestroyedTo
<1>8. CASE o = [s |-> e, r |-> "afs_fail"]
  <2>1. Started(s, e)
    BY <1>2, <1>4 DEF Started, DestroyedTo
  <2> QED BY <1>4, <1>8, <2>1 DEF UpdatedTo, DestroyedTo
<1>9. CASE o = [s |-> u, r |-> "afs_ok"]
  <2>1. Started(s, u)
    BY <1>2, <1>5 DEF Started
  <2> QED BY <1>5, <1>9, <2>1 DEF UpdatedTo, Tidy, Shut
<1>10. CASE o = [s |-> s, r |-> "afs_ok"]
  BY <1>10 DEF UpdatedTo, Quiet, First
<1> QED
  BY <1>6, <1>7, <1>8, <1>9, <1>10

(* The update of a worker that has a command                               *)
LEMMA UpdateBusyTidy ==
  ASSUME NEW s, Good(s), Tidy(s), s.st = "busy", s.evs = <<>>, s.revents = {}, NEW rev, "IN" \in rev => s.up = 1
  PROVE  LET o == proc_update_busy_(s, rev) IN UpdatedTo(s, o.s, o.r)
<1> DEFINE o == proc_update_busy_(s, rev)
           f == proc_cmd_fail_ev_(s.cmd)
           g == Event("none", TRUE, 0)
           a == Emit(s, <<f>>)
           b == Emit([s EXCEPT !.stop = FALSE], <<g>>)
           d == proc_destroy_child_(a)
           e == proc_destroy_child_(b)
           u == [s EXCEPT !.up = @ - 1, !.st = "avail", !.evs = Answer(s), !.cmd = IF s.res = "ok" THEN "none" ELSE @]
<1>1. s \in ProcState /\ s.cmd # "none" /\ s.stop \in BOOLEAN
  BY DEF Good, Handshake, ProcState
<1>2. f.cmd = s.cmd /\ g.cmd = "none"
  BY DEF proc_cmd_fail_ev_, Event
<1>3. a.evs = <<f>> /\ a.stop = s.stop /\ b.evs = <<g>> /\ b.stop = FALSE
  BY <1>1, Zenon DEF Emit, ProcState
<1>4. DestroyedTo(d, a.evs, a.stop) /\ DestroyedTo(e, b.evs, b.stop)
  BY DestroyTidy, Zenon
<1>5. u.st = "avail" /\ u.evs = Answer(s) /\ u.stop = s.stop /\ u.file = s.file /\ u.pc = s.pc /\ u.down = s.down
      /\ u.cmd \in {"none", s.cmd}
  BY <1>1, Zenon DEF ProcState
<1>6. ASSUME s.up = 1, ~(s.res = "ok" /\ s.cmd = "exit") PROVE Good(u)
  BY <1>6, ReadGood, Zenon
<1>7. \/ o = [s |-> d, r |-> "afs_fail"]
      \/ s.cmd = "exit" /\ o = [s |-> e, r |-> "afs_fail"]
      \/ s.up = 1 /\ ~(s.res = "ok" /\ s.cmd = "exit") /\ (o = [s |-> u, r |-> "afs_ok"] \/ (u.stop /\ o = proc_send_cmd_(u, "exit")))
      \/ o = [s |-> s, r |-> "afs_ok"]
  BY Zenon DEF proc_update_busy_
<1> SUFFICES UpdatedTo(s, o.s, o.r)
  BY SMTT(30)
<1> HIDE DEF o, a, b, d, e, f, g, u
<1>8. CASE o = [s |-> d, r |-> "afs_fail"]
  <2>1. Replied(s, d)
    BY <1>2, <1>3, <1>4, SMTT(30) DEF Replied, DestroyedTo
  <2> QED BY <1>3, <1>4, <1>8, <2>1 DEF UpdatedTo, DestroyedTo
<1>9. CASE s.cmd = "exit" /\ o = [s |-> e, r |-> "afs_fail"]
  <2>1. Exited(s, e)
    BY <1>2, <1>3, <1>4, <1>9 DEF Exited, DestroyedTo
  <2> QED BY <1>3, <1>4, <1>9, <2>1 DEF UpdatedTo, DestroyedTo
<1>10. CASE s.up = 1 /\ ~(s.res = "ok" /\ s.cmd = "exit") /\ (o = [s |-> u, r |-> "afs_ok"] \/ (u.stop /\ o = proc_send_cmd_(u, "exit")))
  <2>1. s.ran = s.cmd /\ s.pc # "run" /\ s.down = 0 /\ s.cmd # "exit"
    BY <1>10 DEF Good, Handshake, Answerable, InChild
  <2>2. Good(u)
    BY <1>6, <1>10
  <2>3. Len(u.evs) = 1 /\ u.evs[1].cmd = s.cmd
    BY <1>1, <1>5, AnswerIs
  <2>4. Tidy(u) /\ (Shut(s) => Shut(u)) /\ (s.cmd = "close" => Shut(u))
    BY <1>5, <2>1 DEF Tidy, Shut
  <2>5. \A t : t.evs = u.evs => First(t) = s.cmd
    BY <2>3 DEF First
  <2>6. CASE o = [s |-> u, r |-> "afs_ok"]
    <3>1. o.s = u /\ o.r = "afs_ok"
      BY <2>6
    <3>2. Replied(s, u)
      BY <1>5, <2>1, <2>3 DEF Replied
    <3> QED BY <1>1, <1>5, <2>4, <2>5, <3>1, <3>2, SMTT(30) DEF UpdatedTo
  <2>7. CASE u.stop /\ o = proc_send_cmd_(u, "exit")
    <3>1. "exit" \in Cmds \ {"none"}
      BY DEF Cmds
    <3>4. SentTo(u, "exit", o.s, o.r)
      BY <2>2, <2>7, <3>1, SendTidy, Zenon
    <3>2. /\ o.s.evs = u.evs /\ o.s.stop = u.stop
          /\ \/ o.s.st = "busy" /\ o.s.cmd = "exit" /\ o.r = "afs_ok"
             \/ o.s.st = "dead" /\ o.r = "afs_fail"
          /\ Tidy(o.s) /\ (Shut(u) => Shut(o.s))
      BY <1>5, <2>4, <3>4 DEF SentTo
    <3>3. Replied(s, o.s)
      BY <1>1, <1>5, <2>1, <2>3, <2>7, <3>2, SMTT(30) DEF Replied
    <3> QED BY <1>1, <1>5, <2>1, <2>4, <2>5, <3>2, <3>3 DEF UpdatedTo
  <2> QED BY <1>10, <2>6, <2>7, SMTT(30)
<1>11. CASE o = [s |-> s, r |-> "afs_ok"]
  BY <1>11 DEF UpdatedTo, Quiet, First
<1> QED
  BY <1>7, <1>8, <1>9, <1>10, <1>11, SMTT(30)

(* proc_update_ in every state of the worker                               *)
LEMMA UpdateTidy ==
  ASSUME NEW s, Good(s), Tidy(s)
  PROVE  UpdatedTo(s, proc_update_(s).s, proc_update_(s).r)
<1> DEFINE o == proc_update_(s)
           v == [s EXCEPT !.evs = <<>>, !.polled = FALSE, !.revents = {}]
           p == CASE v.st = "init_pend" -> proc_update_init_pend_(v, s.revents)
                  [] v.st = "busy"      -> proc_update_busy_(v, s.revents)
                  [] v.st = "avail"     -> proc_update_avail_(v, s.revents)
                  [] v.st = "dead"      -> proc_update_dead_(v)
                  [] OTHER              -> proc_update_uninit_(v)
<1>1. s \in ProcState /\ <<>> \in Seq(Events)
  BY DEF Good
<1>2. v \in ProcState /\ v.evs = <<>> /\ v.revents = {} /\ v.stop = s.stop /\ v.st = s.st /\ v.cmd = s.cmd /\ v.file = s.file
      /\ v.ran = s.ran /\ v.pc = s.pc /\ v.down = s.down /\ v.up = s.up /\ v.stop \in BOOLEAN
  BY <1>1, Zenon DEF ProcState
<1>3. Good(v)
  BY <1>1, <1>2 DEF Good, Handshake, Honest, Answerable, InChild, ProcState
<1>4. "IN" \in s.revents => v.up = 1
  BY <1>2 DEF Good, Handshake
<1>5. o = p
  BY DEF proc_update_
<1> HIDE DEF v, o
<1>6. Tidy(v) /\ (Shut(s) => Shut(v)) /\ (Shut(v) => Shut(s))
  BY <1>2 DEF Tidy, Shut
<1>7. UpdatedTo(v, o.s, o.r)
  <2>1. CASE v.st = "init_pend"
    <3>1. o = proc_update_init_pend_(v, s.revents)
      BY <1>5, <2>1
    <3> QED BY <1>2, <1>3, <1>4, <1>6, <2>1, <3>1, UpdateInitPendTidy, Zenon
  <2>2. CASE v.st = "busy"
    <3>1. o = proc_update_busy_(v, s.revents)
      BY <1>5, <2>2
    <3> QED BY <1>2, <1>3, <1>4, <1>6, <2>2, <3>1, UpdateBusyTidy, Zenon
  <2>3. CASE v.st = "avail"
    <3>1. o = [s |-> proc_destroy_child_(v), r |-> "afs_fail"] \/ o = [s |-> v, r |-> "afs_ok"]
      BY <1>5, <2>3 DEF proc_update_avail_
    <3> DEFINE d == proc_destroy_child_(v)
    <3>2. DestroyedTo(d, v.evs, v.stop)
      BY DestroyTidy, Zenon
    <3> HIDE DEF d
    <3>3. UpdatedTo(v, d, "afs_fail") /\ UpdatedTo(v, v, "afs_ok")
      BY <1>2, <1>6, <2>3, <3>2 DEF UpdatedTo, Quiet, DestroyedTo, First
    <3> QED BY <3>1, <3>3 DEF d
  <2>4. CASE v.st = "dead"
    <3> DEFINE x == proc_cmd_fail_ev_("exit")
               c == Emit([v EXCEPT !.stop = FALSE], <<x>>)
               d == proc_destroy_child_(c)
               e == proc_destroy_child_(v)
    <3>1. o = [s |-> d, r |-> "afs_fail"] \/ o = [s |-> e, r |-> "afs_fail"]
      BY <1>5, <2>4, Zenon DEF proc_update_dead_
    <3>2. c.evs = <<x>> /\ c.stop = FALSE
      BY <1>2 DEF Emit, ProcState
    <3>3. x.cmd = "exit"
      BY DEF proc_cmd_fail_ev_, Event
    <3>4. DestroyedTo(d, c.evs, c.stop) /\ DestroyedTo(e, v.evs, v.stop)
      BY DestroyTidy, Zenon
    <3> HIDE DEF c, d, e, x
    <3>5. Exited(v, d) /\ Quiet(v, e)
      BY <1>2, <2>4, <3>2, <3>3, <3>4, SMTT(30) DEF Exited, Quiet, DestroyedTo
    <3>6. UpdatedTo(v, d, "afs_fail") /\ UpdatedTo(v, e, "afs_fail")
      BY <3>2, <3>4, <3>5 DEF UpdatedTo, DestroyedTo
    <3> QED BY <3>1, <3>6
  <2>5. CASE v.st = "uninit"
    <3> DEFINE x == Event("exit", TRUE, 0)
               c == Emit([v EXCEPT !.stop = FALSE], <<x>>)
    <3>1. o = [s |-> c, r |-> "afs_fail"] \/ o = [s |-> v, r |-> "afs_fail"]
      BY <1>5, <2>5, Zenon DEF proc_update_uninit_
    <3>2. c.evs = <<x>> /\ c.stop = FALSE /\ c.st = v.st /\ c.file = v.file /\ c.cmd = v.cmd /\ c.down = v.down /\ c.pc = v.pc
      BY <1>2, Zenon DEF Emit, ProcState
    <3>3. x.cmd = "exit"
      BY SMTT(30) DEF Event
    <3>4. Shut(v) /\ v.file = FALSE
      BY <1>3, <1>6, <2>5, SMTT(30) DEF Shut, Tidy, Good, Handshake
    <3> HIDE DEF c, x
    <3>5. Exited(v, c) /\ Tidy(c) /\ Shut(c)
      BY <2>5, <3>2, <3>3, <3>4, SMTT(30) DEF Exited, Tidy, Shut
    <3>6. UpdatedTo(v, c, "afs_fail") /\ UpdatedTo(v, v, "afs_fail")
      BY <1>2, <1>6, <2>5, <3>2, <3>4, <3>5, SMTT(30) DEF UpdatedTo, Quiet
    <3> QED BY <3>1, <3>6
  <2> QED BY <1>2, <2>1, <2>2, <2>3, <2>4, <2>5 DEF ProcState, ProcSt
<1>8. UpdatedTo(s, o.s, o.r)
  BY <1>2, <1>6, <1>7 DEF UpdatedTo, Quiet, Started, Replied, Exited
<1> QED
  BY <1>8 DEF o
-----------------------------------------------------------------------------
Distinct(list) ==
  \A i, j \in DOMAIN list : i # j => list[i].w # list[j].w /\ (list[i].fd # list[j].fd \/ list[i].fd = -1)

GoodList(list) == list \in Seq(Slots) /\ Distinct(list)

(* Room for so many slots in both arrays                                   *)
Fits(list, room) ==
  /\ room \in [pfds : Nat, evs : Nat]
  /\ Len(list) <= room.pfds /\ 3 * Len(list) <= room.evs
  /\ room.evs > 0 => room.evs >= 3
----------------------------------------------------------------------------
(***************************************************************************)
(* The list                                                                *)
(***************************************************************************)

LOCAL INSTANCE WellFoundedInduction

(* A non-empty set of natural numbers has a smallest one.                  *)
LEMMA NatMin ==
  ASSUME NEW T, T \subseteq Nat, T # {}
  PROVE  \E x \in T : \A y \in T : x <= y
<1> DEFINE R == OpToRel(<, Nat)
<1>1. IsWellFoundedOn(R, Nat)
  BY NatLessThanWellFounded, Zenon
<1>2. \A x, y \in Nat : x < y => <<x, y>> \in R
  BY Zenon DEF OpToRel
<1> HIDE DEF R
<1>3. PICK x \in T : \A y \in T : ~(<<y, x>> \in R)
  BY <1>1, WFMin, Zenon
<1>4. \A y \in T : ~(y < x)
  BY <1>2, <1>3, Zenon
<1>5. \A y \in T : x <= y
  BY <1>4
<1> QED
  BY <1>5

(* ps_next_fd_ is above every descriptor in use.                           *)
LEMMA NextFd ==
  ASSUME ps \in Seq(Slots)
  PROVE  ps_next_fd_ \in Nat /\ \A i \in DOMAIN ps : ps[i].fd < ps_next_fd_
<1> DEFINE N == Len(ps)
           C == {0} \cup {ps[i].fd + 1 : i \in DOMAIN ps}
           B(k) == \E n \in C : \A i \in 1..k : ps[i].fd < n
           T == {k \in 0..N : ~B(k)}
<1>1. N \in Nat /\ DOMAIN ps = 1..N /\ \A i \in 1..N : ps[i].fd \in Nat \cup {-1}
  <2>1. \A i \in 1..Len(ps) : ps[i] \in Slots
    OBVIOUS
  <2> QED BY <2>1 DEF Slots
<1>2. C \subseteq Nat
  BY <1>1
<1>3. B(N)
  <2> SUFFICES ASSUME ~B(N) PROVE FALSE
    OBVIOUS
  <2>1. T \subseteq Nat /\ T # {}
    <3>1. 0..N \subseteq Nat /\ N \in 0..N
      BY <1>1
    <3> HIDE DEF B, N
    <3> QED BY <3>1, Zenon
  <2>2. PICK x \in T : \A y \in T : x <= y
    <3> HIDE DEF T
    <3> QED BY <2>1, NatMin, Zenon
  <2>3. x \in 0..N /\ ~B(x)
    OBVIOUS
  <2>4. B(0)
    <3>1. \A i \in 1..0 : ps[i].fd < 0
      OBVIOUS
    <3>2. 0 \in C
      OBVIOUS
    <3> QED BY <3>1, <3>2
  <2>5. x # 0
    BY <2>3, <2>4
  <2>6. x - 1 \in 0..N /\ x \in 1..N /\ ~(x <= x - 1)
    BY <1>1, <2>3, <2>5
  <2>7. B(x - 1)
    BY <2>2, <2>6, Zenon
  <2> HIDE DEF C
  <2>8. PICK n \in C : \A i \in 1..(x - 1) : ps[i].fd < n
    BY <2>7
  <2>9. n \in Nat /\ ps[x].fd \in Nat \cup {-1} /\ ps[x].fd + 1 \in C
    BY <1>1, <1>2, <2>6, Zenon DEF C
  <2>10. \A i \in 1..x : i \in 1..(x - 1) \/ i = x
    BY <2>6
  <2>11. CASE ps[x].fd < n
    BY <2>3, <2>8, <2>10, <2>11
  <2>12. CASE ~(ps[x].fd < n)
    <3>1. \A i \in 1..x : ps[i].fd < ps[x].fd + 1
      <4> TAKE i \in 1..x
      <4>1. i \in 1..N /\ ps[i].fd \in Nat \cup {-1}
        BY <1>1, <2>6
      <4>2. CASE i = x
        BY <2>9, <4>2
      <4>3. CASE i \in 1..(x - 1)
        <5> DEFINE a == ps[i].fd
                   b == ps[x].fd
        <5>1. a < n /\ a \in Int /\ b \in Int /\ n \in Int /\ ~(b < n)
          BY <2>8, <2>9, <2>12, <4>1, <4>3
        <5> HIDE DEF a, b
        <5>2. a < b + 1
          BY <5>1
        <5> QED BY <5>2 DEF a, b
      <4> QED BY <2>10, <4>2, <4>3
    <3> QED BY <2>3, <2>9, <3>1, ZenonT(40)
  <2> QED BY <2>11, <2>12
<1>4. \E n \in C : \A i \in DOMAIN ps : ps[i].fd < n
  BY <1>1, <1>3, ZenonT(40)
<1> HIDE DEF C
<1>5. ps_next_fd_ \in C /\ \A i \in DOMAIN ps : ps[i].fd < ps_next_fd_
  BY <1>4, Zenon DEF ps_next_fd_, C
<1> QED
  BY <1>2, <1>5, ZenonT(40)

(* ps_get_ finds a slot of the list, or none.                              *)
LEMMA PsGet ==
  ASSUME ps \in Seq(Slots), NEW n, ps_get_(n) # 0
  PROVE  ps_get_(n) \in DOMAIN ps /\ ps[ps_get_(n)].fd = n
<1> DEFINE hits == {i \in DOMAIN ps : ps[i].fd = n}
<1>1. hits # {} /\ hits \subseteq Nat
  BY DEF ps_get_
<1>2. \E i \in hits : \A j \in hits : i <= j
  <2> HIDE DEF hits
  <2> QED BY <1>1, NatMin, Zenon
<1>3. ps_get_(n) = CHOOSE i \in hits : \A j \in hits : i <= j
  BY <1>1 DEF ps_get_
<1> QED
  BY <1>2, <1>3

(* What ps_del_ does: the first hit is left out, the order is kept.        *)
LEMMA PsDel ==
  ASSUME NEW list \in Seq(Slots), NEW n
  PROVE  \/ ps_del_(list, n) = list
         \/ \E k \in 1..Len(list) :
              /\ list[k].fd = n /\ \A j \in 1..Len(list) : list[j].fd = n => k <= j
              /\ ps_del_(list, n) \in Seq(Slots) /\ Len(ps_del_(list, n)) = Len(list) - 1
              /\ \A i \in 1..Len(list) - 1 : ps_del_(list, n)[i] = list[IF i < k THEN i ELSE i + 1]
<1> DEFINE hits == {i \in DOMAIN list : list[i].fd = n}
           k == CHOOSE i \in hits : \A j \in hits : i <= j
           g == [i \in 1..Len(list) - 1 |-> IF i < k THEN list[i] ELSE list[i + 1]]
<1> SUFFICES ASSUME hits # {} PROVE
         /\ k \in 1..Len(list)
         /\ list[k].fd = n /\ \A j \in 1..Len(list) : list[j].fd = n => k <= j
         /\ ps_del_(list, n) \in Seq(Slots) /\ Len(ps_del_(list, n)) = Len(list) - 1
         /\ \A i \in 1..Len(list) - 1 : ps_del_(list, n)[i] = list[IF i < k THEN i ELSE i + 1]
  BY Zenon DEF ps_del_
<1>1. Len(list) \in Nat /\ DOMAIN list = 1..Len(list) /\ hits \subseteq Nat /\ \A i \in 1..Len(list) : list[i] \in Slots
  OBVIOUS
<1>2. k \in hits /\ \A j \in hits : k <= j
  <2>1. \E i \in hits : \A j \in hits : i <= j
    <3> HIDE DEF hits
    <3> QED BY <1>1, NatMin, Zenon
  <2> HIDE DEF hits
  <2> QED BY <2>1
<1>3. k \in 1..Len(list) /\ list[k].fd = n /\ \A j \in 1..Len(list) : list[j].fd = n => k <= j
  BY <1>1, <1>2, Zenon
<1>4. ps_del_(list, n) = g
  BY DEF ps_del_
<1> HIDE DEF k
<1>5. Len(list) - 1 \in Nat
  BY <1>1, <1>3
<1>6. \A i \in 1..Len(list) - 1 : g[i] = list[IF i < k THEN i ELSE i + 1] /\ (IF i < k THEN i ELSE i + 1) \in 1..Len(list)
  BY <1>1, <1>3
<1>7. g \in [1..Len(list) - 1 -> Slots]
  BY <1>1, <1>6
<1>8. g \in Seq(Slots) /\ Len(g) = Len(list) - 1
  <2> HIDE DEF g
  <2>1. g \in Seq(Slots)
    BY <1>5, <1>7
  <2> QED BY <1>5, <1>7, <2>1
<1> QED
  BY <1>3, <1>4, <1>6, <1>8

(* A list stays good without one of its slots.                             *)
LEMMA DelGood ==
  ASSUME NEW list, GoodList(list), NEW n
  PROVE  GoodList(ps_del_(list, n)) /\ Len(ps_del_(list, n)) <= Len(list)
<1> DEFINE d == ps_del_(list, n)
<1>1. list \in Seq(Slots) /\ Distinct(list) /\ Len(list) \in Nat
  BY DEF GoodList
<1>2. CASE d = list
  BY <1>1, <1>2 DEF GoodList
<1>3. CASE d # list
  <2> HIDE DEF d
  <2>1. PICK k \in 1..Len(list) : /\ d \in Seq(Slots) /\ Len(d) = Len(list) - 1
                                  /\ \A i \in 1..Len(list) - 1 : d[i] = list[IF i < k THEN i ELSE i + 1]
    BY <1>1, <1>3, PsDel DEF d
  <2>2. \A i \in 1..Len(list) - 1 : (IF i < k THEN i ELSE i + 1) \in 1..Len(list)
    BY <1>1
  <2>3. \A i, j \in 1..Len(list) - 1 : i # j => (IF i < k THEN i ELSE i + 1) # (IF j < k THEN j ELSE j + 1)
    BY <1>1
  <2>4. DOMAIN d = 1..Len(list) - 1 /\ DOMAIN list = 1..Len(list)
    BY <1>1, <2>1
  <2>5. Distinct(d)
    BY <1>1, <2>1, <2>2, <2>3, <2>4, SMTT(30) DEF Distinct
  <2> QED BY <1>1, <2>1, <2>5 DEF GoodList, d
<1> QED
  BY <1>2, <1>3

(* A slot that keeps its worker and its descriptor, loses it, or gets one  *)
(* that is above all others                                                *)
LEMMA SetSlot ==
  ASSUME NEW list, GoodList(list), NEW i \in DOMAIN list, NEW t \in Slots, t.w = list[i].w,
         t.fd = list[i].fd \/ t.fd = -1 \/ \A j \in DOMAIN list : list[j].fd < t.fd
  PROVE  /\ GoodList([list EXCEPT ![i] = t]) /\ Len([list EXCEPT ![i] = t]) = Len(list)
         /\ \A j \in DOMAIN list : [list EXCEPT ![i] = t][j].w = list[j].w
<1> DEFINE g == [list EXCEPT ![i] = t]
<1>1. list \in Seq(Slots) /\ Distinct(list) /\ \A j \in DOMAIN list : list[j] \in Slots
  BY DEF GoodList
<1>2. g \in Seq(Slots) /\ Len(g) = Len(list) /\ DOMAIN g = DOMAIN list
  BY <1>1
<1>3. \A j \in DOMAIN list : g[j] = IF j = i THEN t ELSE list[j]
  BY <1>1
<1> HIDE DEF g
<1>4. \A j \in DOMAIN list : list[j].fd \in Int
  BY <1>1 DEF Slots
<1>5. Distinct(g)
  <2> SUFFICES ASSUME NEW j \in DOMAIN list, NEW k \in DOMAIN list, j # k
               PROVE  g[j].w # g[k].w /\ (g[j].fd # g[k].fd \/ g[j].fd = -1)
    BY <1>2 DEF Distinct
  <2>1. list[j].w # list[k].w /\ (list[j].fd # list[k].fd \/ list[j].fd = -1)
    BY <1>1 DEF Distinct
  <2>2. CASE j # i /\ k # i
    BY <1>3, <2>1, <2>2
  <2>3. CASE j = i
    <3>1. g[j] = t /\ g[k] = list[k]
      BY <1>3, <2>3
    <3>2. list[k].fd < t.fd => t.fd # list[k].fd
      BY <1>4
    <3> QED BY <2>1, <2>3, <3>1, <3>2, SMTT(30)
  <2>4. CASE k = i
    <3>1. g[k] = t /\ g[j] = list[j]
      BY <1>3, <2>4
    <3>2. list[j].fd < t.fd => t.fd # list[j].fd
      BY <1>4
    <3> QED BY <2>1, <2>4, <3>1, <3>2
  <2> QED BY <2>2, <2>3, <2>4, SMTT(30)
<1>6. \A j \in DOMAIN list : g[j].w = list[j].w
  BY <1>3
<1> QED
  BY <1>2, <1>5, <1>6 DEF GoodList, g

(* A new slot at the end, with a worker and a descriptor of its own        *)
LEMMA AddSlot ==
  ASSUME NEW list, GoodList(list), NEW t \in Slots, \A j \in DOMAIN list : list[j].w # t.w /\ list[j].fd < t.fd
  PROVE  GoodList(Append(list, t)) /\ Len(Append(list, t)) = Len(list) + 1 /\ Append(list, t)[Len(list) + 1] = t
<1> DEFINE g == Append(list, t)
<1>1. list \in Seq(Slots) /\ Distinct(list) /\ Len(list) \in Nat /\ DOMAIN list = 1..Len(list)
      /\ \A j \in DOMAIN list : list[j] \in Slots
  BY DEF GoodList
<1>2. g \in Seq(Slots) /\ Len(g) = Len(list) + 1 /\ DOMAIN g = 1..Len(list) + 1 /\ g[Len(list) + 1] = t
      /\ \A j \in 1..Len(list) : g[j] = list[j]
  BY <1>1
<1> HIDE DEF g
<1>3. \A j \in DOMAIN list : list[j].fd \in Int
  BY <1>1 DEF Slots
<1>4. \A j \in DOMAIN list : list[j].w # t.w /\ list[j].fd # t.fd
  BY <1>3
<1>5. \A j \in 1..Len(list) + 1 : j \in 1..Len(list) \/ j = Len(list) + 1
  BY <1>1
<1>6. Distinct(g)
  BY <1>1, <1>2, <1>4, <1>5 DEF Distinct
<1> QED
  BY <1>2, <1>6 DEF GoodList, g
----------------------------------------------------------------------------
(***************************************************************************)
(* maybe_alloc_ps_                                                         *)
(***************************************************************************)
AllocGood(o) ==
  /\ GoodList(o.ps) /\ Fits(o.ps, o.lim) /\ o.lim.evs >= lim.evs
  /\ o.i \in 0..Len(o.ps) /\ (o.i # 0 => o.ps[o.i].fd \in Nat)
  /\ o.w \in Procs
  /\ \/ o.s = proc[o.w]
     \/ proc[o.w].st = "uninit" /\ \E q \in proc_init_(proc[o.w]) : o.s = q.s
  /\ o.was_init => /\ o.s = proc[o.w] /\ proc[o.w].st # "uninit"
                   /\ \E i \in DOMAIN ps : ps[i].w = o.w /\ ps[i].fd = -1

(* A free slot gets the next number, or is unlinked.                       *)
LEMMA ReuseGood ==
  ASSUME GoodList(ps), Fits(ps, lim), NEW i \in DOMAIN ps, ps[i].fd = -1, NEW o \in Reuse(i)
  PROVE  AllocGood(o)
<1> DEFINE w == ps[i].w
           t == [ps[i] EXCEPT !.fd = ps_next_fd_]
           mine == [ps EXCEPT ![i] = t]
<1>1. ps \in Seq(Slots) /\ ps[i] \in Slots /\ Len(ps) \in Nat /\ DOMAIN ps = 1..Len(ps) /\ i # 0
  BY DEF GoodList
<1>2. ps_next_fd_ \in Nat /\ \A j \in DOMAIN ps : ps[j].fd < ps_next_fd_
  BY <1>1, NextFd
<1>3. t \in Slots /\ t.w = w /\ t.fd = ps_next_fd_ /\ w \in Procs
  <2> DEFINE e == ps[i]
  <2> HIDE DEF e
  <2>1. e \in Slots
    BY <1>1 DEF e
  <2>2. [e EXCEPT !.fd = ps_next_fd_] \in Slots /\ [e EXCEPT !.fd = ps_next_fd_].w = e.w
        /\ [e EXCEPT !.fd = ps_next_fd_].fd = ps_next_fd_ /\ e.w \in Procs
    BY <1>2, <2>1 DEF Slots
  <2> QED BY <2>2 DEF e
<1>4. mine = [ps EXCEPT ![i].fd = ps_next_fd_]
  OBVIOUS
<1> HIDE DEF t
<1>5. GoodList(mine) /\ Len(mine) = Len(ps) /\ mine[i] = t
  <2>1. GoodList(mine) /\ Len(mine) = Len(ps)
    BY <1>2, <1>3, SetSlot
  <2> QED BY <1>1, <2>1
<1>6. lim.evs \in Nat /\ lim.pfds \in Nat
  BY DEF Fits
<1> HIDE DEF mine
<1>7. Fits(mine, lim)
  BY <1>5, SMTT(30) DEF Fits
<1>8. CASE proc[w].st # "uninit"
  <2>1. o = Alloc(mine, lim, w, proc[w], i, TRUE)
    BY <1>4, <1>8, SMTT(30) DEF Reuse
  <2>2. o.ps = mine /\ o.lim = lim /\ o.w = w /\ o.s = proc[w] /\ o.i = i /\ o.was_init = TRUE
    BY <2>1, SMTT(30) DEF Alloc
  <2>3. o.i \in 0..Len(o.ps) /\ o.ps[o.i].fd \in Nat /\ o.lim.evs >= lim.evs
    BY <1>1, <1>2, <1>3, <1>5, <1>6, <2>2, SMTT(30)
  <2> QED BY <1>3, <1>5, <1>7, <1>8, <2>2, <2>3 DEF AllocGood
<1>9. CASE proc[w].st = "uninit"
  <2>1. PICK q \in proc_init_(proc[w]) :
          o = IF q.r = "afs_ok" THEN Alloc(mine, lim, w, q.s, i, FALSE) ELSE Alloc(ps_del_(ps, -1), lim, w, q.s, 0, FALSE)
    BY <1>4, <1>9, Zenon DEF Reuse
  <2>2. o.lim = lim /\ o.w = w /\ o.s = q.s /\ ~o.was_init
        /\ ((o.ps = mine /\ o.i = i) \/ (o.ps = ps_del_(ps, -1) /\ o.i = 0))
    <3>1. CASE o = Alloc(mine, lim, w, q.s, i, FALSE)
      <4>1. ~o.was_init
        BY <3>1, Zenon DEF Alloc
      <4>2. o.lim = lim /\ o.w = w /\ o.s = q.s /\ o.ps = mine /\ o.i = i
        BY <3>1, ZenonT(40) DEF Alloc
      <4> QED BY <4>1, <4>2, Zenon
    <3>2. CASE o = Alloc(ps_del_(ps, -1), lim, w, q.s, 0, FALSE)
      <4>1. ~o.was_init
        BY <3>2, Zenon DEF Alloc
      <4> QED BY <3>2, <4>1 DEF Alloc
    <3> QED BY <2>1, <3>1, <3>2, Zenon
  <2>3. GoodList(ps_del_(ps, -1)) /\ Len(ps_del_(ps, -1)) <= Len(ps) /\ Len(ps_del_(ps, -1)) \in Nat
    BY DelGood DEF GoodList
  <2>4. Fits(ps_del_(ps, -1), lim)
    BY <1>1, <1>6, <2>3, SMTT(30) DEF Fits
  <2>5. o.i \in 0..Len(o.ps) /\ (o.i # 0 => o.ps[o.i].fd \in Nat) /\ o.lim.evs >= lim.evs
    BY <1>1, <1>2, <1>3, <1>5, <1>6, <2>2, <2>3, SMTT(30)
  <2>6. GoodList(o.ps) /\ Fits(o.ps, o.lim)
    BY <1>5, <1>7, <2>2, <2>3, <2>4
  <2> QED BY <1>3, <1>9, <2>2, <2>5, <2>6 DEF AllocGood
<1> QED
  BY <1>8, <1>9

(* ps_add_ makes room in both arrays before it links the slot.             *)
LEMMA AddGood ==
  ASSUME GoodList(ps), Fits(ps, lim), NEW w \in Fresh, NEW o \in ps_add_(w)
  PROVE  AllocGood(o)
<1> DEFINE t == Slot(w, ps_next_fd_)
           list == Append(ps, t)
           room == Grown(Len(ps) + 1)
<1>1. ps \in Seq(Slots) /\ Len(ps) \in Nat
  BY DEF GoodList
<1>2. ps_next_fd_ \in Nat /\ \A j \in DOMAIN ps : ps[j].fd < ps_next_fd_
  BY <1>1, NextFd
<1>3. w \in Procs /\ proc[w].st = "uninit" /\ \A j \in DOMAIN ps : ps[j].w # w
  BY DEF Fresh
<1>4. t \in Slots /\ t.w = w /\ t.fd = ps_next_fd_
  BY <1>2, <1>3 DEF Slot, Slots, AfterInit
<1> HIDE DEF t
<1>5. GoodList(list) /\ Len(list) = Len(ps) + 1 /\ list[Len(ps) + 1] = t
  BY <1>2, <1>3, <1>4, AddSlot
<1>6. lim \in [pfds : Nat, evs : Nat] /\ lim.evs \in Nat /\ lim.pfds \in Nat
      /\ Len(ps) <= lim.pfds /\ 3 * Len(ps) <= lim.evs /\ (lim.evs > 0 => lim.evs >= 3)
  BY DEF Fits
<1>7. /\ room \in [pfds : Nat, evs : Nat] /\ room.pfds \in Nat /\ room.evs \in Nat
      /\ room.pfds >= Len(ps) + 1 /\ room.pfds >= lim.pfds
      /\ room.evs >= 3 * (Len(ps) + 1) /\ room.evs >= lim.evs
  BY <1>1, <1>6 DEF Grown, evs_pfds_prealloc_len_, proc_evs_maxlen_
<1> HIDE DEF room, list
<1>8. Fits(list, room) /\ Fits(ps, room)
  BY <1>1, <1>5, <1>6, <1>7, SMTT(30) DEF Fits
<1>9. CASE o = Alloc(ps, lim, w, proc[w], 0, FALSE)
  <2>1. o.ps = ps /\ o.lim = lim /\ o.w = w /\ o.s = proc[w] /\ o.i = 0 /\ ~o.was_init
    <3>1. ~o.was_init
      BY <1>9, Zenon DEF Alloc
    <3> QED BY <1>9, <3>1 DEF Alloc
  <2> QED BY <1>1, <1>3, <1>6, <2>1 DEF AllocGood
<1>10. CASE o = Alloc(ps, [lim EXCEPT !.pfds = room.pfds], w, proc[w], 0, FALSE)
  <2> DEFINE l == [lim EXCEPT !.pfds = room.pfds]
  <2>1. l \in [pfds : Nat, evs : Nat] /\ l.pfds = room.pfds /\ l.evs = lim.evs
    BY <1>6, <1>7
  <2> HIDE DEF l
  <2>2. o.ps = ps /\ o.lim = l /\ o.w = w /\ o.s = proc[w] /\ o.i = 0 /\ ~o.was_init
    <3>1. ~o.was_init
      BY <1>10, Zenon DEF Alloc
    <3> QED BY <1>10, <3>1 DEF Alloc, l
  <2>3. Fits(ps, l)
    BY <1>1, <1>6, <1>7, <2>1, SMTT(30) DEF Fits
  <2> QED BY <1>1, <1>3, <1>6, <2>1, <2>2, <2>3 DEF AllocGood
<1>11. CASE \E q \in proc_init_(proc[w]) : o = IF q.r = "afs_ok" THEN Alloc(list, room, w, q.s, Len(list), FALSE)
                                                                ELSE Alloc(ps, room, w, q.s, 0, FALSE)
  <2>1. PICK q \in proc_init_(proc[w]) : o = IF q.r = "afs_ok" THEN Alloc(list, room, w, q.s, Len(list), FALSE)
                                                              ELSE Alloc(ps, room, w, q.s, 0, FALSE)
    BY <1>11, Zenon
  <2>2. o.lim = room /\ o.w = w /\ o.s = q.s /\ ~o.was_init
        /\ ((o.ps = list /\ o.i = Len(list)) \/ (o.ps = ps /\ o.i = 0))
    <3>1. CASE o = Alloc(list, room, w, q.s, Len(list), FALSE)
      <4>1. ~o.was_init
        BY <3>1, Zenon DEF Alloc
      <4>2. o.lim = room /\ o.w = w /\ o.s = q.s /\ o.ps = list /\ o.i = Len(list)
        BY <3>1 DEF Alloc
      <4> QED BY <4>1, <4>2, Zenon
    <3>2. CASE o = Alloc(ps, room, w, q.s, 0, FALSE)
      <4>1. ~o.was_init
        BY <3>2, Zenon DEF Alloc
      <4> QED BY <3>2, <4>1 DEF Alloc
    <3> QED BY <2>1, <3>1, <3>2, Zenon
  <2>3. GoodList(o.ps) /\ Fits(o.ps, o.lim) /\ o.lim.evs >= lim.evs
    BY <1>5, <1>7, <1>8, <2>2, SMTT(30)
  <2>4. o.i \in 0..Len(o.ps) /\ (o.i # 0 => o.ps[o.i].fd \in Nat)
    BY <1>1, <1>2, <1>4, <1>5, <2>2
  <2> QED BY <1>3, <2>2, <2>3, <2>4 DEF AllocGood
<1>12. o \in {Alloc(ps, lim, w, proc[w], 0, FALSE), Alloc(ps, [lim EXCEPT !.pfds = room.pfds], w, proc[w], 0, FALSE)}
       \/ \E q \in proc_init_(proc[w]) : o = IF q.r = "afs_ok" THEN Alloc(list, room, w, q.s, Len(list), FALSE)
                                                             ELSE Alloc(ps, room, w, q.s, 0, FALSE)
  BY Zenon DEF ps_add_, room, list, t
<1> QED
  BY <1>9, <1>10, <1>11, <1>12, Zenon

(* maybe_alloc_ps_ returns a slot of its own list, in arrays that hold it. *)
LEMMA MaybeAllocGood ==
  ASSUME GoodList(ps), Fits(ps, lim), NEW o \in maybe_alloc_ps_
  PROVE  AllocGood(o)
<1>1. CASE ps_get_(-1) # 0
  <2>1. ps_get_(-1) \in DOMAIN ps /\ ps[ps_get_(-1)].fd = -1
    BY <1>1, PsGet DEF GoodList
  <2> QED BY <1>1, <2>1, ReuseGood DEF maybe_alloc_ps_
<1>2. CASE ps_get_(-1) = 0
  BY <1>2, AddGood DEF maybe_alloc_ps_
<1> QED
  BY <1>1, <1>2
----------------------------------------------------------------------------
(***************************************************************************)
(* The inductive invariant of the context                                  *)
(***************************************************************************)
ListInv == GoodList(ps) /\ Fits(ps, lim)

(* What afs_update has yet to visit is the rest of the list, so that a     *)
(* deletion, of this slot or of one before it, takes none of it away.      *)
Rest(workers, list) ==
  /\ Len(workers) <= Len(list)
  /\ \A k \in 1..Len(workers) : workers[k] = list[Len(list) - Len(workers) + k].w

LoopInv ==
  /\ stop_req \in BOOLEAN /\ res \in Results /\ todo \in Seq(Procs)
  /\ at \in {"calls", "stop_prep", "poll", "update", "forward", "stopped"}
  /\ at \in {"update", "forward"} => Rest(todo, ps)
  /\ at = "forward" => todo # <<>>

(* One event for every slot visited, with room for all                     *)
EvsInv ==
  /\ evs \in Seq(AfsEvents)
  /\ at \in {"update", "forward"} => 3 * (Len(evs) + Len(todo)) <= lim.evs
  /\ Polite => Len(evs) <= lim.evs /\ (stop_req /\ at # "stopped" => lim.evs > 0)

UserInv ==
  /\ pend \subseteq [fd : Nat, cmd : UserCmds]
  /\ held \subseteq [fd : Nat, kind : {"open", "mkdir", "reserved"}]
  /\ calls \in 0..MaxCalls

CtxInv == ListInv /\ LoopInv /\ EvsInv /\ UserInv

AfsInv == IInv /\ CtxInv
----------------------------------------------------------------------------
(***************************************************************************)
(* Every step of the context is a step of one worker, or of none.  Where   *)
(* AfsProc has callers that leave a busy worker alone, that takes a user   *)
(* who waits: a worker is busy for a pending request, or because of        *)
(* afs_stop_prep, and one that reports its start is not busy.              *)
(***************************************************************************)
Waited ==
  ClientWaits =>
    /\ Polite
    /\ \A i \in DOMAIN ps : proc[ps[i].w].st = "busy" => stop_req \/ \E q \in pend : q.fd = ps[i].fd
    /\ at = "forward" => LET s == proc[Head(todo)] IN
                           s.evs # <<>> /\ s.evs[1].cmd = "none" /\ s.evs[1].ok => s.st # "busy"

(* proc_send_cmd_ for a user's command is a step of AfsProc, or none.      *)
LEMMA SendIsCall ==
  ASSUME TypeOK, NEW w \in Procs, ClientWaits => proc[w].st # "busy", NEW c \in UserCmds,
         Set(w, proc_send_cmd_(proc[w], c).s)
  PROVE  [Next]_vars
<1>1. proc \in [Procs -> ProcState] /\ proc[w] \in ProcState
  BY DEF TypeOK
<1>2. CASE proc[w].st = "uninit"
  <2>1. proc_send_cmd_(proc[w], c).s = proc[w]
    BY <1>2 DEF proc_send_cmd_
  <2>2. proc' = proc
    BY <1>1, <2>1 DEF Set
  <2> QED BY <2>2 DEF vars
<1>3. CASE proc[w].st # "uninit"
  <2>1. [proc[w] EXCEPT !.wlen = proc[w].wlen] = proc[w]
    BY <1>1 DEF ProcState
  <2>2. Call(w, c, proc[w].wlen)
    BY <1>3, <2>1 DEF Call
  <2>3. Parent(w)
    BY <2>2 DEF Parent
  <2> QED BY <2>3 DEF Next
<1> QED
  BY <1>2, <1>3

(* So is afs_write, which sets the length and then sends.                  *)
LEMMA SendLenIsCall ==
  ASSUME NEW w \in Procs, ClientWaits => proc[w].st # "busy", NEW c \in LenCmds, NEW len \in Lens, proc[w].st # "uninit",
         Set(w, proc_send_cmd_([proc[w] EXCEPT !.wlen = len], c).s)
  PROVE  Next
<1>1. Call(w, c, len)
  BY DEF Call
<1>2. c \in UserCmds
  BY DEF LenCmds, UserCmds
<1>3. Parent(w)
  BY <1>1, <1>2, SMTT(30) DEF Parent
<1> QED
  BY <1>3 DEF Next

(* maybe_alloc_ps_ reuses a worker, forks one, or does neither.            *)
LEMMA AllocIsProc ==
  ASSUME TypeOK, NEW o, AllocGood(o), Set(o.w, o.s)
  PROVE  [Next]_vars
<1>1. CASE o.s = proc[o.w]
  <2>1. proc' = proc
    BY <1>1, SMTT(30) DEF Set, TypeOK, AllocGood
  <2> QED BY <2>1 DEF vars
<1>2. CASE proc[o.w].st = "uninit" /\ \E q \in proc_init_(proc[o.w]) : o.s = q.s
  <2>1. ProcInit(o.w) /\ o.w \in Procs
    BY <1>2 DEF ProcInit, AllocGood
  <2> QED BY <2>1, ZenonT(40) DEF Next, Parent
<1> QED
  BY <1>1, <1>2 DEF AllocGood

(* afs_open and afs_mkdir make at most one step of one worker.             *)
LEMMA OpenIsProc ==
  ASSUME AfsInv, Waited, NEW op \in {"open", "mkdir"}, NEW fits, OpenCall(op, fits)
  PROVE  [Next]_vars
<1>1. PICK o \in maybe_alloc_ps_ : Set(o.w, o.s) \/ (o.was_init /\ Set(o.w, proc_send_cmd_(o.s, op).s))
  BY DEF OpenCall
<1>2. AllocGood(o)
  BY MaybeAllocGood DEF AfsInv, CtxInv, ListInv
<1>3. TypeOK /\ op \in UserCmds
  BY DEF AfsInv, IInv, UserCmds
<1>4. CASE Set(o.w, o.s)
  BY <1>2, <1>3, <1>4, AllocIsProc, SMTT(30)
<1>5. CASE o.was_init /\ Set(o.w, proc_send_cmd_(o.s, op).s)
  <2>1. o.s = proc[o.w] /\ o.w \in Procs
    BY <1>2, <1>5, SMTT(30) DEF AllocGood
  <2>2. ClientWaits => proc[o.w].st # "busy"
    <3>1. PICK i \in DOMAIN ps : ps[i].w = o.w /\ ps[i].fd = -1
      BY <1>2, <1>5 DEF AllocGood
    <3>2. \A q \in pend : q.fd # -1
      BY DEF AfsInv, CtxInv, UserInv
    <3>3. Polite => ~stop_req
      BY DEF OpenCall, CanCall
    <3> QED BY <3>1, <3>2, <3>3, SMTT(30) DEF Waited
  <2> QED BY <1>3, <1>5, <2>1, <2>2, SendIsCall, SMTT(30)
<1> QED
  BY <1>1, <1>4, <1>5

(* ps_get_ finds a slot with a worker.                                     *)
LEMMA GetWorker ==
  ASSUME CtxInv, NEW n, ps_get_(n) # 0
  PROVE  ps_get_(n) \in DOMAIN ps /\ ps[ps_get_(n)] \in Slots /\ ps[ps_get_(n)].w \in Procs
<1>1. ps_get_(n) \in DOMAIN ps /\ ps \in Seq(Slots)
  BY PsGet DEF CtxInv, ListInv, GoodList
<1>2. ps[ps_get_(n)] \in Slots
  BY <1>1
<1> DEFINE e == ps[ps_get_(n)]
<1> HIDE DEF e
<1>3. e.w \in Procs
  BY <1>2 DEF e, Slots
<1> QED
  BY <1>1, <1>2, <1>3 DEF e

(* A user who waits does not call a worker that is busy.                   *)
LEMMA NotBusy ==
  ASSUME AfsInv, Waited, NEW op, NEW n, CanUse(op, n), ps_get_(n) # 0
  PROVE  ClientWaits => proc[ps[ps_get_(n)].w].st # "busy"
<1>1. ps_get_(n) \in DOMAIN ps /\ ps[ps_get_(n)].fd = n
  BY PsGet DEF AfsInv, CtxInv, ListInv, GoodList
<1>2. Polite => ~stop_req /\ \A q \in pend : q.fd # n
  BY DEF CanUse, CanCall
<1> QED
  BY <1>1, <1>2 DEF Waited

(* afs_write, afs_fsync, afs_close and the like: one command to one worker *)
LEMMA FdCallIsProc ==
  ASSUME AfsInv, Waited, NEW op \in UserCmds, NEW n, NEW len \in Lens, FdCall(op, n, len)
  PROVE  [Next]_vars
<1> DEFINE w == ps[ps_get_(n)].w
<1>1. ps_get_(n) # 0 /\ proc[w].st # "uninit"
      /\ Set(w, proc_send_cmd_(IF op \in LenCmds THEN [proc[w] EXCEPT !.wlen = len] ELSE proc[w], op).s)
  BY DEF FdCall
<1>2. w \in Procs /\ TypeOK
  BY <1>1, GetWorker DEF AfsInv, IInv
<1>3. ClientWaits => proc[w].st # "busy"
  BY <1>1, NotBusy DEF FdCall
<1> HIDE DEF w
<1>4. CASE op \in LenCmds
  BY <1>1, <1>2, <1>3, <1>4, SendLenIsCall
<1>5. CASE op \notin LenCmds
  BY <1>1, <1>2, <1>3, <1>5, SendIsCall
<1> QED
  BY <1>4, <1>5

(* afs_write_fsync_close: one command, or none while the worker starts     *)
LEMMA WfcIsProc ==
  ASSUME AfsInv, Waited, NEW n, NEW len \in Lens, afs_write_fsync_close(n, len)
  PROVE  [Next]_vars
<1> DEFINE w == ps[ps_get_(n)].w
<1>1. ps_get_(n) # 0 /\ proc[w].st # "uninit"
      /\ Set(w, proc_send_cmd_([proc[w] EXCEPT !.wlen = len], "write_fsync_close").s)
  BY DEF afs_write_fsync_close
<1>2. w \in Procs /\ "write_fsync_close" \in LenCmds
  BY <1>1, GetWorker DEF AfsInv, LenCmds
<1>3. ClientWaits => proc[w].st # "busy"
  BY <1>1, NotBusy DEF afs_write_fsync_close
<1> HIDE DEF w
<1> QED
  BY <1>1, <1>2, <1>3, SendLenIsCall

(* The slot that Forward is at                                             *)
Cur == Len(ps) - Len(todo) + 1

(* The loop of afs_update is at the slot of the first worker still to do.  *)
LEMMA Current ==
  ASSUME CtxInv, at = "forward"
  PROVE  /\ Cur \in DOMAIN ps /\ ps[Cur].w = Head(todo) /\ Head(todo) \in Procs /\ ps[Cur] \in Slots
         /\ (CHOOSE j \in DOMAIN ps : ps[j].w = Head(todo)) = Cur
<1>1. ps \in Seq(Slots) /\ Distinct(ps) /\ todo \in Seq(Procs) /\ todo # <<>> /\ Rest(todo, ps)
  BY DEF CtxInv, ListInv, LoopInv, GoodList
<1>2. Len(todo) \in Nat /\ Len(todo) >= 1 /\ Len(ps) \in Nat /\ Len(todo) <= Len(ps) /\ Head(todo) = todo[1]
      /\ DOMAIN ps = 1..Len(ps)
  BY <1>1 DEF Rest
<1>3. Cur \in DOMAIN ps /\ ps[Cur].w = todo[1]
  BY <1>1, <1>2 DEF Rest, Cur
<1>4. todo[1] \in Procs /\ ps[Cur] \in Slots
  BY <1>1, <1>2, <1>3
<1>5. \A j \in DOMAIN ps : ps[j].w = Head(todo) => j = Cur
  BY <1>1, <1>2, <1>3 DEF Distinct
<1> QED
  BY <1>2, <1>3, <1>4, <1>5

(* One turn of that loop is one step of that worker.                       *)
LEMMA ForwardIsProc ==
  ASSUME AfsInv, Waited, Forward
  PROVE  [Next]_vars
<1> DEFINE w == Head(todo)
           slot == ps[Cur]
           s == proc[w]
           begun == s.evs # <<>> /\ s.evs[1].cmd = "none" /\ s.evs[1].ok /\ slot.cmd_after_init # "none"
<1>1. at = "forward"
  BY Zenon DEF Forward
<1>2. /\ Cur \in DOMAIN ps /\ w \in Procs /\ slot \in Slots
      /\ (CHOOSE j \in DOMAIN ps : ps[j].w = w) = Cur
  BY <1>1, Current DEF AfsInv
<1>3. TypeOK
  BY ZenonT(40) DEF AfsInv, IInv
<1>4. \/ begun /\ Set(w, proc_send_cmd_(proc[w], slot.cmd_after_init).s)
      \/ UNCHANGED proc
  BY <1>2, Zenon DEF Forward
<1>5. slot.cmd_after_init # "none" => slot.cmd_after_init \in UserCmds
  <2> HIDE DEF slot
  <2> QED BY <1>2 DEF Slots, AfterInit, UserCmds
<1>6. begun => slot.cmd_after_init # "none" /\ (ClientWaits => proc[w].st # "busy")
  BY <1>1, Zenon DEF Waited
<1> HIDE DEF w, slot, begun
<1>7. CASE begun /\ Set(w, proc_send_cmd_(proc[w], slot.cmd_after_init).s)
  BY <1>2, <1>3, <1>5, <1>6, <1>7, SendIsCall, ZenonT(40)
<1> QED
  BY <1>4, <1>7, ZenonT(40) DEF vars

(* Every step of the context and of the children                           *)
LEMMA StepIsProc ==
  ASSUME AfsInv, Waited, [AfsNext]_afsvars
  PROVE  [Next]_vars
<1>1. ASSUME NEW fits \in BOOLEAN, afs_open(fits) \/ afs_mkdir(fits) PROVE [Next]_vars
  BY <1>1, OpenIsProc DEF afs_open, afs_mkdir
<1>2. CASE afs_reserve
  <2>1. PICK o \in maybe_alloc_ps_ : Set(o.w, o.s)
    BY <1>2 DEF afs_reserve
  <2>2. AllocGood(o)
    BY MaybeAllocGood DEF AfsInv, CtxInv, ListInv
  <2> QED BY <2>1, <2>2, AllocIsProc DEF AfsInv, IInv
<1>3. ASSUME NEW n, afs_close(n) \/ afs_fsync(n) \/ afs_readall(n) PROVE [Next]_vars
  <2>1. 0 \in Lens /\ {"close", "fsync", "readall"} \subseteq UserCmds
    BY LensAssumption DEF UserCmds
  <2> QED BY <1>3, <2>1, FdCallIsProc DEF afs_close, afs_fsync, afs_readall
<1>4. ASSUME NEW n, NEW len \in Lens, afs_write(n, len) \/ afs_write_fsync_close(n, len) PROVE [Next]_vars
  <2>1. "write" \in UserCmds
    BY SMTT(30) DEF UserCmds
  <2> QED BY <1>4, <2>1, FdCallIsProc, WfcIsProc DEF afs_write
<1>5. CASE afs_stop_prep \/ afs_stop \/ afs_init \/ StopPrepDone \/ afs_pollfds \/ UpdateStart \/ UpdateDone
  BY <1>5, SMTT(30) DEF afs_stop_prep, afs_stop, afs_init, StopPrepDone, afs_pollfds, UpdateStart, UpdateDone, vars
<1>6. todo # <<>> => Head(todo) \in Procs
  BY DEF AfsInv, CtxInv, LoopInv
<1>7. CASE StopPrepSlot \/ PollSlot \/ UpdateSlot
  BY <1>6, <1>7 DEF StopPrepSlot, PollSlot, UpdateSlot, Next, Parent
<1>8. CASE Forward
  BY <1>8, ForwardIsProc
<1>9. CASE Children
  BY <1>9 DEF Children, Next
<1>10. CASE UNCHANGED afsvars
  BY <1>10 DEF afsvars, vars
<1> QED
  BY <1>1, <1>2, <1>3, <1>4, <1>5, <1>7, <1>8, <1>9, <1>10, ZenonT(40) DEF AfsNext, UserCall, Loop
=============================================================================
