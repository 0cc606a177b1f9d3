------------------------------ MODULE AfsProc ------------------------------
(***************************************************************************)
(* The worker processes of afs.c.  Each proc_ object of the parent forks   *)
(* one child, shares a page with it (proc_shared_) and talks to it over a  *)
(* socket pair: one byte down asks the child to run shared->cmd, one byte  *)
(* up says that shared->res is ready.  The parent never blocks: it learns  *)
(* of the answer in proc_update_, from the revents of an earlier poll().   *)
(*                                                                         *)
(* proc[w] is everything that belongs to one proc_: the parent's object,   *)
(* the shared page, the child and the two directions of the socket.  The   *)
(* C functions that change it are operators from such a record to the next *)
(* one; those with a return value give the pair [s, r].  The interleaving  *)
(* is in the actions: a child step, a poll and a parent call of the same   *)
(* worker are separate steps.                                              *)
(***************************************************************************)
EXTENDS Naturals, Sequences

CONSTANTS Procs,        \* the proc_ objects
          Lens,         \* write lengths a caller may ask for
          ClientWaits   \* TRUE: callers leave a busy worker alone

ASSUME LensAssumption == Lens \subseteq Nat /\ 0 \in Lens
ASSUME ClientWaitsAssumption == ClientWaits \in BOOLEAN

VARIABLE proc

vars == proc

(***************************************************************************)
(* enum proc_cmd_.  An afs_event is the command it completes and whether   *)
(* it succeeded: afs_ev_init is [cmd |-> "none", ok |-> TRUE], afs_ev_stop *)
(* is the success of "exit".  len is d.write.len, 0 where unused.          *)
(***************************************************************************)
UserCmds == {"open", "close", "fsync", "write", "readall", "mkdir", "write_fsync_close"}
LenCmds  == {"write", "write_fsync_close"}
Cmds     == UserCmds \cup {"none", "exit"}

Event(c, good, n) == [cmd |-> c, ok |-> good, len |-> n]
Events == [cmd : Cmds, ok : BOOLEAN, len : Nat]

proc_evs_maxlen_ == 3

ProcSt  == {"uninit", "init_pend", "avail", "busy", "dead"}
ChildSt == {"not_started", "idle", "busy"}
ResSt   == {"none", "ok", "fail"}
Pcs     == {"gone", "start", "wait", "run", "done", "reply", "leave", "zombie"}
Results == {"afs_ok", "afs_fail"}

ProcState ==
  [ st       : ProcSt,               \* struct proc_, the parent's view
    stop     : BOOLEAN,              \*   is_stop_req
    evs      : Seq(Events),
    polled   : BOOLEAN,              \* its pollfd was filled by poll()
    revents  : SUBSET {"IN", "HUP"}, \*   HUP stands for POLLHUP and POLLERR
    cmd      : Cmds,                 \* struct proc_shared_, both write it
    res      : ResSt,
    cst      : ChildSt,              \*   shared->st
    wlen     : Nat,                  \*   write_len
    written  : Nat,
    pc       : Pcs,                  \* the child's program counter
    file     : BOOLEAN,              \*   its fd # -1
    quit     : BOOLEAN,              \*   should_exit
    down     : Nat,                  \* bytes in the socket, to the child
    up       : Nat,                  \*   and to the parent
    ran      : Cmds \cup {"nothing"},\* history: run since the last notify
    asked    : Nat ]                 \* history: length of the last request

(***************************************************************************)
(* A proc_ without a child: as afs_init leaves it and as destroy leaves it *)
(***************************************************************************)
Blank ==
  [ st |-> "uninit", stop |-> FALSE, evs |-> <<>>, polled |-> FALSE,
    revents |-> {}, cmd |-> "none", res |-> "none", cst |-> "not_started",
    wlen |-> 0, written |-> 0, pc |-> "gone", file |-> FALSE,
    quit |-> FALSE, down |-> 0, up |-> 0, ran |-> "nothing", asked |-> 0 ]

ChildAlive(s) == s.pc \notin {"gone", "zombie"}

----------------------------------------------------------------------------
(***************************************************************************)
(* The parent                                                              *)
(***************************************************************************)

(* write() of one byte.  A child that is gone has closed its end: EPIPE.   *)
(* (Where SIGPIPE is not ignored the whole program ends here instead.)     *)
proc_notify_child_(s) ==
  IF ChildAlive(s)
  THEN [s |-> [s EXCEPT !.down = @ + 1, !.ran = "nothing"], r |-> "afs_ok"]
  ELSE [s |-> [s EXCEPT !.st = "dead"], r |-> "afs_fail"]

(* kill, waitpid, close, munmap                                            *)
proc_destroy_child_(s) == [Blank EXCEPT !.stop = s.stop, !.evs = s.evs]

(* Mutants: the state is not looked at; the command is stored first.       *)
SendUnchecked(s, c) ==
  IF s.cst # "idle" THEN [s |-> s, r |-> "afs_fail"]
  ELSE proc_notify_child_([s EXCEPT !.st = "busy", !.cmd = c])

SendStoresFirst(s, c) ==
  LET t == [s EXCEPT !.cmd = c]
  IN  IF s.st # "avail" \/ s.cst # "idle" THEN [s |-> t, r |-> "afs_fail"]
      ELSE proc_notify_child_([t EXCEPT !.st = "busy"])

proc_send_cmd_(s, c) ==
  IF s.st # "avail" \/ s.cst # "idle"
  THEN [s |-> s, r |-> "afs_fail"]
  ELSE proc_notify_child_([s EXCEPT !.st = "busy", !.cmd = c,
                                    !.asked = IF c \in LenCmds THEN s.wlen ELSE @])

(* Its outcomes: socketpair, mmap or fork fails; or there is a child, that *)
(* may already be dead at the time of the first notify.                    *)
Forked(pc) == proc_notify_child_([Blank EXCEPT !.st = "init_pend", !.pc = pc])

proc_init_(s) ==
  {[s |-> [s EXCEPT !.stop = FALSE, !.evs = <<>>], r |-> "afs_fail"]}
    \cup {Forked(pc) : pc \in {"start", "zombie"}}

proc_stop_prep_(s) ==
  IF s.stop
  THEN [s |-> s, r |-> "afs_fail"]
  ELSE LET t == [s EXCEPT !.stop = TRUE]
       IN  CASE s.st = "avail" -> proc_send_cmd_(t, "exit")
             [] s.st = "busy"  -> [s |-> t, r |-> "afs_ok"]
             [] OTHER          -> [s |-> t, r |-> "afs_fail"]

Emit(s, evs) == [s EXCEPT !.evs = evs]

proc_cmd_fail_ev_(c) == Event(c, FALSE, 0)

proc_update_init_pend_(s, revents) ==
  CASE s.stop ->
         [s |-> Emit(proc_destroy_child_([s EXCEPT !.stop = FALSE]),
                     <<Event("none", FALSE, 0), Event("exit", TRUE, 0)>>),
          r |-> "afs_fail"]
    [] ~s.stop /\ "HUP" \in revents ->
         [s |-> Emit(proc_destroy_child_(s), <<Event("none", FALSE, 0)>>),
          r |-> "afs_fail"]
    [] ~s.stop /\ "HUP" \notin revents /\ "IN" \in revents ->
         IF s.res = "ok"
         THEN [s |-> Emit([s EXCEPT !.up = @ - 1, !.st = "avail"],
                          <<Event("none", TRUE, 0)>>),
               r |-> "afs_ok"]
         ELSE [s |-> Emit(proc_destroy_child_(s), <<Event("none", FALSE, 0)>>),
               r |-> "afs_fail"]
    [] OTHER -> [s |-> s, r |-> "afs_ok"]

(* Mutant: the reply is read whether or not there is one.                  *)
AvailReads(s, revents) ==
  IF "HUP" \in revents THEN [s |-> proc_destroy_child_(s), r |-> "afs_fail"]
  ELSE [s |-> [s EXCEPT !.up = @ - 1], r |-> "afs_ok"]

proc_update_avail_(s, revents) ==
  IF "HUP" \in revents
  THEN [s |-> proc_destroy_child_(s), r |-> "afs_fail"]
  ELSE [s |-> s, r |-> "afs_ok"]

(* The event of an answered command.  For "none" there is none.            *)
Answer(s) ==
  IF s.res # "ok" THEN <<proc_cmd_fail_ev_(s.cmd)>>
  ELSE IF s.cmd = "none" THEN <<>>
  ELSE <<Event(s.cmd, TRUE, IF s.cmd \in LenCmds THEN s.written ELSE 0)>>

(* Mutants: a dead child is torn down without an event; a dead child is    *)
(* not noticed; a stop request that came while busy is not taken up.       *)
BusyUpdate(s, revents, onHup) ==
  CASE "HUP" \in revents -> onHup
    [] "HUP" \notin revents /\ "IN" \in revents ->
         IF s.res = "ok" /\ s.cmd = "exit"
         THEN [s |-> proc_destroy_child_(Emit([s EXCEPT !.stop = FALSE], <<Event("none", TRUE, 0)>>)),
               r |-> "afs_fail"]
         ELSE [s |-> [s EXCEPT !.up = @ - 1, !.st = "avail", !.evs = Answer(s)], r |-> "afs_ok"]
    [] OTHER -> [s |-> s, r |-> "afs_ok"]

BusySilent(s, revents) == BusyUpdate(s, revents, [s |-> proc_destroy_child_(s), r |-> "afs_fail"])
BusyIgnoresDeath(s, revents) == BusyUpdate(s, revents, [s |-> s, r |-> "afs_ok"])
BusyForgetsStop(s, revents) ==
  BusyUpdate(s, revents, [s |-> proc_destroy_child_(Emit(s, <<proc_cmd_fail_ev_(s.cmd)>>)), r |-> "afs_fail"])

(* A successful "exit" leaves only the placeholder afs_ev_init: is_stop_req *)
(* is cleared before it is tested, so the afs_ev_stop is never added.      *)
proc_update_busy_(s, revents) ==
  CASE "HUP" \in revents ->
         [s |-> proc_destroy_child_(Emit(s, <<proc_cmd_fail_ev_(s.cmd)>>)),
          r |-> "afs_fail"]
    [] "HUP" \notin revents /\ "IN" \in revents ->
         IF s.res = "ok" /\ s.cmd = "exit"
         THEN [s |-> proc_destroy_child_(
                       Emit([s EXCEPT !.stop = FALSE], <<Event("none", TRUE, 0)>>)),
               r |-> "afs_fail"]
         ELSE LET t == [s EXCEPT !.up = @ - 1, !.st = "avail", !.evs = Answer(s),
                                 !.cmd = IF s.res = "ok" THEN "none" ELSE @]
              IN  IF t.stop THEN proc_send_cmd_(t, "exit")
                            ELSE [s |-> t, r |-> "afs_ok"]
    [] OTHER -> [s |-> s, r |-> "afs_ok"]

proc_update_dead_(s) ==
  [s |-> proc_destroy_child_(
           IF s.stop THEN Emit([s EXCEPT !.stop = FALSE], <<proc_cmd_fail_ev_("exit")>>)
                     ELSE s),
   r |-> "afs_fail"]

proc_update_uninit_(s) ==
  [s |-> IF s.stop THEN Emit([s EXCEPT !.stop = FALSE], <<Event("exit", TRUE, 0)>>)
                   ELSE s,
   r |-> "afs_fail"]

(* evs_len = 0 first; the poll results are used up by this update          *)
proc_update_(s0) ==
  LET s == [s0 EXCEPT !.evs = <<>>, !.polled = FALSE, !.revents = {}]
  IN  CASE s.st = "init_pend" -> proc_update_init_pend_(s, s0.revents)
        [] s.st = "busy"      -> proc_update_busy_(s, s0.revents)
        [] s.st = "avail"     -> proc_update_avail_(s, s0.revents)
        [] s.st = "dead"      -> proc_update_dead_(s)
        [] OTHER              -> proc_update_uninit_(s)

(* What poll() reports for p->fd.  A closed peer is POLLHUP.               *)
Ready(s) ==
  {e \in {"IN", "HUP"} :
     /\ s.st # "uninit"
     /\ (e = "IN")  => s.up > 0
     /\ (e = "HUP") => s.pc = "zombie"}

----------------------------------------------------------------------------
(***************************************************************************)
(* The child: proc_child_worker_ and the commands.  A command's operator   *)
(* is the set of outcomes the file system may give it.                     *)
(***************************************************************************)
Outcome(good, open, n) == [res |-> IF good THEN "ok" ELSE "fail", file |-> open, written |-> n]

(* All of it is written, or the write fails somewhere before the end.      *)
Wrote(s, open) == {Outcome(TRUE, open, s.wlen)} \cup
                  {Outcome(FALSE, open, n) : n \in {m \in 0..s.wlen : m = 0 \/ m < s.wlen}}

proc_child_open_(s) ==
  IF s.file THEN {Outcome(FALSE, TRUE, s.written)}
  ELSE {Outcome(TRUE, TRUE, s.written), Outcome(FALSE, FALSE, s.written)}

(* Mutant: the descriptor of the closed file is kept.                      *)
CloseKeepsFd(s) == {Outcome(s.file, s.file, s.written)}

proc_child_close_(s) == {Outcome(s.file, FALSE, s.written)}

proc_child_fsync_(s) ==
  {Outcome(FALSE, s.file, s.written)} \cup
  (IF s.file THEN {Outcome(TRUE, TRUE, s.written)} ELSE {})

(* Mutant: a short write counts as a success.                              *)
ShortWriteClose(s) == {Outcome(TRUE, s.file, n) : n \in 0..s.wlen}

proc_child_write_(s) ==
  IF s.file THEN Wrote(s, TRUE) ELSE {Outcome(FALSE, FALSE, s.written)}

proc_child_readall_(s) == proc_child_fsync_(s)

proc_child_mkdir_(s) == {Outcome(TRUE, s.file, s.written), Outcome(FALSE, s.file, s.written)}

(* It opens, writes, syncs and closes a file of its own.                   *)
proc_child_write_fsync_close_(s) ==
  Wrote(s, s.file) \cup {Outcome(FALSE, s.file, s.wlen)}

ChildOutcomes(s) ==
  CASE s.cmd = "open"    -> proc_child_open_(s)
    [] s.cmd = "close"   -> proc_child_close_(s)
    [] s.cmd = "fsync"   -> proc_child_fsync_(s)
    [] s.cmd = "write"   -> proc_child_write_(s)
    [] s.cmd = "readall" -> proc_child_readall_(s)
    [] s.cmd = "mkdir"   -> proc_child_mkdir_(s)
    [] s.cmd = "write_fsync_close" -> proc_child_write_fsync_close_(s)
    [] OTHER             -> {Outcome(TRUE, s.file, s.written)}

child_start_(s) ==
  IF s.cst # "not_started" THEN [s EXCEPT !.pc = "zombie"]
                           ELSE [s EXCEPT !.pc = "wait", !.cst = "idle"]

child_read_(s) == [s EXCEPT !.pc = "run", !.down = @ - 1, !.cst = "busy", !.res = "none"]

(* Mutant: the result is not stored.                                       *)
RunForgetsRes(s, o) ==
  [s EXCEPT !.pc = "done", !.file = o.file, !.written = o.written,
            !.quit = (s.cmd = "exit"), !.ran = s.cmd]

child_run_(s, o) ==
  [s EXCEPT !.pc = "done", !.res = o.res, !.file = o.file, !.written = o.written,
            !.quit = (s.cmd = "exit"), !.ran = s.cmd]

child_idle_(s) == [s EXCEPT !.pc = "reply", !.cst = "idle"]

child_reply_(s) == [s EXCEPT !.pc = IF s.quit THEN "leave" ELSE "wait", !.up = @ + 1]

child_leave_(s) == [s EXCEPT !.pc = "zombie", !.cst = "not_started"]
----------------------------------------------------------------------------
(***************************************************************************)
(* The actions                                                             *)
(***************************************************************************)
Set(w, s) == proc' = [proc EXCEPT ![w] = s]

ProcInit(w) == proc[w].st = "uninit" /\ \E o \in proc_init_(proc[w]) : Set(w, o.s)

(* afs_write and afs_write_fsync_close store write_len before they know    *)
(* whether the command can be sent.                                        *)
Call(w, c, len) ==
  /\ proc[w].st # "uninit"
  /\ ClientWaits => proc[w].st # "busy"
  /\ c \notin LenCmds => len = proc[w].wlen
  /\ Set(w, proc_send_cmd_([proc[w] EXCEPT !.wlen = len], c).s)

ProcStopPrep(w) == Set(w, proc_stop_prep_(proc[w]).s)

Poll(w) ==
  /\ ~proc[w].polled
  /\ Set(w, [proc[w] EXCEPT !.polled = TRUE, !.revents = Ready(proc[w])])

(* Without a poll() before it, it sees no revents.                         *)
ProcUpdate(w) == Set(w, proc_update_(proc[w]).s)

ChildStart(w) == proc[w].pc = "start" /\ Set(w, child_start_(proc[w]))
ChildRead(w)  == proc[w].pc = "wait" /\ proc[w].down > 0 /\ Set(w, child_read_(proc[w]))
ChildRun(w)   == proc[w].pc = "run" /\ \E o \in ChildOutcomes(proc[w]) : Set(w, child_run_(proc[w], o))
ChildIdle(w)  == proc[w].pc = "done" /\ Set(w, child_idle_(proc[w]))
ChildReply(w) == proc[w].pc = "reply" /\ Set(w, child_reply_(proc[w]))
ChildLeave(w) == proc[w].pc = "leave" /\ Set(w, child_leave_(proc[w]))

(* The child is killed or crashes.                                         *)
ChildDie(w) == ChildAlive(proc[w]) /\ Set(w, [proc[w] EXCEPT !.pc = "zombie"])

Child(w) == \/ ChildStart(w) \/ ChildRead(w) \/ ChildRun(w)
            \/ ChildIdle(w) \/ ChildReply(w) \/ ChildLeave(w)

Parent(w) == \/ ProcInit(w)
             \/ \E c \in UserCmds, len \in Lens \cup {proc[w].wlen} : Call(w, c, len)
             \/ ProcStopPrep(w)
             \/ Poll(w)
             \/ ProcUpdate(w)

Init == proc = [w \in Procs |-> Blank]

Next == \E w \in Procs : Parent(w) \/ Child(w) \/ ChildDie(w)

Spec == Init /\ [][Next]_vars

(* The operating system runs the children; the owner of the loop services  *)
(* the poll descriptors.                                                   *)
Fairness == \A w \in Procs : WF_vars(Child(w)) /\ WF_vars(Poll(w)) /\ WF_vars(ProcUpdate(w))

FairSpec == Spec /\ Fairness
----------------------------------------------------------------------------
(***************************************************************************)
(* Properties                                                              *)
(***************************************************************************)

(* Every field holds a value of its C type.                                *)
TypeOK == proc \in [Procs -> ProcState]

(* The baton.  Of "a byte to the child", "the child is between read() and  *)
(* its reply" and "a byte to the parent" at most one is true, and none when *)
(* the parent thinks that the worker is free.  Hence the check of          *)
(* proc_send_cmd_ for a "bad child st" ("should never happen", afs.c:1178) *)
(* never fires.                                                            *)
InChild(s) == s.pc \in {"run", "done", "reply"}

OneBaton ==
  \A w \in Procs : LET s == proc[w] IN
    /\ s.down + s.up <= 1
    /\ InChild(s) => s.down = 0 /\ s.up = 0
    /\ s.st = "avail" => s.down = 0 /\ s.up = 0 /\ ~InChild(s) /\ s.cst = "idle"

(* An answer belongs to the question: when the reply byte is there, the    *)
(* child has run exactly the command that the parent is waiting for and    *)
(* has stored its result, and the answer to the start-up probe is always a *)
(* success ("should never happen", afs.c:1062 and 1104).                   *)
AnswerIsForCmd ==
  \A w \in Procs : LET s == proc[w] IN
    s.up > 0 => /\ s.ran = s.cmd /\ s.res # "none"
                /\ s.st = "init_pend" => s.res = "ok"
                /\ s.st = "busy" => s.cmd # "none"

Updated(w) == proc[w].polled /\ ~proc'[w].polled

(* A successful write reports the length its caller asked for: "always     *)
(* equal to requested if not fail" (afs.c:23).                             *)
LenKept(w) ==
  Updated(w) => \A i \in DOMAIN proc'[w].evs : LET e == proc'[w].evs[i] IN
                  e.ok /\ e.cmd \in LenCmds => e.len = proc[w].asked

WriteLenAsRequested == [][\A w \in Procs : LenKept(w)]_vars

(* shared->cmd is never rewritten under a child that has been told to run  *)
(* it and has not answered, except when the child is destroyed.            *)
CmdKept(w) ==
  /\ proc[w].down > 0 \/ InChild(proc[w])
  /\ proc[w].pc # "zombie"
  /\ proc'[w].st # "uninit"
  => proc'[w].cmd = proc[w].cmd

CmdStable == [][\A w \in Procs : CmdKept(w)]_vars

(* A start or a command that was sent ends: the child answers, or its      *)
(* death is noticed.                                                       *)
Answered == \A w \in Procs : proc[w].st \in {"init_pend", "busy"} ~> proc[w].st \in {"avail", "uninit"}

(* A stop request ends with the child reaped, whatever the worker was at   *)
(* and whether or not the exit command reached the child.                  *)
StopCompletes == \A w \in Procs : proc[w].stop ~> proc[w].pc = "gone"

(***************************************************************************)
(* The promise that AfsRequest states, seen through the parent's state.    *)
(***************************************************************************)
Phase(s) == CASE s.st = "uninit"    -> "off"
              [] s.st = "init_pend" -> "starting"
              [] s.st = "avail"     -> "ready"
              [] s.st = "dead"      -> "broken"
              [] OTHER              -> s.cmd

Request == INSTANCE AfsRequest WITH
             phase <- [w \in Procs |-> Phase(proc[w])],
             out   <- [w \in Procs |-> proc[w].evs]

(* Every step of the handshake is a step of the promise: a command that    *)
(* proc_send_cmd_ accepted gets one event, for that command, before the    *)
(* next one is accepted, whatever the child and the poll results do.       *)
ImplementsRequest == Request!Spec
============================================================================
