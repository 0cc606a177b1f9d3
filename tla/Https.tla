------------------------------- MODULE Https -------------------------------
(***************************************************************************)
(* https.c: one HTTP request at a time over a curl multi handle.  curl     *)
(* tells the module which sockets to watch, and when to wake it, through   *)
(* callbacks that edit m->fds; the user polls that same array and hands it *)
(* back to https_update, which therefore walks an array that the callbacks *)
(* change under it.                                                        *)
(*                                                                         *)
(* libcurl, poll and timerfd are external.  Between its call and its       *)
(* return curl makes any callbacks, one per step, and a transfer ends with *)
(* any result at any of them.  After a callback that returned -1 it makes  *)
(* no other, and returns an error.                                         *)
(***************************************************************************)
EXTENDS Naturals, Sequences, FiniteSets

CONSTANTS Socks,       \* the sockets of curl
          MaxSocks,    \* bound of curl: how many it watches at a time, at most 10 (see README)
          fds_maxlen_, \* room in m->fds, 24 in the code
          Strats,      \* the stop strategies that the user sets
          AddFails,    \* TRUE: curl_multi_add_handle may fail
          HasTimeout   \* TRUE: the user has called https_set_timeout

ASSUME HttpsAssumption ==
  /\ IsFiniteSet(Socks) /\ "timerfd" \notin Socks
  /\ MaxSocks \in Nat /\ fds_maxlen_ \in Nat /\ fds_maxlen_ > MaxSocks
  /\ Strats \subseteq {"abort", "wait"} /\ AddFails \in BOOLEAN /\ HasTimeout \in BOOLEAN

VARIABLES st, stop_strat, is_stop_waiting, evs,
          fds,       \* m->fds as a whole, also beyond fds_len
          fds_len,
          curl,      \* the easy handle and what curl last said to watch
          at,        \* where the program is
          i, nfds,   \* of https_update
          user       \* what the user knows: "none", "ready", "stopping"

m == <<st, stop_strat, is_stop_waiting, evs>>
array == <<fds, fds_len>>
scan == <<i, nfds>>
vars == <<st, stop_strat, is_stop_waiting, evs, fds, fds_len, curl, at, i, nfds, user>>

Fds == Socks \cup {"timerfd"}
PollEvents == {"IN", "OUT", "INOUT"}
Entry(fd, events) == [fd |-> fd, events |-> events, fired |-> FALSE]
Unused == [fd |-> "none", events |-> "IN", fired |-> FALSE]
Entries == [fd : Fds \cup {"none"}, events : PollEvents, fired : BOOLEAN]

States == {"uninit", "just_init", "idle", "pend", "stopped", "err"}
EvTypes == {"init", "stopped", "req_fin", "req_fail"}
evs_maxlen_ == 12

(* attached: in the multi handle; run: the transfer, or its CURLMSG_DONE   *)
(* that curl_multi_info_read has yet to return.                            *)
NoCurl == [attached |-> FALSE, run |-> "off", want |-> [s \in Socks |-> "no"],
           timer |-> FALSE, failed |-> FALSE]
----------------------------------------------------------------------------
(***************************************************************************)
(* The array of pollfds, as operators on [a: the array, n: its length]     *)
(***************************************************************************)
Array == [a |-> fds, n |-> fds_len]

find_fd_(f, fd) == {k \in 1..f.n : f.a[k].fd = fd}

(* Full: set_fd_add_overflow_, and nothing changes.                        *)
set_fd_(f, fd, events) ==
  IF find_fd_(f, fd) # {}
  THEN [f EXCEPT !.a = [k \in DOMAIN f.a |-> IF k \in find_fd_(f, fd) THEN [f.a[k] EXCEPT !.events = events]
                                                                        ELSE f.a[k]]]
  ELSE IF f.n = fds_maxlen_ THEN f
  ELSE [a |-> [f.a EXCEPT ![f.n + 1] = Entry(fd, events)], n |-> f.n + 1]

(* Mutant: the entries after it are not moved down.                        *)
DelTruncates(f, fd) == IF find_fd_(f, fd) = {} THEN f ELSE [f EXCEPT !.n = @ - 1]

(* The last entry stays in memory behind the new end.                      *)
del_fd_(f, fd) ==
  IF find_fd_(f, fd) = {} THEN f
  ELSE LET p == CHOOSE k \in find_fd_(f, fd) : TRUE
       IN  [a |-> [k \in DOMAIN f.a |-> IF p <= k /\ k < f.n THEN f.a[k + 1] ELSE f.a[k]], n |-> f.n - 1]

PutArray(f) == fds' = f.a /\ fds_len' = f.n

WatchedSocks == {s \in Socks : curl.want[s] # "no"}
Watched == WatchedSocks \cup (IF curl.timer THEN {"timerfd"} ELSE {})

(* curl_multi_remove_handle: sock_cb_ with CURL_POLL_REMOVE for what is    *)
(* watched, and timer_cb_ with -1.  What is left of the array is what is   *)
(* not watched, that is nothing (FdsInSync): where the deletions would     *)
(* move it, and what they leave behind the end, is not modelled.  The walk *)
(* of https_update does not go on after it.                                *)
Kept == {k \in 1..fds_len : fds[k].fd \notin Watched}
Removed == [a |-> fds, n |-> Cardinality(Kept)]
curl_multi_remove_handle == curl' = NoCurl /\ PutArray(Removed)
----------------------------------------------------------------------------
(***************************************************************************)
(* The calls of the user, who uses a module that https_init returned ok    *)
(* for, and calls https_stop after https_ev_stopped.                       *)
(***************************************************************************)
Calls == at = "calls" /\ user # "none"

(* A failed https_init leaves st at just_init; its user does not go on.    *)
https_init(ok) ==
  /\ at = "calls" /\ user = "none"
  /\ st' = "just_init" /\ stop_strat' = "wait" /\ is_stop_waiting' = FALSE /\ evs' = <<>>
  /\ curl' = NoCurl
  /\ fds_len' = IF ok THEN 0 ELSE fds_len
  /\ user' = IF ok THEN "ready" ELSE "none"
  /\ UNCHANGED <<fds, at, scan>>

https_set_stop_strat(s) ==
  /\ Calls /\ stop_strat' = s
  /\ UNCHANGED <<st, is_stop_waiting, evs, array, curl, at, scan, user>>

(* curl_multi_add_handle asks for a timeout at once.  Its result is not    *)
(* looked at.                                                              *)
https_req_json(added) ==
  /\ Calls /\ st = "idle" /\ ~is_stop_waiting
  /\ st' = "pend"
  /\ \/ /\ added
        /\ curl' = [curl EXCEPT !.attached = TRUE, !.run = "active", !.timer = TRUE]
        /\ PutArray(set_fd_(Array, "timerfd", "IN"))
     \/ ~added /\ UNCHANGED <<curl, array>>
  /\ UNCHANGED <<stop_strat, is_stop_waiting, evs, at, scan, user>>

StopAbort ==
  /\ stop_strat = "abort"
  /\ IF st = "pend" THEN curl_multi_remove_handle ELSE UNCHANGED <<curl, array>>
  /\ st' = "stopped" /\ is_stop_waiting' = FALSE

StopWait ==
  /\ stop_strat = "wait"
  /\ st' = IF ~is_stop_waiting /\ st # "pend" THEN "stopped" ELSE st
  /\ is_stop_waiting' = (is_stop_waiting \/ st = "pend")
  /\ UNCHANGED <<curl, array>>

https_stop_prep ==
  /\ Calls /\ (StopAbort \/ StopWait)
  /\ user' = "stopping"
  /\ UNCHANGED <<stop_strat, evs, at, scan>>

https_stop ==
  /\ Calls /\ st = "stopped" /\ "stopped" \in {evs[k] : k \in DOMAIN evs}
  /\ st' = "uninit" /\ curl' = NoCurl /\ user' = "none"
  /\ UNCHANGED <<stop_strat, is_stop_waiting, evs, array, at, scan>>
----------------------------------------------------------------------------
(***************************************************************************)
(* The loop: https_pollfds, poll if there is something to poll,            *)
(* https_update, https_events                                              *)
(***************************************************************************)
https_pollfds ==
  /\ Calls /\ nfds' = (IF st = "pend" THEN fds_len ELSE 0) /\ at' = "poll"
  /\ UNCHANGED <<m, array, curl, i, user>>

Listed(fd) == \E k \in 1..nfds : fds[k].fd = fd

(* poll() waits until a socket is ready or the timer fired.                *)
Poll(timer) ==
  /\ at = "poll" /\ (nfds > 0 /\ ~(\E s \in Socks : Listed(s)) => timer)
  /\ fds' = [k \in DOMAIN fds |-> IF k <= nfds THEN [fds[k] EXCEPT !.fired = timer /\ fds[k].fd = "timerfd"]
                                                 ELSE fds[k]]
  /\ at' = "update"
  /\ UNCHANGED <<m, fds_len, curl, scan, user>>

(* https_update returns, and its locals are gone.                          *)
Leave == at' = "calls" /\ i' = 1 /\ nfds' = 0

(* Mutants: the stop is not reported; the events of the last update are    *)
(* kept.                                                                   *)
UpdateHidesStop ==
  /\ at = "update"
  /\ st' = IF st = "just_init" THEN "idle" ELSE st
  /\ evs' = IF st = "just_init" THEN <<"init">> ELSE <<>>
  /\ IF st = "pend" THEN at' = "scan" /\ UNCHANGED scan ELSE Leave
  /\ UNCHANGED <<stop_strat, is_stop_waiting, array, curl, user>>
UpdateKeepsEvs ==
  /\ at = "update"
  /\ st' = IF st = "just_init" THEN "idle" ELSE st
  /\ evs' = CASE st = "stopped" -> Append(evs, "stopped") [] st = "just_init" -> Append(evs, "init") [] OTHER -> evs
  /\ IF st = "pend" THEN at' = "scan" /\ UNCHANGED scan ELSE Leave
  /\ UNCHANGED <<stop_strat, is_stop_waiting, array, curl, user>>

UpdateStart ==
  /\ at = "update"
  /\ st' = IF st = "just_init" THEN "idle" ELSE st
  /\ evs' = CASE st = "stopped" -> <<"stopped">> [] st = "just_init" -> <<"init">> [] OTHER -> <<>>
  /\ IF st = "pend" THEN at' = "scan" /\ UNCHANGED scan ELSE Leave
  /\ UNCHANGED <<stop_strat, is_stop_waiting, array, curl, user>>

(* fds[i] is read as it is now.  Every socket is handed to curl, whatever  *)
(* its revents.                                                            *)
Scan ==
  /\ at = "scan"
  /\ \/ i > nfds /\ Leave
     \/ i <= nfds /\ at' = (IF fds[i].fd # "timerfd" \/ fds[i].fired THEN "curl" ELSE "info") /\ UNCHANGED scan
  /\ UNCHANGED <<m, array, curl, user>>

req_fail_ == st' = "err" /\ evs' = Append(evs, "req_fail")

(* Mutants: the handle stays in the multi handle; a stop that waits is     *)
(* forgotten.                                                              *)
FinKeepsHandle ==
  /\ st' = IF is_stop_waiting THEN "stopped" ELSE "idle"
  /\ is_stop_waiting' = FALSE
  /\ evs' = Append(evs, "req_fin") \o (IF is_stop_waiting THEN <<"stopped">> ELSE <<>>)
  /\ curl' = [curl EXCEPT !.run = "off"] /\ UNCHANGED array
FinForgetsStop ==
  /\ st' = "idle" /\ is_stop_waiting' = FALSE /\ evs' = Append(evs, "req_fin")
  /\ curl_multi_remove_handle

(* CURLMSG_DONE with CURLE_OK: https_update returns.                       *)
Finished ==
  /\ st' = IF is_stop_waiting THEN "stopped" ELSE "idle"
  /\ is_stop_waiting' = FALSE
  /\ evs' = Append(evs, "req_fin") \o (IF is_stop_waiting THEN <<"stopped">> ELSE <<>>)
  /\ curl_multi_remove_handle

(* Mutant: a transfer that failed is taken for one that still runs.        *)
InfoSkipsFail ==
  /\ at = "info"
  /\ \/ curl.run = "ok" /\ Finished /\ Leave
     \/ /\ curl.run # "ok"
        /\ curl' = [curl EXCEPT !.run = IF @ = "fail" THEN "off" ELSE @]
        /\ at' = "scan" /\ i' = i + 1 /\ UNCHANGED <<st, is_stop_waiting, evs, array, nfds>>
  /\ UNCHANGED <<stop_strat, user>>

(* curl_multi_info_read until it returns NULL.  After a failure the walk   *)
(* goes on.                                                                *)
Info ==
  /\ at = "info"
  /\ \/ curl.run = "ok" /\ Finished /\ Leave
     \/ /\ curl.run = "fail" /\ req_fail_
        /\ curl' = [curl EXCEPT !.run = "off"]
        /\ at' = "scan" /\ i' = i + 1 /\ UNCHANGED <<is_stop_waiting, array, nfds>>
     \/ /\ curl.run \notin {"ok", "fail"}
        /\ at' = "scan" /\ i' = i + 1 /\ UNCHANGED <<st, is_stop_waiting, evs, array, curl, nfds>>
  /\ UNCHANGED <<stop_strat, user>>
----------------------------------------------------------------------------
(***************************************************************************)
(* Inside curl_multi_socket_action                                         *)
(***************************************************************************)
sock_cb_(s, what) ==
  /\ at = "curl" /\ ~curl.failed /\ what # curl.want[s]
  /\ what # "no" => curl.run = "active"
  /\ what # "no" /\ curl.want[s] = "no" => Cardinality(WatchedSocks) < MaxSocks
  /\ curl' = [curl EXCEPT !.want[s] = what,
                          !.failed = @ \/ (IF what = "no" THEN find_fd_(Array, s) = {}
                                           ELSE find_fd_(Array, s) = {} /\ fds_len = fds_maxlen_)]
  /\ PutArray(IF what = "no" THEN del_fd_(Array, s) ELSE set_fd_(Array, s, what))
  /\ UNCHANGED <<m, at, scan, user>>

(* A full array is not noticed; timerfd_settime may fail.  A timeout that  *)
(* changes is told again.                                                  *)
timer_cb_(on, ok) ==
  /\ at = "curl" /\ ~curl.failed /\ (on \/ curl.timer)
  /\ curl' = [curl EXCEPT !.timer = on, !.failed = @ \/ ~ok]
  /\ PutArray(IF on THEN set_fd_(Array, "timerfd", "IN") ELSE del_fd_(Array, "timerfd"))
  /\ UNCHANGED <<m, at, scan, user>>

CurlDone(r) ==
  /\ at = "curl" /\ ~curl.failed /\ curl.run = "active" /\ curl' = [curl EXCEPT !.run = r]
  /\ UNCHANGED <<m, array, at, scan, user>>

(* curl leaves an active transfer with something to wait for, and with the *)
(* timer if it has a timeout.                                              *)
CurlReturn(cmres) ==
  /\ at = "curl" /\ (curl.failed => cmres # "ok")
  /\ \/ cmres # "ok"
     \/ curl.run # "active"
     \/ IF HasTimeout THEN curl.timer ELSE Watched # {}
  /\ \/ cmres = "ok" /\ at' = "info" /\ UNCHANGED <<st, evs, scan>>
     \/ cmres # "ok" /\ Leave /\ req_fail_
  /\ UNCHANGED <<stop_strat, is_stop_waiting, array, curl, user>>

Init ==
  /\ st = "uninit" /\ stop_strat = "wait" /\ is_stop_waiting = FALSE /\ evs = <<>>
  /\ fds = [k \in 1..fds_maxlen_ |-> Unused] /\ fds_len = 0
  /\ curl = NoCurl /\ at = "calls" /\ i = 1 /\ nfds = 0 /\ user = "none"

Call == \/ \E ok \in BOOLEAN : https_init(ok)
        \/ \E s \in Strats : https_set_stop_strat(s)
        \/ \E added \in {TRUE, ~AddFails} : https_req_json(added)
        \/ https_stop_prep \/ https_stop

Loop == https_pollfds \/ (\E timer \in BOOLEAN : Poll(timer)) \/ UpdateStart \/ Scan \/ Info

Callback == \/ \E s \in Socks, what \in PollEvents \cup {"no"} : sock_cb_(s, what)
            \/ \E on, ok \in BOOLEAN : timer_cb_(on, ok)

Done == \E r \in {"ok", "fail"} : CurlDone(r)
Return == \E cmres \in {"ok", "bad"} : CurlReturn(cmres)

Next == Call \/ Loop \/ Callback \/ Done \/ Return

Spec == Init /\ [][Next]_vars

(* The loop runs on when poll() returns, which it does when it has nothing *)
(* to poll or has the timer, while a socket may never be ready; curl       *)
(* returns; and a transfer that curl is called for again and again ends,   *)
(* if only by its timeout.                                                 *)
FairLoop ==
  \/ https_pollfds \/ UpdateStart \/ Scan \/ Info
  \/ nfds = 0 /\ Poll(FALSE)
  \/ Listed("timerfd") /\ Poll(TRUE)

FairSpec == Spec /\ WF_vars(FairLoop) /\ WF_vars(Return) /\ SF_vars(Done)
----------------------------------------------------------------------------
(***************************************************************************)
(* Properties                                                              *)
(***************************************************************************)

(* Every variable holds a value of its C type, and add_ev_ never overflows. *)
TypeOK ==
  /\ st \in States /\ stop_strat \in {"abort", "wait"} /\ is_stop_waiting \in BOOLEAN
  /\ evs \in Seq(EvTypes) /\ Len(evs) <= evs_maxlen_
  /\ fds \in [1..fds_maxlen_ -> Entries] /\ fds_len \in 0..fds_maxlen_
  /\ curl.want \in [Socks -> PollEvents \cup {"no"}] /\ curl.run \in {"off", "active", "ok", "fail"}
  /\ at \in {"calls", "poll", "update", "scan", "curl", "info"}
  /\ i \in 1..fds_maxlen_ + 1 /\ nfds \in 0..fds_maxlen_
  /\ user \in {"none", "ready", "stopping"}

(* m->fds is what curl asked to watch, entry for entry, whatever the       *)
(* callbacks add, change, remove and shift, also in the middle of          *)
(* https_update: "WTF" (https.c:401 and 418) is never printed, and         *)
(* timer_cb_, that does not look, never finds the array full.              *)
FdsInSync ==
  user # "none" =>
    /\ {fds[k].fd : k \in 1..fds_len} = Watched
    /\ \A k \in 1..fds_len : fds[k].fd \in Socks => fds[k].events = curl.want[fds[k].fd]
    /\ \A k, l \in 1..fds_len : fds[k].fd = fds[l].fd => k = l

(* Between requests nothing is left of the last one in curl: the handle is *)
(* out of the multi handle, so that the next curl_multi_add_handle does    *)
(* not find it added already, and no message or descriptor is left.        *)
IdleIsClean == user # "none" /\ st \in {"just_init", "idle"} => curl = NoCurl /\ fds_len = 0

(* After https_stop_prep no request is begun, with either strategy, also   *)
(* when the request that it waited for has finished.                       *)
NoReqAfterStop ==
  [][user = "stopping" /\ user' = "stopping" /\ curl'.attached => curl.attached]_vars

(* Every request that curl took ends with https_ev_req_fin,                *)
(* https_ev_req_fail or the stop that aborts it: https_update sees the end *)
(* of the transfer however the array moves under its walk.  One that curl  *)
(* refused (https.c:365 does not look) would stay pending.                 *)
ReqAnswered == st = "pend" /\ curl.attached ~> st # "pend"

StopSeen == user # "stopping" \/ "stopped" \in {evs[k] : k \in DOMAIN evs}

(* https_stop_prep is followed by https_ev_stopped, unless the request     *)
(* that it waits for fails or was never taken by curl.                     *)
StopReportedOrErr ==
  user = "stopping" ~> StopSeen \/ st = "err" \/ (st = "pend" /\ ~curl.attached)

(* https_stop_prep is followed by https_ev_stopped: the loop of the demo   *)
(* (https.c:667) ends with it and with nothing else.                       *)
StopReported == user = "stopping" ~> StopSeen
============================================================================
