------------------------------ MODULE CloudWait ------------------------------
(***************************************************************************)
(* The polling helpers of cloudmux pkg/cloudprovider/waitstatus.go, as     *)
(* operators over what the provider answers.  A resource is given by its   *)
(* timeline: status[t] is what Refresh reads at tick t, refresh[t] is      *)
(* "ok", "notfound" (ErrNotFound) or "error".  Refresh and the callbacks   *)
(* take no time; time.Sleep(interval) advances the clock by interval.      *)
(* A result is [res, polls, synced]: res is "nil", "error" or "timeout";   *)
(* polls are the ticks at which the loop body ran; synced the statuses     *)
(* handed to the sync callback, in order.                                  *)
(***************************************************************************)
EXTENDS Integers, Sequences

\* The loop all the helpers share: while time.Since(startTime) < timeout,
\* run the body at tick t; body[t] is "nil", "error" or "continue", and
\* sync[t] says whether the body hands the status to the sync callback.
RECURSIVE PollLoop(_, _, _, _, _, _, _)
PollLoop(body, sync, status, start, t, interval, timeout) ==
    IF t - start >= timeout
    THEN [res |-> "timeout", polls |-> <<>>, synced |-> <<>>]
    ELSE LET rest == IF body[t] = "continue"
                     THEN PollLoop(body, sync, status, start, t + interval, interval, timeout)
                     ELSE [res |-> body[t], polls |-> <<>>, synced |-> <<>>]
         IN [rest EXCEPT !.polls = <<t>> \o @,
                         !.synced = IF sync[t] THEN <<status[t]>> \o @ ELSE @]

\* The sync callback runs after every successful Refresh.
SyncOnRefresh(refresh) == [t \in DOMAIN refresh |-> refresh[t] = "ok"]
NoSync(refresh) == [t \in DOMAIN refresh |-> FALSE]

\* The sync argument: a sync callback runs after every successful Refresh;
\* a nil one (hasSync FALSE) never runs.
SyncCalls(hasSync, refresh) == IF hasSync THEN SyncOnRefresh(refresh) ELSE NoSync(refresh)

\* WaitMultiStatusWithSync (WaitMultiStatus passes a nil sync): a Refresh
\* error ends the wait, the status goes to sync, a status among expects
\* ends it with nil.
WaitMultiStatusWithSync(status, refresh, expects, hasSync, start, interval, timeout) ==
    LET body == [t \in DOMAIN refresh |-> CASE refresh[t] # "ok"      -> "error"
                                         [] status[t] \in expects  -> "nil"
                                         [] OTHER                  -> "continue"]
    IN PollLoop(body, SyncCalls(hasSync, refresh), status, start, start, interval, timeout)

\* WaitStatusWithSync: the one-status case.
WaitStatusWithSync(status, refresh, expect, hasSync, start, interval, timeout) ==
    WaitMultiStatusWithSync(status, refresh, {expect}, hasSync, start, interval, timeout)

\* WaitStatus: WaitStatusWithSync with a nil sync.
WaitStatus(status, refresh, expect, start, interval, timeout) ==
    WaitStatusWithSync(status, refresh, expect, FALSE, start, interval, timeout)

\* Mutant of WaitStatusWithDelay: the clock is started before the sleep,
\* so the delay eats into the timeout.
WaitStatusWithDelayEarlyClock(status, refresh, expect, delay, interval, timeout) ==
    LET body == [t \in DOMAIN refresh |-> CASE refresh[t] # "ok"      -> "error"
                                         [] status[t] = expect     -> "nil"
                                         [] OTHER                  -> "continue"]
    IN PollLoop(body, NoSync(refresh), status, 0, delay, interval, timeout)

\* WaitStatusWithDelay: time.Sleep(delay), then WaitStatus, whose clock
\* starts after the sleep.
WaitStatusWithDelay(status, refresh, expect, delay, interval, timeout) ==
    WaitStatus(status, refresh, expect, delay, interval, timeout)

\* WaitStatusWithInstanceErrorCheck: as WaitStatus, and errCheck, run when
\* the status is not the expected one, may end the wait with its error.
WaitStatusWithInstanceErrorCheck(status, refresh, expect, interval, timeout, errCheck) ==
    LET body == [t \in DOMAIN refresh |-> CASE refresh[t] # "ok"    -> "error"
                                         [] status[t] = expect   -> "nil"
                                         [] errCheck[t]          -> "error"
                                         [] OTHER                -> "continue"]
    IN PollLoop(body, NoSync(refresh), status, 0, 0, interval, timeout)

\* WaitDeletedWithDelay / WaitDeleted: ErrNotFound from Refresh is the
\* success, any other error ends the wait.
WaitDeletedWithDelay(status, refresh, delay, interval, timeout) ==
    LET body == [t \in DOMAIN refresh |-> CASE refresh[t] = "notfound" -> "nil"
                                         [] refresh[t] = "error"    -> "error"
                                         [] OTHER                   -> "continue"]
    IN PollLoop(body, NoSync(refresh), status, delay, delay, interval, timeout)

\* Wait: the callback's error ends the wait, its true ends it with nil;
\* answer[t] is "ok", "no" or "error".
Wait(answer, interval, timeout) ==
    LET body == [t \in DOMAIN answer |-> CASE answer[t] = "error" -> "error"
                                            [] answer[t] = "ok"    -> "nil"
                                            [] OTHER               -> "continue"]
    IN PollLoop(body, NoSync(answer), answer, 0, 0, interval, timeout)

\* WaitCreated: as Wait with a callback that cannot fail.
WaitCreated(answer, interval, timeout) ==
    LET body == [t \in DOMAIN answer |-> IF answer[t] THEN "nil" ELSE "continue"]
    IN PollLoop(body, NoSync(answer), answer, 0, 0, interval, timeout)
=============================================================================
