---------------------------- MODULE DownloadStream ----------------------------
(***************************************************************************)
(* One admitted download: its handler, the callbacks of the request's      *)
(* context and of the preparation deadline, and the response writer with   *)
(* its idle timer, which race to claim the cause the lease is released     *)
(* with.  An action is one critical section of DownloadAdmission.mu or     *)
(* IdleWriteWriter.mu together with the cancel calls that follow it.       *)
(*                                                                         *)
(* internal/httputil/download_admission.go, internal/httputil/idle_write.go*)
(***************************************************************************)
EXTENDS Naturals

CONSTANT MaxWrites          \* chunks of a response

WritesAssumption == MaxWrites \in Nat

VARIABLES
    pc,                     \* the handler
    gone, connDead,         \* the client left; the socket is unusable
    prep,                   \* the preparation context
    stream,                 \* the streaming context
    terminal, released, cause, preparing, writer,       \* DownloadAdmission
    parentCb, prepCb,       \* the two context.AfterFunc callbacks
    finished, failed, err,  \* IdleWriteWriter
    timer, gen, fired,      \* its timer: armed, generation, callback started
    interval, overdue,      \* progressDeadline: set, passed
    sockDeadline,           \* a write deadline is on the connection
    notify,                 \* the timer callback has yet to call onTimeout
    out, writes             \* what the client was sent

request == <<gone, connDead, prep>>
owner == <<stream, terminal, released, cause, preparing, writer, parentCb, prepCb>>
idle == <<finished, failed, err, timer, gen, fired, interval, overdue, sockDeadline, notify>>
vars == <<pc, request, owner, idle, out, writes>>

Causes == {"completed", "client_disconnect", "preparation_timeout", "idle_write_timeout",
           "storage_error", "response_error", "panic"}

\* AcquireDownloadAdmission, once the lease is granted.
Init ==
    /\ pc = "prepare"
    /\ gone = FALSE /\ connDead = FALSE /\ prep = "live"
    /\ stream = "none" /\ terminal = FALSE /\ released = FALSE /\ cause = "none"
    /\ preparing = TRUE /\ writer = FALSE
    /\ parentCb = "set" /\ prepCb = "set"
    /\ finished = FALSE /\ failed = FALSE /\ err = "none"
    /\ timer = FALSE /\ gen = 0 /\ fired = 0
    /\ interval = FALSE /\ overdue = FALSE /\ sockDeadline = FALSE /\ notify = FALSE
    /\ out = "none" /\ writes = 0

\* Every variable has its type.
TypeOK ==
    /\ pc \in {"prepare", "starting", "arm", "retire", "stream", "chunk", "socket", "progress",
               "finish", "finished", "render", "release", "panicking", "done"}
    /\ prep \in {"live", "expired", "cancelled"} /\ stream \in {"none", "live", "cancelled"}
    /\ gone \in BOOLEAN /\ connDead \in BOOLEAN
    /\ terminal \in BOOLEAN /\ released \in BOOLEAN /\ cause \in Causes \cup {"none"}
    /\ preparing \in BOOLEAN /\ writer \in BOOLEAN
    /\ parentCb \in {"set", "running", "off"} /\ prepCb \in {"set", "running", "off"}
    /\ finished \in BOOLEAN /\ failed \in BOOLEAN /\ err \in {"none", "timeout", "other"}
    /\ timer \in BOOLEAN /\ gen \in Nat /\ fired \in Nat
    /\ interval \in BOOLEAN /\ overdue \in BOOLEAN /\ sockDeadline \in BOOLEAN /\ notify \in BOOLEAN
    /\ out \in {"none", "body", "503", "empty200"} /\ writes \in Nat

-----------------------------------------------------------------------------
(* Claiming the cause *)

PrepDone == gone \/ prep # "live"
StreamDone == gone \/ stream = "cancelled"
Cancelled(ctx) == IF ctx = "live" THEN "cancelled" ELSE ctx
Off(cb) == IF cb = "set" THEN "off" ELSE cb

\* finishFailure: stop both callbacks and cancel both contexts.
finishFailure ==
    /\ parentCb' = Off(parentCb) /\ prepCb' = Off(prepCb)
    /\ prep' = Cancelled(prep) /\ stream' = Cancelled(stream)

\* claimFailureLocked and the cleanup of the winner: the first cause stays.
claimFailure(c) ==
    IF terminal \/ released
    THEN UNCHANGED <<owner, prep>>
    ELSE /\ terminal' = TRUE /\ cause' = c /\ preparing' = FALSE
         /\ finishFailure
         /\ UNCHANGED <<released, writer>>

\* An idle timeout replaces a client disconnect that was claimed meanwhile.
failIdleWriteTimeout ==
    IF terminal /\ ~released /\ cause = "client_disconnect"
    THEN cause' = "idle_write_timeout"
         /\ UNCHANGED <<stream, terminal, released, preparing, writer, parentCb, prepCb, prep>>
    ELSE claimFailure("idle_write_timeout")

\* A stream error is the timeout of the writer, a disconnect, or c.
FailStreamErrorWith(c, e) ==
    IF writer /\ e = "timeout" THEN failIdleWriteTimeout
    ELSE claimFailure(IF gone THEN "client_disconnect" ELSE c)

FailStreamError(c) == FailStreamErrorWith(c, err)

\* ReleasePreparationError: by the handler or by the deadline's callback.
ReleasePreparationError ==
    IF terminal \/ released \/ ~preparing THEN UNCHANGED <<owner, prep>>
    ELSE claimFailure(IF gone THEN "client_disconnect"
                      ELSE IF prep = "expired" THEN "preparation_timeout" ELSE "storage_error")

-----------------------------------------------------------------------------
(* The writer *)

\* failLocked: the first failure stops the timer and ends the interval.
failLocked(e) ==
    /\ failed' = TRUE /\ err' = e /\ gen' = gen + 1
    /\ timer' = FALSE /\ interval' = FALSE

\* fail in the handler: the owner is told before the context is cancelled.
failAndNotify(e) ==
    /\ failLocked(e)
    /\ IF e = "timeout" THEN failIdleWriteTimeout ELSE FailStreamErrorWith("response_error", e)
    /\ UNCHANGED <<finished, fired, overdue, notify>>

-----------------------------------------------------------------------------
(* The handler *)

\* Preparation fails by itself, or its context ends it.
PreparationError ==
    /\ pc = "prepare"
    /\ ReleasePreparationError
    /\ pc' = "finish"
    /\ UNCHANGED <<gone, connDead, idle, out, writes>>

\* What StartStreaming makes of a context that ended: no streaming.
ContextEnded ==
    IF gone THEN claimFailure("client_disconnect")
    ELSE claimFailure(IF prep = "expired" THEN "preparation_timeout" ELSE "storage_error")

\* StartStreaming, the first critical section.
StartStreaming ==
    /\ pc = "prepare"
    /\ \/ terminal /\ pc' = "finish" /\ UNCHANGED <<owner, prep>>
       \/ ~terminal /\ PrepDone /\ ContextEnded /\ pc' = "finish"
       \/ ~terminal /\ ~PrepDone /\ pc' = "starting" /\ UNCHANGED <<owner, prep>>
    /\ UNCHANGED <<gone, connDead, idle, out, writes>>

\* NewIdleWriteWriter probes the connection; the second critical section
\* looks at everything again and publishes the writer and the context.
StartStreamingSwitch ==
    /\ pc = "starting"
    /\ \/ connDead /\ claimFailure("response_error") /\ pc' = "finish"
       \/ ~connDead /\ terminal /\ pc' = "finish" /\ UNCHANGED <<owner, prep>>
       \/ ~connDead /\ ~terminal /\ PrepDone /\ ContextEnded /\ pc' = "finish"
       \/ /\ ~connDead /\ ~terminal /\ ~PrepDone
          /\ stream' = "live" /\ writer' = TRUE /\ preparing' = FALSE
          /\ pc' = "arm"
          /\ UNCHANGED <<terminal, released, cause, parentCb, prepCb, prep>>
    /\ UNCHANGED <<gone, connDead, idle, out, writes>>

\* The idle interval opens before the preparation deadline is retired.
StartIdleInterval ==
    /\ pc = "arm"
    /\ interval' = TRUE /\ timer' = TRUE /\ gen' = gen + 1
    /\ pc' = "retire"
    /\ UNCHANGED <<request, owner, finished, failed, err, fired, overdue, sockDeadline, notify, out, writes>>

\* stopPreparation and prepareCancel: only now the deadline is off.
RetirePreparation ==
    /\ pc = "retire"
    /\ prepCb' = Off(prepCb) /\ prep' = Cancelled(prep)
    /\ pc' = "stream"
    /\ UNCHANGED <<gone, connDead, stream, terminal, released, cause, preparing, writer, parentCb, idle, out, writes>>

\* The next chunk comes from storage, or there is none left.
ReadChunk ==
    /\ pc = "stream"
    /\ pc' \in (IF writes < MaxWrites THEN {"chunk", "finish"} ELSE {"finish"})
    /\ UNCHANGED <<request, owner, idle, out, writes>>

\* The read fails, as it does once the streaming context is cancelled.
ReadError ==
    /\ pc = "stream"
    /\ FailStreamError("storage_error")
    /\ pc' = "finish"
    /\ UNCHANGED <<gone, connDead, idle, out, writes>>

\* beforeWrite: the deadline of the interval goes onto the socket.
beforeWrite ==
    /\ pc = "chunk"
    /\ \/ /\ failed
          /\ FailStreamError("response_error")
          /\ pc' = "finish" /\ UNCHANGED idle
       \/ /\ ~failed /\ interval /\ overdue
          /\ failAndNotify("timeout")
          /\ pc' = "finish" /\ UNCHANGED sockDeadline
       \/ /\ ~failed /\ ~(interval /\ overdue) /\ connDead
          /\ failAndNotify("other")
          /\ pc' = "finish" /\ UNCHANGED sockDeadline
       \/ /\ ~failed /\ ~(interval /\ overdue) /\ ~connDead
          /\ timer' = FALSE /\ gen' = gen + 1 /\ sockDeadline' = TRUE
          /\ pc' = "socket"
          /\ UNCHANGED <<owner, prep, finished, failed, err, fired, interval, overdue, notify>>
    /\ UNCHANGED <<gone, connDead, out, writes>>

\* The write itself: sent, timed out on the socket deadline, or broken.
Write ==
    /\ pc = "socket"
    /\ \/ /\ ~connDead
          /\ out' = "body" /\ writes' = writes + 1
          /\ pc' = "progress" /\ UNCHANGED <<owner, prep, idle>>
       \/ /\ overdue
          /\ failAndNotify("timeout")
          /\ pc' = "finish" /\ UNCHANGED <<sockDeadline, out, writes>>
       \/ /\ connDead
          /\ failAndNotify("other")
          /\ pc' = "finish" /\ UNCHANGED <<sockDeadline, out, writes>>
    /\ UNCHANGED <<gone, connDead>>

\* progress: a fresh interval, and the socket deadline comes off.
progress ==
    /\ pc = "progress"
    /\ \/ /\ connDead
          /\ failAndNotify("other")
          /\ pc' = "finish" /\ UNCHANGED sockDeadline
       \/ /\ ~connDead
          /\ timer' = TRUE /\ gen' = gen + 1 /\ interval' = TRUE /\ overdue' = FALSE
          /\ sockDeadline' = FALSE
          /\ pc' = "stream"
          /\ UNCHANGED <<owner, prep, finished, failed, err, fired, notify>>
    /\ UNCHANGED <<gone, connDead, out, writes>>

\* FinishHandler meets a panic: the cause comes before the cleanup.
HandlerPanics ==
    /\ pc \in {"prepare", "stream", "chunk"}
    /\ claimFailure("panic")
    /\ pc' = "panicking"
    /\ UNCHANGED <<gone, connDead, idle, out, writes>>

\* Finish, first part: IdleWriteWriter.Finish takes the deadline off.
FinishWriter ==
    /\ pc \in {"finish", "panicking"}
    /\ pc' = IF pc = "finish" THEN "finished" ELSE "render"
    /\ IF writer
       THEN /\ finished' = TRUE /\ gen' = gen + 1 /\ timer' = FALSE /\ interval' = FALSE
            /\ IF connDead
               THEN /\ err' = IF err = "none" THEN "other" ELSE err
                    /\ IF err = "none" THEN FailStreamErrorWith("response_error", "other")
                                       ELSE UNCHANGED <<owner, prep>>
                    /\ UNCHANGED sockDeadline
               ELSE sockDeadline' = FALSE /\ UNCHANGED <<err, owner, prep>>
       ELSE UNCHANGED <<finished, gen, timer, interval, err, sockDeadline, owner, prep>>
    /\ UNCHANGED <<gone, connDead, failed, fired, overdue, notify, out, writes>>

\* Mutant: the handler's end is a completed download unless a callback says
\* otherwise.
finishCauseTrusting ==
    /\ pc = "finished"
    /\ claimFailure(IF gone THEN "client_disconnect" ELSE "completed")
    /\ pc' = "render"
    /\ UNCHANGED <<gone, connDead, idle, out, writes>>

\* finishCause(completed): the writer failed under its own mutex and its
\* callback may not have run yet.
finishCause ==
    /\ pc = "finished"
    /\ claimFailure(IF writer /\ err = "timeout" THEN "idle_write_timeout"
                    ELSE IF gone THEN "client_disconnect"
                    ELSE IF preparing /\ prep = "expired" THEN "preparation_timeout"
                    ELSE IF writer /\ err # "none" THEN "response_error"
                    ELSE "completed")
    /\ pc' = "render"
    /\ UNCHANGED <<gone, connDead, idle, out, writes>>

\* writeUnstartedFailure: a transfer that failed before its first byte.
writeUnstartedFailure ==
    /\ pc = "render"
    /\ out' = IF writer /\ out = "none" /\ cause \notin {"none", "completed", "client_disconnect", "panic"}
              THEN "503" ELSE out
    /\ pc' = "release"
    /\ UNCHANGED <<request, owner, idle, writes>>

\* releaseLease; Gin commits 200 for a streaming response nobody wrote to.
releaseLease ==
    /\ pc = "release"
    /\ released' = TRUE /\ terminal' = TRUE
    /\ cause' = IF terminal THEN cause ELSE "completed"
    /\ out' = IF writer /\ out = "none" THEN "empty200" ELSE out
    /\ pc' = "done"
    /\ UNCHANGED <<request, stream, preparing, writer, parentCb, prepCb, idle, writes>>

-----------------------------------------------------------------------------
(* Callbacks and the environment *)

\* failRequestCancellation.
ParentCancelled ==
    /\ parentCb = "running"
    /\ IF writer /\ err = "timeout"
       THEN /\ IF terminal /\ ~released /\ cause = "client_disconnect"
               THEN cause' = "idle_write_timeout" ELSE UNCHANGED cause
            /\ UNCHANGED <<terminal, preparing, prep, stream, prepCb>>
       ELSE IF terminal \/ released
            THEN UNCHANGED <<cause, terminal, preparing, prep, stream, prepCb>>
            ELSE /\ terminal' = TRUE /\ cause' = "client_disconnect" /\ preparing' = FALSE
                 /\ prep' = Cancelled(prep) /\ stream' = Cancelled(stream) /\ prepCb' = Off(prepCb)
    /\ parentCb' = "off"
    /\ UNCHANGED <<pc, gone, connDead, released, writer, idle, out, writes>>

\* preparationDone.
PreparationDone ==
    /\ prepCb = "running"
    /\ IF terminal \/ released \/ ~preparing
       THEN UNCHANGED <<cause, terminal, preparing, prep, stream, parentCb>>
       ELSE /\ terminal' = TRUE /\ preparing' = FALSE
            /\ cause' = IF gone THEN "client_disconnect"
                        ELSE IF prep = "expired" THEN "preparation_timeout" ELSE "storage_error"
            /\ prep' = Cancelled(prep) /\ stream' = Cancelled(stream) /\ parentCb' = Off(parentCb)
    /\ prepCb' = "off"
    /\ UNCHANGED <<pc, gone, connDead, released, writer, idle, out, writes>>

\* expire: only the callback of the current interval fails the writer.
expire ==
    /\ fired > 0 /\ fired' = 0
    /\ IF finished \/ failed \/ fired # gen
       THEN UNCHANGED <<failed, err, gen, timer, interval, notify>>
       ELSE failLocked("timeout") /\ notify' = TRUE
    /\ UNCHANGED <<pc, request, owner, finished, overdue, sockDeadline, out, writes>>

\* notifyFailure in the timer's goroutine: onTimeout, then cancel.
notifyFailure ==
    /\ notify /\ notify' = FALSE
    /\ IF terminal \/ released
       THEN /\ cause' = IF ~released /\ cause = "client_disconnect" THEN "idle_write_timeout" ELSE cause
            /\ stream' = Cancelled(stream)
            /\ UNCHANGED <<terminal, preparing, prep, parentCb, prepCb>>
       ELSE /\ terminal' = TRUE /\ cause' = "idle_write_timeout" /\ preparing' = FALSE
            /\ finishFailure
    /\ UNCHANGED <<pc, gone, connDead, released, writer, finished, failed, err, timer, gen, fired,
                   interval, overdue, sockDeadline, out, writes>>

Callback == ParentCancelled \/ PreparationDone \/ expire \/ notifyFailure

ClientLeaves ==
    /\ ~gone /\ pc # "done" /\ gone' = TRUE
    /\ parentCb' = IF parentCb = "set" THEN "running" ELSE parentCb
    /\ prepCb' = IF prepCb = "set" THEN "running" ELSE prepCb
    /\ UNCHANGED <<pc, connDead, prep, stream, terminal, released, cause, preparing, writer, idle, out, writes>>

ConnectionDies ==
    /\ ~connDead /\ pc # "done" /\ connDead' = TRUE
    /\ UNCHANGED <<pc, gone, prep, owner, idle, out, writes>>

PreparationDeadline ==
    /\ prep = "live" /\ ~gone
    /\ prep' = "expired"
    /\ prepCb' = IF prepCb = "set" THEN "running" ELSE prepCb
    /\ UNCHANGED <<pc, gone, connDead, stream, terminal, released, cause, preparing, writer, parentCb, idle, out, writes>>

\* The timer's goroutine starts with the generation it was armed for.
IdleDeadline ==
    /\ interval /\ ~overdue
    /\ overdue' = TRUE
    /\ fired' = IF timer THEN gen ELSE fired
    /\ UNCHANGED <<pc, request, owner, finished, failed, err, timer, gen, interval, sockDeadline, notify, out, writes>>

\* Storage and the network answer when they like, or never.
Unhurried ==
    \/ pc = "prepare" /\ (PreparationError \/ StartStreaming)
    \/ ReadChunk \/ ReadError \/ HandlerPanics

\* What the handler does by itself, and how it leaves a wait.
Handler ==
    \/ StartStreamingSwitch \/ StartIdleInterval \/ RetirePreparation
    \/ beforeWrite \/ progress \/ FinishWriter \/ finishCause \/ writeUnstartedFailure \/ releaseLease
    \/ PrepDone /\ (PreparationError \/ StartStreaming)
    \/ StreamDone /\ ReadError
    \/ (overdue \/ connDead) /\ Write

Next == Unhurried \/ Write \/ Handler \/ Callback
        \/ ClientLeaves \/ ConnectionDies \/ PreparationDeadline \/ IdleDeadline

Spec == Init /\ [][Next]_vars

-----------------------------------------------------------------------------
(* Properties *)

\* A streaming download that the server itself stopped before the first byte is
\* never answered with Gin's empty 200 while the client is there to read it,
\* whichever goroutine noticed first.
NoEmptySuccess ==
    out = "empty200" /\ ~gone => cause \in {"completed", "panic"}

\* A transfer its writer has killed is not accounted as completed, even when the
\* handler ends before the writer's callback has run.
KilledNotCompleted == released /\ failed => cause # "completed"

\* A keep-alive connection does not inherit the deadline of this response.
ConnectionLeftClean == pc = "done" /\ ~connDead => ~sockDeadline
=============================================================================
