------------------------------- MODULE Driver -------------------------------
(***************************************************************************)
(* driver.Host: one conversation history, one system prompt file, streamed *)
(* model requests and one serial speech worker, all shared by the turns a  *)
(* policy runs on it.                                                      *)
(*                                                                         *)
(* The turn is the one that host.go's comments prescribe to a policy: it   *)
(* remembers the user's message, builds its window, sends it and speaks    *)
(* each segment of the answer as it is cut; it then remembers the answer,  *)
(* or takes the message back and drops the clips still queued.  Turns may  *)
(* overlap: nothing in the host keeps them apart, so Forget may take back  *)
(* the message of another turn and CancelQueued its clips.                 *)
(* The upstream answers with any lines it likes, or goes silent; the       *)
(* caller's context may be cancelled and the deadline may pass at any      *)
(* moment; the prompt file is edited meanwhile.                            *)
(*                                                                         *)
(* Text is a sequence of characters of five kinds: a letter, a full stop   *)
(* (a delimiter), a newline (a delimiter and blank), a space, and markup,  *)
(* which stands for whatever speechText takes out of a segment.            *)
(***************************************************************************)
EXTENDS Naturals, Sequences, FiniteSets, SequencesExt

CONSTANTS
    Turn,        \* the turns the policy runs
    Parallel,    \* bound: turns under way at once
    Texts,       \* the contents a chunk may carry
    MinSegment,  \* minSegmentChars
    QueueDepth,  \* capacity of the speech queue
    MaxLines,    \* bound: lines of one stream
    MaxEdits,    \* bound: edits of the prompt file
    None, Tester

Letters == {"letter", "stop", "newline", "space", "markup"}
Blanks  == {"newline", "space"}

ASSUME DriverConstants ==
    /\ Parallel \in Nat \ {0} /\ MinSegment \in Nat \ {0} /\ QueueDepth \in Nat \ {0}
    /\ MaxLines \in Nat /\ MaxEdits \in Nat
    /\ Texts \subseteq Seq(Letters) /\ <<>> \notin Texts
    /\ None \notin Turn /\ Tester \notin Turn \cup {None}

VARIABLES
    history,  \* Host.history: [role, turn]
    histMu,   \* holder of Host.histMu across file reads, or None
    file,     \* the prompt file: [mtime, text], text 0 when it cannot be read
    prompt,   \* promptFile: [loaded, modt, text]
    pc,       \* [Turn -> where the turn is]
    ctx,      \* [Turn -> "live" | "canceled" | "timeout"]
    window,   \* [Turn -> [prompt, msgs]]: what Context returned
    st,       \* [Turn -> streamState: content, buf, rest, lines, final, stat]
    segs,     \* [Turn -> the segments handed to onSegment]
    span,     \* [Turn -> "none" | "open" | the error.type it was ended with]
    ret,      \* [Turn -> error.type of the call, "" for success]
    queue,    \* speechQueue.ch
    playing,  \* the clip being rendered, or None
    tester,   \* "idle", "enqueue", "wait" or "back": one SpeakSync caller
    done,     \* whether the SpeakSync caller's clip has its done channel closed
    since     \* history: [Turn -> prompt texts the file has held since its read began]

hostVars   == <<history, histMu, prompt, since>>
callVars   == <<ctx, window, st, segs, span, ret>>
speechVars == <<queue, playing, tester, done>>
vars == <<hostVars, file, pc, callVars, speechVars>>

ErrTypes == {"timeout", "canceled", "transport", "status", "stream", "upstream", "decode",
             "empty", "other"}

Ended == {"done", "undone", "panicked"}

goto(t, p) == pc' = [pc EXCEPT ![t] = p]

----------------------------------------------------------------------------
(* Conversation memory and the system prompt. *)

NoStream == [content |-> <<>>, buf |-> <<>>, rest |-> <<>>, lines |-> 0, final |-> FALSE, stat |-> 0]

NoWindow == [prompt |-> 0, msgs |-> <<>>]

\* The turn is over and nothing of its call is kept.
endTurn(t, how) ==
    /\ goto(t, how)
    /\ ctx' = [ctx EXCEPT ![t] = "live"] /\ window' = [window EXCEPT ![t] = NoWindow]
    /\ st' = [st EXCEPT ![t] = NoStream] /\ segs' = [segs EXCEPT ![t] = <<>>]
    /\ span' = [span EXCEPT ![t] = "none"] /\ ret' = [ret EXCEPT ![t] = ""]

Message == [role : {"user", "assistant"}, turn : Turn]

Remember(role, t) == history' = Append(history, [role |-> role, turn |-> t])

\* Forget drops the last message, whoever remembered it.
Forget == history' = IF history = <<>> THEN history ELSE Front(history)

underWay == {t \in Turn : pc[t] \notin Ended \cup {"new"}}

mayBegin(t) == pc[t] = "new" /\ Cardinality(underWay) < Parallel

BeginTurn(t) ==
    /\ mayBegin(t) /\ histMu = None
    /\ Remember("user", t)
    /\ goto(t, "context")
    /\ UNCHANGED <<histMu, prompt, since, file, callVars, speechVars>>

\* Clear, at any moment: one that nobody is about to look for is one made just
\* before the next look.
Clear ==
    /\ histMu = None /\ history # <<>>
    /\ \E t \in Turn : mayBegin(t) \/ pc[t] \in {"context", "ok", "failed"}
    /\ history' = <<>>
    /\ UNCHANGED <<histMu, prompt, since, file, pc, callVars, speechVars>>

\* ContextFor: the user-context provider runs before the lock is taken.
ContextFor(t) ==
    /\ pc[t] = "context" /\ histMu = None
    /\ histMu' = t /\ since' = [since EXCEPT ![t] = {file.text}]
    /\ goto(t, "stat")
    /\ UNCHANGED <<history, prompt, file, callVars, speechVars>>

\* The messages array, and the lock given back.
assemble(t, text) ==
    /\ window' = [window EXCEPT ![t] = [prompt |-> text, msgs |-> history]]
    /\ histMu' = None
    /\ goto(t, "send")

\* promptFile.fail: the last good text, or the built-in default.
fail(p) == IF p.loaded THEN p.text ELSE 0

\* promptFile.get up to its read: the file is read only when its mtime moved.
StatPrompt(t) ==
    /\ pc[t] = "stat"
    /\ \/ /\ file.text = 0
          /\ assemble(t, fail(prompt)) /\ UNCHANGED st
       \/ /\ file.text # 0 /\ prompt.loaded /\ prompt.modt = file.mtime
          /\ assemble(t, prompt.text) /\ UNCHANGED st
       \/ /\ file.text # 0 /\ (prompt.loaded => prompt.modt # file.mtime)
          /\ st' = [st EXCEPT ![t].stat = file.mtime]
          /\ goto(t, "read") /\ UNCHANGED <<histMu, window>>
    /\ UNCHANGED <<history, prompt, since, file, ctx, segs, span, ret, speechVars>>

\* Fault: the mtime is taken after the read.
readThenStat(t) ==
    /\ pc[t] = "read"
    /\ prompt' = [loaded |-> TRUE, modt |-> file.mtime, text |-> st[t].stat + 1]
    /\ assemble(t, st[t].stat + 1)
    /\ st' = [st EXCEPT ![t].stat = 0]
    /\ UNCHANGED <<history, since, file, ctx, segs, span, ret, speechVars>>

\* ... and its read, kept under the mtime the stat saw.
ReadPrompt(t) ==
    /\ pc[t] = "read"
    /\ prompt' = IF file.text = 0 THEN prompt
                 ELSE [loaded |-> TRUE, modt |-> st[t].stat, text |-> file.text]
    /\ assemble(t, fail(prompt'))
    /\ st' = [st EXCEPT ![t].stat = 0]
    /\ UNCHANGED <<history, since, file, ctx, segs, span, ret, speechVars>>

\* The file is edited or made unreadable; every edit moves its mtime.  An edit
\* that nobody is about to look for is one made just before the next look.
EditPrompt(unreadable) ==
    /\ file.mtime < MaxEdits
    /\ \E t \in Turn : pc[t] \in {"context", "stat", "read"}
    /\ file' = [mtime |-> file.mtime + 1, text |-> IF unreadable THEN 0 ELSE file.mtime + 2]
    /\ since' = [t \in Turn |-> IF t = histMu THEN since[t] \cup {file'.text} ELSE since[t]]
    /\ UNCHANGED <<history, histMu, prompt, pc, callVars, speechVars>>

----------------------------------------------------------------------------
(* One model request. *)

\* streamErrorType: the context comes first.
streamErrorType(t, site) == IF ctx[t] # "live" THEN ctx[t] ELSE site

\* Fault: the span is ended with the value errType had when it was deferred.
endEarlyBound(t, errType) == span' = [span EXCEPT ![t] = "other"]

\* modelCall.end, from SendStreamContext's defer.
end(t, errType) == span' = [span EXCEPT ![t] = errType]

\* failed, and the call's return.
failed(t, site) ==
    /\ ret' = [ret EXCEPT ![t] = streamErrorType(t, site)]
    /\ end(t, streamErrorType(t, site))
    /\ goto(t, "failed")

\* An unknown tier, or a window that does not encode: no span, nothing sent.
RefuseSend(t) ==
    /\ pc[t] = "send"
    /\ ret' = [ret EXCEPT ![t] = "refused"]
    /\ since' = [since EXCEPT ![t] = {}] /\ goto(t, "failed")
    /\ UNCHANGED <<history, histMu, prompt, file, ctx, window, st, segs, span, speechVars>>

\* SendStreamContext: the span starts, and the deadline with it.
SendStreamContext(t) ==
    /\ pc[t] = "send"
    /\ span' = [span EXCEPT ![t] = "open"]
    /\ since' = [since EXCEPT ![t] = {}] /\ goto(t, "post")
    /\ UNCHANGED <<history, histMu, prompt, file, ctx, window, st, segs, ret, speechVars>>

\* postStreamRequest: an answer of 200, another status, or no answer.
PostAnswered(t) ==
    /\ pc[t] = "post"
    /\ \/ ctx[t] = "live" /\ goto(t, "stream") /\ UNCHANGED <<span, ret>>
       \/ \E site \in {"transport", "status"} : failed(t, site)
    /\ window' = [window EXCEPT ![t] = NoWindow]
    /\ UNCHANGED <<hostVars, file, ctx, st, segs, speechVars>>

\* The scanner's next line carries nothing to speak: blank, [DONE], reasoning,
\* a finish reason, the final usage.
SilentLine(t) ==
    /\ pc[t] = "stream" /\ st[t].lines < MaxLines
    /\ \/ ctx[t] = "live" /\ st' = [st EXCEPT ![t].lines = @ + 1] /\ UNCHANGED <<pc, span, ret>>
       \/ ctx[t] # "live" /\ failed(t, "stream") /\ UNCHANGED st
    /\ UNCHANGED <<hostVars, file, ctx, window, segs, speechVars>>

\* processSSELine: a chunk with content is appended whole, then cut.
ContentLine(t, text) ==
    /\ pc[t] = "stream" /\ st[t].lines < MaxLines
    /\ \/ /\ ctx[t] = "live"
          /\ st' = [st EXCEPT ![t].lines = @ + 1, ![t].content = @ \o text, ![t].rest = text]
          /\ goto(t, "fold") /\ UNCHANGED <<span, ret>>
       \/ ctx[t] # "live" /\ failed(t, "stream") /\ UNCHANGED st
    /\ UNCHANGED <<hostVars, file, ctx, window, segs, speechVars>>

\* A chunk that does not decode, or the upstream's error payload.
ErrorLine(t) ==
    /\ pc[t] = "stream" /\ st[t].lines < MaxLines
    /\ \E site \in {"decode", "upstream"} : failed(t, IF ctx[t] = "live" THEN site ELSE "stream")
    /\ UNCHANGED <<hostVars, file, ctx, window, st, segs, speechVars>>

blank(text) == Range(text) \subseteq Blanks

\* segmentAccumulator.write: whether the buffer is cut behind its last byte.
boundary(buf) == Last(buf) \in {"stop", "newline"} /\ Len(buf) >= MinSegment

\* Fault: a segment that was cut is handed on whatever became of the context.
emitAlways(t) == TRUE

\* streamChat's emit: nothing starts once ctx is done.
emit(t) == ctx[t] = "live"

\* One byte of the chunk; a segment cut behind it goes to onSegment.
FoldByte(t) ==
    LET buf  == Append(st[t].buf, Head(st[t].rest))
        rest == Tail(st[t].rest)
    IN  /\ pc[t] = "fold" /\ st[t].rest # <<>>
        /\ \/ /\ ~boundary(buf)
              /\ st' = [st EXCEPT ![t].buf = buf, ![t].rest = rest]
              /\ UNCHANGED <<pc, segs>>
           \/ /\ boundary(buf) /\ (blank(buf) \/ ~emit(t))
              /\ st' = [st EXCEPT ![t].buf = <<>>, ![t].rest = rest]
              /\ UNCHANGED <<pc, segs>>
           \/ /\ boundary(buf) /\ ~blank(buf) /\ emit(t)
              /\ st' = [st EXCEPT ![t].buf = <<>>, ![t].rest = rest]
              /\ segs' = [segs EXCEPT ![t] = Append(@, buf)]
              /\ goto(t, "speak")
        /\ UNCHANGED <<hostVars, file, ctx, window, span, ret, speechVars>>

FoldEnds(t) ==
    /\ pc[t] = "fold" /\ st[t].rest = <<>>
    /\ goto(t, "stream")
    /\ UNCHANGED <<hostVars, file, callVars, speechVars>>

\* The read fails by itself, or because ctx is done, whatever is buffered.
ReadFails(t) ==
    /\ pc[t] = "stream"
    /\ failed(t, "stream")
    /\ UNCHANGED <<hostVars, file, ctx, window, st, segs, speechVars>>

\* The call returns the whole answer.
succeed(t) ==
    /\ ret' = [ret EXCEPT ![t] = ""]
    /\ end(t, "")
    /\ goto(t, "ok")

\* Fault: what never met a delimiter is not flushed.
endWithoutFlush(t) ==
    /\ pc[t] = "stream" /\ ctx[t] = "live" /\ st[t].content # <<>>
    /\ st' = [st EXCEPT ![t].buf = <<>>]
    /\ succeed(t)
    /\ UNCHANGED <<hostVars, file, ctx, window, segs, speechVars>>

\* The stream ends: what is left in the buffer is the last segment.
StreamEnds(t) ==
    /\ pc[t] = "stream" /\ ctx[t] = "live"
    /\ \/ st[t].content = <<>> /\ failed(t, "empty") /\ UNCHANGED <<st, segs>>
       \/ /\ st[t].content # <<>> /\ blank(st[t].buf)
          /\ st' = [st EXCEPT ![t].buf = <<>>]
          /\ succeed(t) /\ UNCHANGED segs
       \/ /\ st[t].content # <<>> /\ ~blank(st[t].buf)
          /\ st' = [st EXCEPT ![t].buf = <<>>, ![t].final = TRUE]
          /\ segs' = [segs EXCEPT ![t] = Append(@, st[t].buf)]
          /\ goto(t, "speak") /\ UNCHANGED <<span, ret>>
    /\ UNCHANGED <<hostVars, file, ctx, window, speechVars>>

\* onSegment panics: the deferred end still runs, and the turn is lost.
SegmentPanics(t) ==
    /\ pc[t] = "speak"
    /\ end(t, "other") /\ ret' = [ret EXCEPT ![t] = "other"]
    /\ goto(t, "panicked")
    /\ UNCHANGED <<hostVars, file, ctx, window, st, segs, speechVars>>

CancelContext(t) ==
    /\ pc[t] \in {"context", "stat", "read", "send", "post", "stream", "fold", "speak"}
    /\ ctx[t] = "live"
    /\ ctx' = [ctx EXCEPT ![t] = "canceled"]
    /\ UNCHANGED <<hostVars, file, pc, window, st, segs, span, ret, speechVars>>

\* Fault: the timeout covers the wait for the response headers only.
timeoutHeaders(t) ==
    /\ pc[t] = "post" /\ ctx[t] = "live"
    /\ ctx' = [ctx EXCEPT ![t] = "timeout"]
    /\ UNCHANGED <<hostVars, file, pc, window, st, segs, span, ret, speechVars>>

\* sendTimeout, or an earlier deadline of the caller, passes.
Timeout(t) ==
    /\ pc[t] \in {"post", "stream", "fold", "speak"} /\ ctx[t] = "live"
    /\ ctx' = [ctx EXCEPT ![t] = "timeout"]
    /\ UNCHANGED <<hostVars, file, pc, window, st, segs, span, ret, speechVars>>

----------------------------------------------------------------------------
(* The speech queue and its worker. *)

Clip == Turn \cup {Tester}   \* whose clip it is

enqueue(clip) == Len(queue) < QueueDepth /\ queue' = Append(queue, clip)

\* Where onSegment returns to: the chunk's next byte, or the end of the call.
resume(t) == IF st[t].final THEN succeed(t) ELSE goto(t, "fold") /\ UNCHANGED <<span, ret>>

\* speechText: whether anything is left to say once the markup is taken out.
unsayable(text) == Range(text) \subseteq Blanks \cup {"markup"}

\* Speak: a segment with nothing to say is dropped; any other waits for room in
\* the queue, whatever becomes of the context meanwhile.
Speak(t) ==
    /\ pc[t] = "speak"
    /\ IF unsayable(Last(segs[t])) THEN UNCHANGED queue ELSE enqueue(t)
    /\ resume(t)
    /\ UNCHANGED <<hostVars, file, ctx, window, st, segs, playing, tester, done>>

\* SpeakSync, from a goroutine of its own.
SpeakSync ==
    /\ tester = "idle"
    /\ tester' = "enqueue"
    /\ UNCHANGED <<hostVars, file, pc, callVars, queue, playing, done>>

SyncEnqueues ==
    /\ tester = "enqueue"
    /\ enqueue(Tester)
    /\ tester' = "wait"
    /\ UNCHANGED <<hostVars, file, pc, callVars, playing, done>>

SyncReturns ==
    /\ tester = "wait" /\ done
    /\ tester' = "back" /\ done' = FALSE
    /\ UNCHANGED <<hostVars, file, pc, callVars, queue, playing>>

closeDone(clip) == done' = IF clip = Tester THEN TRUE ELSE done

TakeClip ==
    /\ playing = None /\ queue # <<>>
    /\ playing' = Head(queue) /\ queue' = Tail(queue)
    /\ UNCHANGED <<hostVars, file, pc, callVars, tester, done>>

\* synthesizeAndPlay returns, with the clip played or an error logged.
ClipEnds ==
    /\ playing # None
    /\ closeDone(playing)
    /\ playing' = None
    /\ UNCHANGED <<hostVars, file, pc, callVars, queue, tester>>

----------------------------------------------------------------------------
(* How the policy ends a turn. *)

RememberAnswer(t) ==
    /\ pc[t] = "ok" /\ histMu = None
    /\ Remember("assistant", t)
    /\ endTurn(t, "done")
    /\ UNCHANGED <<histMu, prompt, since, file, speechVars>>

RollBack(t) ==
    /\ pc[t] = "failed" /\ histMu = None
    /\ Forget
    /\ goto(t, "cancel")
    /\ UNCHANGED <<histMu, prompt, since, file, callVars, speechVars>>

\* cancelQueued takes the clips out one by one, as the worker does.
cancelQueued(t) ==
    /\ pc[t] = "cancel" /\ queue # <<>>
    /\ closeDone(Head(queue))
    /\ queue' = Tail(queue)
    /\ UNCHANGED <<hostVars, file, pc, callVars, playing, tester>>

CancelReturns(t) ==
    /\ pc[t] = "cancel" /\ queue = <<>>
    /\ endTurn(t, "undone")
    /\ UNCHANGED <<hostVars, file, speechVars>>

----------------------------------------------------------------------------
Init ==
    /\ history = <<>> /\ histMu = None
    /\ file \in [mtime : {0}, text : {0, 1}]
    /\ prompt = [loaded |-> FALSE, modt |-> 0, text |-> 0]
    /\ pc = [t \in Turn |-> "new"] /\ ctx = [t \in Turn |-> "live"]
    /\ window = [t \in Turn |-> NoWindow]
    /\ st = [t \in Turn |-> NoStream] /\ segs = [t \in Turn |-> <<>>]
    /\ span = [t \in Turn |-> "none"] /\ ret = [t \in Turn |-> ""]
    /\ queue = <<>> /\ playing = None /\ tester = "idle" /\ done = FALSE
    /\ since = [t \in Turn |-> {}]

\* What the goroutine of a turn does by itself.
CallStep(t) ==
    \/ ContextFor(t) \/ StatPrompt(t) \/ ReadPrompt(t) \/ SendStreamContext(t)
    \/ FoldByte(t) \/ FoldEnds(t) \/ Speak(t)
    \/ RememberAnswer(t) \/ RollBack(t) \/ cancelQueued(t) \/ CancelReturns(t)

\* What the upstream makes it do.
Upstream(t) ==
    \/ PostAnswered(t) \/ SilentLine(t) \/ ErrorLine(t) \/ ReadFails(t) \/ StreamEnds(t)
    \/ \E text \in Texts : ContentLine(t, text)

Worker == TakeClip \/ ClipEnds

Next ==
    \/ \E t \in Turn : \/ BeginTurn(t) \/ RefuseSend(t) \/ SegmentPanics(t)
                       \/ CallStep(t) \/ Upstream(t) \/ CancelContext(t) \/ Timeout(t)
    \/ Clear \/ (\E unreadable \in BOOLEAN : EditPrompt(unreadable))
    \/ SpeakSync \/ SyncEnqueues \/ SyncReturns
    \/ Worker

Spec == Init /\ [][Next]_vars

\* A request whose context is done fails by itself, whatever the upstream does.
FailsWhenDone(t) == ctx[t] # "live" /\ Upstream(t)

\* Goroutines run and the deadline passes.  Who waits for the queue or for
\* histMu gets his turn: senders on a channel are served in order, and a mutex
\* is handed to who starves for it.  Nothing is asked of the upstream, nor of
\* the clip that is playing: synthesis has a timeout, afplay has none.
Fairness ==
    /\ WF_vars(TakeClip) /\ SF_vars(SyncEnqueues) /\ WF_vars(SyncReturns)
    /\ \A t \in Turn : /\ SF_vars(CallStep(t))
                       /\ WF_vars(Timeout(t) \/ FailsWhenDone(t))

FairSpec == Spec /\ Fairness

----------------------------------------------------------------------------
(* Properties. *)

\* Conversation memory, the prompt file and what is kept of it.
HostTypes ==
    /\ history \in Seq(Message)
    /\ histMu \in Turn \cup {None}
    /\ file \in [mtime : 0..MaxEdits, text : Nat]
    /\ prompt \in [loaded : BOOLEAN, modt : Nat, text : Nat]
    /\ since \in [Turn -> SUBSET Nat]

Stream == [content : Seq(Letters), buf : Seq(Letters), rest : Seq(Letters),
           lines : 0..MaxLines, final : BOOLEAN, stat : Nat]

\* Each turn's request.
CallTypes ==
    /\ pc \in [Turn -> {"new", "context", "stat", "read", "send", "post", "stream", "fold", "speak",
                        "ok", "failed", "cancel"} \cup Ended]
    /\ ctx \in [Turn -> {"live", "canceled", "timeout"}]
    /\ window \in [Turn -> [prompt : Nat, msgs : Seq(Message)]]
    /\ st \in [Turn -> Stream]
    /\ segs \in [Turn -> Seq(Seq(Letters))]
    /\ span \in [Turn -> ErrTypes \cup {"none", "open", ""}]
    /\ ret \in [Turn -> ErrTypes \cup {"", "refused"}]

\* The queue keeps to its depth.
SpeechTypes ==
    /\ queue \in Seq(Clip) /\ Len(queue) <= QueueDepth
    /\ playing \in Clip \cup {None}
    /\ tester \in {"idle", "enqueue", "wait", "back"} /\ done \in BOOLEAN

\* The types of the state.
TypeOK == HostTypes /\ CallTypes /\ SpeechTypes

\* What of a text is heard: its characters that are not blank.
spoken(text) ==
    LET heard[i \in 0..Len(text)] ==
            IF i = 0 THEN <<>>
            ELSE IF text[i] \in Blanks THEN heard[i - 1]
            ELSE Append(heard[i - 1], text[i])
    IN  heard[Len(text)]

\* Nothing of the answer is lost or said twice between the chunks and the
\* segments, wherever the chunks were split: while the context is live, what
\* was cut and what is buffered make up what arrived (segmentAccumulator), and
\* an answer that is remembered has been handed to speech to its last letter.
AnswerIsWhole ==
    \A t \in Turn :
        /\ ctx[t] = "live" =>
              spoken(FlattenSeq(segs[t]) \o st[t].buf \o st[t].rest) = spoken(st[t].content)
        /\ pc[t] = "ok" => spoken(FlattenSeq(segs[t])) = spoken(st[t].content)

\* No onSegment call starts once the call's context is done, even for lines that
\* were already buffered (SendStreamContext).
NoSegmentAfterDone ==
    [][\A t \in Turn : ctx[t] # "live" => Len(segs'[t]) <= Len(segs[t])]_vars

\* A span is ended exactly when its call returns or panics, with that call's
\* outcome.
SpanTellsOutcome ==
    \A t \in Turn :
        /\ pc[t] \in {"post", "stream", "fold", "speak"} => span[t] = "open"
        /\ pc[t] \in {"ok", "failed", "cancel", "panicked"} /\ ret[t] # "refused" => span[t] = ret[t]

\* The prompt of a window was in the file at some moment of the call that built
\* it, if the file could be read throughout: an edit that lands between the stat
\* and the read is not missed (promptFile.get).
PromptIsFresh ==
    \A t \in Turn : pc[t] = "send" /\ 0 \notin since[t] => window[t].prompt \in since[t]

\* Everybody who waits on the host comes back, as long as every clip that plays
\* comes to its end: a call that was sent, whatever the upstream does (the
\* deadline ends a silent stream, a full speech queue drains), and a SpeakSync
\* caller, also when its clip is dropped.  A clip whose playback hangs holds up
\* both for good (playAudio runs afplay without a timeout, and enqueue does not
\* look at the context).
EveryCallReturns ==
    []<>(playing = None) => []<>(underWay = {} /\ tester \notin {"enqueue", "wait"})
============================================================================
