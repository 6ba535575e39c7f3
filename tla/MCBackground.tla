----------------------------- MODULE MCBackground -----------------------------
(* For TLC: the stream processor, the frame buffers and the watchdog, each of *)
(* them a background goroutine or a reader beside its users.  A behaviour is  *)
(* about one of them while the others rest.                                   *)
EXTENDS StreamBuffer, FrameBuffers, Watchdog

CONSTANT Parts
VARIABLE part
allVars == <<part, streamVars, frameVars, wdVars>>

BGInit == part \in Parts /\ StreamInit /\ FrameInit /\ WdInit

Stream(A) == part = "stream" /\ A /\ UNCHANGED <<part, frameVars, wdVars>>
Frames(A) == part = "frames" /\ A /\ UNCHANGED <<part, streamVars, wdVars>>
Dog(A)    == part = "watchdog" /\ A /\ UNCHANGED <<part, streamVars, frameVars>>
BGNext == Stream(StreamNext) \/ Frames(FrameNext) \/ Dog(WdNext)

(* Goroutines go on, a call of Stop or ReadFront is gone on with, and time    *)
(* passes; nobody has to write, to read, to stop or to feed.                  *)
BGSpec ==
  /\ BGInit /\ [][BGNext]_allVars
  /\ WF_allVars(Stream(ProcessLoop)) /\ WF_allVars(Stream(CloseBuffer \/ CloseChannel))
  /\ WF_allVars(Frames(ReadFrontGoesOn))
  /\ WF_allVars(Dog(MonitorLoop)) /\ WF_allVars(Dog(TimePasses))
===============================================================================
