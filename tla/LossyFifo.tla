----------------------------- MODULE LossyFifo ------------------------------
(***************************************************************************)
(* What the sig-first handoff promises its callers: a FIFO of bounded      *)
(* depth in which a newer item may displace the oldest one, but only when  *)
(* the FIFO was full at some moment since the newer item arrived, and      *)
(* which reports the end of the source only once it is empty.              *)
(***************************************************************************)
EXTENDS Naturals, Sequences

CONSTANT Capacity

VARIABLES
  queue,    \* items waiting, oldest first; items are numbered as they arrive
  put,      \* items accepted so far
  out,      \* items delivered, in order
  lost,     \* items displaced, in order
  pressed,  \* the FIFO has been found full since the last item was accepted
  end,      \* the error that ended the source, {} while it is live
  told      \* the errors reported to callers

fifoVars == <<queue, put, out, lost, pressed, end, told>>

Init ==
  /\ queue = <<>> /\ out = <<>> /\ lost = <<>>
  /\ put = 0
  /\ pressed = FALSE
  /\ end = {} /\ told = {}

Accept == put' = put + 1 /\ pressed' = FALSE /\ end = {}

Put ==
  /\ Accept
  /\ Len(queue) < Capacity
  /\ queue' = Append(queue, put')
  /\ UNCHANGED <<out, lost, end, told>>

Pass ==  \* straight to a waiting caller
  /\ Accept
  /\ queue = <<>>
  /\ out' = Append(out, put')
  /\ UNCHANGED <<queue, lost, end, told>>

Press ==
  /\ Len(queue) = Capacity
  /\ end = {}
  /\ pressed' = TRUE
  /\ UNCHANGED <<queue, put, out, lost, end, told>>

Displace ==
  /\ Accept
  /\ pressed
  /\ queue # <<>>
  /\ lost' = Append(lost, Head(queue))
  /\ queue' = Append(Tail(queue), put')
  /\ UNCHANGED <<out, end, told>>

Get ==
  /\ queue # <<>>
  /\ out' = Append(out, Head(queue))
  /\ queue' = Tail(queue)
  /\ UNCHANGED <<put, lost, pressed, end, told>>

End ==
  /\ end = {}
  /\ end' # {}
  /\ UNCHANGED <<queue, put, out, lost, pressed, told>>

Report ==
  /\ end # {}
  /\ queue = <<>>
  /\ told' = told \cup {end}
  /\ UNCHANGED <<queue, put, out, lost, pressed, end>>

Next == Put \/ Pass \/ Press \/ Displace \/ Get \/ End \/ Report

Spec == Init /\ [][Next]_fifoVars
=============================================================================
