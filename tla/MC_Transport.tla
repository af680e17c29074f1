---------------------------- MODULE MC_Transport ----------------------------
(* Small applications and the environments they run in; node a posts. *)
EXTENDS Transport

Request(op, n)  == [op |-> op, n |-> n, ack |-> TRUE, resp |-> 0]
Unsignaled(op, n) == [Request(op, n) EXCEPT !.ack = FALSE]
Read == [op |-> "read", n |-> 1, ack |-> TRUE, resp |-> 1]

\* Node a posts wrs and b as many receives; nothing is lost and no timer is on.
Posts(wrs, recvs) ==
    [wrs |-> [a |-> wrs, b |-> <<>>], recvs |-> [a |-> 0, b |-> recvs],
     timersOn |-> {}, postsLate |-> TRUE, maxLoss |-> 0, maxEarly |-> 0]

\* The timer of node a is on, at most so many packets or frames are lost, and
\* at most so many timeouts come while an answer is under way.
Lossy(wrs, losses, timeouts) ==
    [Posts(wrs, 0) EXCEPT !.timersOn = {"a"}, !.postsLate = FALSE, !.maxLoss = losses, !.maxEarly = timeouts]

Sends == <<Request("writeImm", 1), Request("send", 1), Request("sendImm", 1)>>

\* Two requests with a loss; one with a loss and an early timeout; one loss fewer than
\* retries.
LossyEnvs == {Lossy(<<Request("write", 2), Request("writeImm", 1)>>, 1, 0),
              Lossy(<<Request("write", 2)>>, 1, 1),
              Lossy(<<Unsignaled("write", 1), Request("write", 1)>>, 2, 0)}

\* The second packet of a request makes a window of one packet slide.
SlideEnvs == {Lossy(<<Request("write", 2)>>, 1, 0)}

\* Every kind of request; more packets, more messages and more unsignaled messages than
\* the windows hold; requests from both nodes; sends to a node whose own timer, which
\* nothing stops, runs out.
MessageEnvs == {Posts(<<Request("writeImm", 1), Request("sendImm", 1)>>, 1),
                Posts(<<Read, Request("write", 1)>>, 0),
                Posts(<<Request("write", 3), Request("write", 2)>>, 0),
                Posts(<<Request("write", 1), Request("write", 1), Request("write", 1)>>, 0),
                Posts(<<Unsignaled("write", 1), Unsignaled("write", 1), Request("write", 1)>>, 0),
                [Posts(<<Request("write", 2)>>, 0) EXCEPT !.wrs["b"] = <<Request("writeImm", 1)>>],
                [Posts(Sends, 2) EXCEPT !.timersOn = {"b"}]}

AllEnvs == LossyEnvs \cup MessageEnvs

TwoSendEnvs == {Posts(<<Request("send", 1), Request("sendImm", 1)>>, 2)}
PauseEnvs == {[Posts(<<Unsignaled("write", 1), Request("writeImm", 1)>>, 0) EXCEPT !.timersOn = Node]}
=============================================================================
