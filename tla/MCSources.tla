----------------------------- MODULE MCSources -----------------------------
(* Constants for the model-checking runs of Sources. *)
EXTENDS Sources

CONSTANTS c1, c2, c3, c4, main, udp, fd1, fd2

\* Three writers of two priorities, the two of light.c's device among them: they
\* share a descriptor, and one has the timer bit.  c4 has the timer bit alone.
MixedKind == [c \in {c1, c2, c3, c4} |->
    CASE c = c4 -> {"T"} [] c = c3 -> {"W", "T"} [] OTHER -> {"W"}]
MixedPrio == [c \in {c1, c2, c3, c4} |-> IF c = c3 THEN 2 ELSE 1]
MixedFd == [c \in {c1, c2, c3, c4} |-> IF c = c2 THEN fd2 ELSE fd1]
\* Each context is added by one thread only; both threads add, and one removes
\* what the other added, and what it added itself.
MixedCalls ==
    {<<udp, "add", c1>>, <<main, "add", c2>>, <<udp, "add", c3>>,
     <<main, "del", c1>>, <<main, "del", c2>>, <<main, "add", c4>>}

\* A reader and a timed writer.  A list has one context, so that no walk can
\* stand on a node that is removed.
OneOfEach == [c \in {c1, c2} |-> IF c = c1 THEN {"R"} ELSE {"W", "T"}]
OneOfEachCalls == {<<udp, "add", c2>>, <<main, "add", c1>>, <<main, "del", c1>>}

\* Two writers of one priority, as the contexts of two lights are.
TwoWriters == [c \in {c1, c2} |-> {"W"}]
SamePrio == [c \in {c1, c2} |-> 1]
OwnFds == [c \in {c1, c2} |-> IF c = c1 THEN fd1 ELSE fd2]
UdpAdds == {<<udp, "add", c1>>, <<udp, "add", c2>>}
=============================================================================
