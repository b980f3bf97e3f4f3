---------------------------- MODULE MCWriterPacing ----------------------------
(* Constants for the model-checking runs of WriterPacing.                     *)
EXTENDS WriterPacing

\* Three contexts, each on a descriptor of its own: the first on a device that is
\* always writable, as the lights are, with a period on either side of MaxWait;
\* the second, sometimes not paced, and sometimes with a period that a message made
\* negative, waits for its device; the third is a timer too.
MCCtx == {1, 2, 3}
OwnFd(c) == c
ThirdTimed(c) == c = 3
MCPeriods(c) == CASE c = 1 -> {1, 3} [] c = 2 -> {-1, 0, 2} [] c = 3 -> {2}
MCPrompt == {1}
=============================================================================
