------------------------------- MODULE Sensors -------------------------------
(***************************************************************************)
(* The sensors of accmag.c and matrix.c: a thread reads the device (the    *)
(* reader loop, or the matrix module's own thread) and sends what it reads *)
(* to the listeners on a list, which messages to the OSC thread change.    *)
(* Each sensor has its own list and mutex, so one is looked at at a time.  *)
(* The magnetometer is calibrated on the way: a message starts it, and     *)
(* instead of being sent the next samples are kept, one half of them with  *)
(* the field of the sensor inverted by a pulse.  No mutex is taken for     *)
(* that: a step below makes at most one store to what the two threads      *)
(* share, but for stores the other thread makes nothing of.  `raced' and   *)
(* `missed' are histories that tell what has gone wrong.  The matrix puts  *)
(* its frame together in a static buffer.                                  *)
(***************************************************************************)
EXTENDS Integers, Sequences, SequencesExt

CONSTANTS
    Listener,       \* the addresses that may listen
    MaxSamples,     \* bound on the samples a message asks for
    MaxCount,       \* bound: no sample is read when more are counted
    FrameSize,      \* BUFSIZE
    MaxShort        \* bound on the short reads in a row, and on their length

ASSUME SensorsAssumption ==
    /\ MaxSamples \in Nat \ {0} /\ MaxCount \in Nat /\ MaxCount >= MaxSamples
    /\ FrameSize \in Nat \ {0} /\ MaxShort \in 0..FrameSize

VARIABLES
    sensor,     \* which sensor this is
    listeners,  \* its list, the newest first
    lock,       \* who holds the list's mutex
    osc,        \* the OSC thread: where it is in a handler, and the message
    reader,     \* the thread that reads: where it is, the listener it sends to, those it has sent to
    state, samples, sample, first,  \* c_data of the magnetometer
    norm, inv,  \* its buffers: for each sample, what the field was when it was taken
    mem,        \* what the buffers' pointers point at; "wild" is for good: from then on the
                \* program has used memory that is not its own, or is about to
    pulse,      \* mag_pulse_state
    field,      \* what the pulses have made of the sensor's field
    next,       \* the field the device had when it took the sample it hands out next
    data,       \* dev_accmag_read's data: the field of the sample
    count,      \* ... and the count it has loaded
    missed,     \* history: a pulse has not come, and the field is not what the state says
    raced,      \* history: a message has stored its fields while samples were kept, or
                \* changed the buffers while the offset was calculated
    frame       \* the buffer of the matrix, its ptr, and was there a short read

samplesOf == <<state, samples, sample, first>>
buffers == <<norm, inv, mem>>
device == <<pulse, field, next>>
cal == <<samplesOf, buffers, device, data, count, missed, raced>>
vars == <<sensor, listeners, lock, osc, reader, cal, frame>>

Idle == [at |-> "idle", addr |-> "none", samples |-> 0]
Resting == [at |-> "idle", cur |-> "none", sent |-> <<>>]
Cells == 1..FrameSize
Empty == [buf |-> [i \in Cells |-> 0], ptr |-> 0, short |-> FALSE]

\* init_devices leaves norm and inv as malloc handed them out.
Init ==
    /\ sensor \in {"acc", "mag", "matrix"}
    /\ listeners = <<>> /\ lock = "free"
    /\ osc = Idle /\ reader = Resting
    /\ state = "C_no" /\ samples = 0 /\ sample = 0 /\ first = FALSE
    /\ norm = <<>> /\ inv = <<>> /\ mem \in {"null", "wild"}
    /\ pulse = "off" /\ field = "off" /\ next = "off"
    /\ data = "off" /\ count = 0
    /\ missed = FALSE /\ raced = FALSE
    /\ frame = Empty

-----------------------------------------------------------------------------
(* The OSC thread: listen and silence *)

\* The handlers take the address from the message, or its sender's.
Asked(at) ==
    /\ osc.at = "idle"
    /\ \E a \in Listener : osc' = [at |-> at, addr |-> a, samples |-> 0]
    /\ UNCHANGED <<sensor, listeners, lock, reader, cal, frame>>
Listen == Asked("listen")
Silence == Asked("silence")

\* Mutant of LockList: the mutex is not waited for.
LockListAtOnce ==
    /\ osc.at \in {"listen", "silence"}
    /\ lock' = "osc"
    /\ osc' = [osc EXCEPT !.at = IF @ = "listen" THEN "add" ELSE "del"]
    /\ UNCHANGED <<sensor, listeners, reader, cal, frame>>

LockList ==
    /\ osc.at \in {"listen", "silence"}
    /\ lock = "free" /\ lock' = "osc"
    /\ osc' = [osc EXCEPT !.at = IF @ = "listen" THEN "add" ELSE "del"]
    /\ UNCHANGED <<sensor, listeners, reader, cal, frame>>

\* Mutant of Place: the list is not searched for an address to be added.
PlaceOfDeleted(addr) ==
    IF osc.at = "add" THEN {} ELSE {i \in DOMAIN listeners : listeners[i] = addr}

Place(addr) == {i \in DOMAIN listeners : listeners[i] = addr}

LeaveList == lock' = "free" /\ osc' = Idle /\ UNCHANGED <<sensor, reader, cal, frame>>

\* add_listener: an address listens once, if there is memory.
AddListener ==
    /\ osc.at = "add" /\ LeaveList
    /\ \/ Place(osc.addr) = {} /\ listeners' = <<osc.addr>> \o listeners
       \/ UNCHANGED listeners

DelListener ==
    /\ osc.at = "del" /\ LeaveList
    /\ \/ Place(osc.addr) = {} /\ UNCHANGED listeners
       \/ \E i \in Place(osc.addr) : listeners' = RemoveAt(listeners, i)

-----------------------------------------------------------------------------
(* The OSC thread: calibrate *)

Calibrating == {"resize", "state", "samples", "sample"}

\* mag_calibrate_handler: refused while a calibration is under way.
Calibrate ==
    /\ sensor = "mag" /\ osc.at = "idle"
    /\ state = "C_no"
    /\ \E n \in 1..MaxSamples : osc' = [at |-> "resize", addr |-> "none", samples |-> n]
    /\ UNCHANGED <<sensor, listeners, lock, reader, cal, frame>>

OscGoes(at) == osc' = IF at = "idle" THEN Idle ELSE [osc EXCEPT !.at = at]

Zeros == [i \in 1..osc.samples |-> "zero"]

\* Mutant of Resize: the buffers are kept whatever their size.
ResizeNever ==
    /\ osc.at = "resize"
    /\ norm' = IF norm = <<>> THEN Zeros ELSE norm
    /\ inv' = IF inv = <<>> THEN Zeros ELSE inv
    /\ mem' = IF mem = "wild" THEN "wild" ELSE "live"
    /\ OscGoes("state")
    /\ raced' = (raced \/ reader.at = "offset")
    /\ UNCHANGED <<sensor, listeners, lock, reader, samplesOf, device, data, count, missed, frame>>

\* Buffers of the same size are cleared, others are freed and allocated anew.  When
\* that fails they are freed again, and the pointers stay.
Resize ==
    /\ osc.at = "resize"
    /\ \/ /\ norm' = Zeros /\ inv' = Zeros
          /\ mem' = IF mem = "wild" THEN "wild" ELSE "live"
          /\ OscGoes("state")
       \/ /\ samples # osc.samples \/ mem = "null"
          /\ mem' = "wild" /\ UNCHANGED <<norm, inv>>
          /\ OscGoes("idle")
    /\ raced' = (raced \/ reader.at = "offset")
    /\ UNCHANGED <<sensor, listeners, lock, reader, samplesOf, device, data, count, missed, frame>>

\* The stores of dev_accmag_calibrate_mag, in their order; the offset is left out.
SetState ==
    /\ osc.at = "state" /\ OscGoes("samples")
    /\ state' = "C_norm"
    /\ missed' = (missed /\ field # pulse)
    /\ UNCHANGED <<sensor, listeners, lock, reader, samples, sample, first, buffers, device, data,
                   count, raced, frame>>
SetSamples ==
    /\ osc.at = "samples" /\ OscGoes("sample")
    /\ samples' = osc.samples
    /\ UNCHANGED <<sensor, listeners, lock, reader, state, sample, first, buffers, device, data,
                   count, missed, raced, frame>>
SetSample ==
    /\ osc.at = "sample" /\ OscGoes("idle")
    /\ sample' = 0
    /\ UNCHANGED <<sensor, listeners, lock, reader, state, samples, first, buffers, device, data,
                   count, missed, raced, frame>>

-----------------------------------------------------------------------------
(* The reading thread: samples *)

ReaderGoes(at) == reader' = [reader EXCEPT !.at = at]

\* dev_accmag_read reads a sample.  The device hands out the one it took when it was
\* last read: that is why the first inverted one is skipped.
ReadSample ==
    /\ sensor # "matrix" /\ reader.at = "idle"
    /\ sample <= MaxCount
    /\ data' = next
    /\ next' = field
    /\ ReaderGoes("check")
    /\ UNCHANGED <<sensor, listeners, lock, osc, samplesOf, buffers, pulse, field, count, missed,
                   raced, frame>>

\* The state tells whether it is sent, or kept.
CheckState ==
    /\ reader.at = "check"
    /\ ReaderGoes(CASE state = "C_no" -> "lock"
                     [] state = "C_inv" /\ first -> "skip"
                     [] OTHER -> "copy")
    /\ raced' = (raced \/ (state # "C_no" /\ osc.at \in {"samples", "sample"}))
    /\ UNCHANGED <<sensor, listeners, lock, osc, samplesOf, buffers, device, data, count, missed, frame>>

\* Mutant of SkipFirst: the first inverted sample is kept.
SkipFirstNever ==
    /\ reader.at = "skip" /\ ReaderGoes("copy")
    /\ first' = FALSE
    /\ UNCHANGED <<sensor, listeners, lock, osc, state, samples, sample, buffers, device, data, count,
                   missed, raced, frame>>

SkipFirst ==
    /\ reader.at = "skip" /\ ReaderGoes("idle")
    /\ first' = FALSE
    /\ UNCHANGED <<sensor, listeners, lock, osc, state, samples, sample, buffers, device, data, count,
                   missed, raced, frame>>

\* memcpy: a sample out of the buffer falls on other memory.
Kept(b) == [i \in DOMAIN b |-> IF i = sample + 1 THEN data ELSE b[i]]
CopySample ==
    /\ reader.at = "copy" /\ ReaderGoes("count")
    /\ IF state = "C_norm" THEN norm' = Kept(norm) /\ UNCHANGED inv
                           ELSE inv' = Kept(inv) /\ UNCHANGED norm
    /\ mem' = IF sample < Len(IF state = "C_norm" THEN norm ELSE inv) THEN mem ELSE "wild"
    /\ UNCHANGED <<sensor, listeners, lock, osc, samplesOf, device, data, count, missed, raced, frame>>

\* ++sample is loaded, ...
LoadCount ==
    /\ reader.at = "count" /\ ReaderGoes("store")
    /\ count' = sample + 1
    /\ UNCHANGED <<sensor, listeners, lock, osc, samplesOf, buffers, device, data, missed, raced, frame>>

\* ... stored, ...
StoreCount ==
    /\ reader.at = "store" /\ ReaderGoes("idle")
    /\ count # samples
    /\ sample' = count
    /\ UNCHANGED <<sensor, listeners, lock, osc, state, samples, first, buffers, device, data, count,
                   missed, raced, frame>>

\* dev_accmag_toggle_magpulse: the state is turned whether the pulse comes or not.
Turned == IF pulse = "off" THEN "on" ELSE "off"
Toggle ==
    /\ pulse' = Turned
    /\ \/ field' = Turned /\ UNCHANGED missed
       \/ missed' = TRUE /\ UNCHANGED field

\* ... and when all are there, the other half begins, ...
EndNormal ==
    /\ reader.at = "store" /\ ReaderGoes("idle")
    /\ count = samples /\ state = "C_norm"
    /\ state' = "C_inv" /\ sample' = 0 /\ first' = TRUE
    /\ Toggle
    /\ UNCHANGED <<sensor, listeners, lock, osc, samples, buffers, next, data, count, raced, frame>>

\* ... or the calibration ends.
EndInverted ==
    /\ reader.at = "store" /\ ReaderGoes("offset")
    /\ count = samples /\ state # "C_norm"
    /\ state' = "C_no" /\ sample' = count
    /\ Toggle
    /\ UNCHANGED <<sensor, listeners, lock, osc, samples, first, buffers, next, data, count, raced, frame>>

\* dev_mag_calc_offset, when the state is C_no already.
CalcOffset ==
    /\ reader.at = "offset" /\ ReaderGoes("idle")
    /\ raced' = FALSE
    /\ UNCHANGED <<sensor, listeners, lock, osc, samplesOf, buffers, device, data, count, missed, frame>>

-----------------------------------------------------------------------------
(* The reading thread: frames *)

\* dev_matrix_read: n cells are put at ptr, whatever is left of the buffer.
Put(n) == [i \in Cells |-> IF i \in frame.ptr + 1 .. frame.ptr + n
                           THEN i - frame.ptr ELSE frame.buf[i]]
ReadShort ==
    /\ sensor = "matrix" /\ reader.at = "idle"
    /\ \E n \in 1 .. FrameSize - 1 :
          /\ frame.ptr + n <= MaxShort
          /\ frame' = [buf |-> Put(n), ptr |-> frame.ptr + n, short |-> TRUE]
    /\ UNCHANGED <<sensor, listeners, lock, osc, reader, cal>>

ReadFrame ==
    /\ sensor = "matrix" /\ reader.at = "idle"
    /\ frame' = [frame EXCEPT !.buf = Put(FrameSize)]
    /\ ReaderGoes("lock")
    /\ UNCHANGED <<sensor, listeners, lock, osc, cal>>

-----------------------------------------------------------------------------
(* The reading thread: sending *)

LockToSend ==
    /\ reader.at = "lock" /\ lock = "free"
    /\ lock' = "reader"
    /\ reader' = IF listeners = <<>> THEN [Resting EXCEPT !.at = "unlock"]
                 ELSE [at |-> "send", cur |-> Head(listeners), sent |-> <<>>]
    /\ UNCHANGED <<sensor, listeners, osc, cal, frame>>

\* The listeners behind l: what a freed one points at is not known.
Behind(l) == {listeners[i + 1] : i \in {j \in 1 .. Len(listeners) - 1 : listeners[j] = l}}
Send ==
    /\ reader.at = "send"
    /\ LET sent == Append(reader.sent, reader.cur)
       IN \/ /\ Behind(reader.cur) = {}
             /\ reader' = [at |-> "unlock", cur |-> "none", sent |-> sent]
          \/ \E l \in Behind(reader.cur) :
                 reader' = [at |-> "send", cur |-> l, sent |-> sent]
    /\ UNCHANGED <<sensor, listeners, lock, osc, cal, frame>>

\* Mutant of Unlock: the matrix goes on where it was in its buffer.
UnlockUncleared ==
    /\ reader.at = "unlock" /\ lock' = "free"
    /\ reader' = Resting
    /\ frame' = [frame EXCEPT !.short = FALSE]
    /\ UNCHANGED <<sensor, listeners, osc, cal>>

Unlock ==
    /\ reader.at = "unlock" /\ lock' = "free"
    /\ reader' = Resting
    /\ frame' = Empty
    /\ UNCHANGED <<sensor, listeners, osc, cal>>

-----------------------------------------------------------------------------
Next ==
    \/ Listen \/ Silence \/ LockList \/ AddListener \/ DelListener
    \/ Calibrate \/ Resize \/ SetState \/ SetSamples \/ SetSample
    \/ ReadSample \/ CheckState \/ SkipFirst \/ CopySample \/ LoadCount
    \/ StoreCount \/ EndNormal \/ EndInverted \/ CalcOffset
    \/ ReadShort \/ ReadFrame
    \/ LockToSend \/ Send \/ Unlock

Spec == Init /\ [][Next]_vars

-----------------------------------------------------------------------------
(* Properties *)

TypeOK ==
    /\ IsInjective(listeners) /\ ToSet(listeners) \subseteq Listener
    /\ lock \in {"free", "osc", "reader"}
    /\ osc.at \in {"idle", "listen", "silence", "add", "del"} \cup Calibrating
    /\ osc.addr \in Listener \cup {"none"} /\ osc.samples \in 0..MaxSamples
    /\ reader.at \in {"idle", "check", "skip", "copy", "count", "store", "offset",
                      "lock", "send", "unlock"}
    /\ state \in {"C_no", "C_norm", "C_inv"} /\ first \in BOOLEAN
    /\ samples \in 0..MaxSamples /\ sample \in Nat /\ count \in Nat
    /\ Len(norm) \in 0..MaxSamples /\ Len(inv) \in 0..MaxSamples
    /\ mem \in {"null", "live", "wild"}
    /\ {pulse, field, next, data} \subseteq {"off", "on"}
    /\ missed \in BOOLEAN /\ raced \in BOOLEAN
    /\ frame.ptr \in 0..MaxShort /\ \A i \in Cells : frame.buf[i] \in 0..FrameSize

\* What is read is sent to every listener of the moment, once, and no listener is
\* freed under the thread that sends to it.
SentToEveryListener ==
    /\ reader.at = "send" => reader.cur \in ToSet(listeners)
    /\ reader.at \in {"send", "unlock"} => IsPrefix(reader.sent, listeners)
    /\ reader.at = "unlock" => reader.sent = listeners

\* A sample is kept only in a buffer that has room for it, whatever sizes the
\* calibrations ask for and whenever they come, unless the message was between the
\* stores of its fields when a sample was to be kept, or there was no memory.  The
\* message may come between the reading of a sample and the check of the state, and
\* while the offset of the calibration before is calculated.
SamplesInBuffer ==
    reader.at = "copy" /\ ~raced /\ mem # "wild" =>
        mem = "live" /\ sample < Len(IF state = "C_norm" THEN norm ELSE inv)

\* The offset is calculated from samples with the field turned and from as many without,
\* but for the first of these, which the device may have taken before the last
\* calibration turned the field back: unless a pulse was missed, or a message raced.
CalibrationMeasures ==
    reader.at = "offset" /\ ~missed /\ ~raced /\ mem = "live" =>
        \A i \in 1 .. samples :
            /\ inv[i] = "on"
            /\ i > 1 => norm[i] = "off"

\* A short read of the matrix spoils the frame it belongs to and no other.
ShortReadSpoilsOneFrame ==
    sensor = "matrix" /\ reader.at \in {"send", "unlock"} /\ ~frame.short =>
        \A i \in Cells : frame.buf[i] = i
=============================================================================
