---------------------------- MODULE SensorsProofs ----------------------------
(* The listeners, the calibration and the frames of the sensors, for any       *)
(* listeners, any number of samples and any size of a frame.                   *)
EXTENDS Sensors, SequenceTheorems, TLAPS

-----------------------------------------------------------------------------
(* The inductive invariant of the list *)

\* A listener is on the list once.
EachOnce(list) ==
    \A i, j \in 1 .. Len(list) : list[i] = list[j] => i = j

OscPlaces == {"idle", "listen", "silence", "add", "del"} \cup Calibrating
Capturing == {"skip", "copy", "count", "store"}
Apart == {"idle", "check", "offset", "lock"} \cup Capturing
ReaderPlaces == Apart \cup {"send", "unlock"}

Records ==
    /\ osc \in [at : OscPlaces, addr : Listener \cup {"none"}, samples : Nat]
    /\ reader \in [at : ReaderPlaces, cur : Listener \cup {"none"}, sent : Seq(Listener)]
    /\ osc.at \in {"listen", "silence", "add", "del"} => osc.addr \in Listener

\* The mutex is held by the thread that is at the list.
Locked ==
    /\ lock = "osc" <=> osc.at \in {"add", "del"}
    /\ lock = "reader" <=> reader.at \in {"send", "unlock"}

\* The reading thread is at a listener, and has sent to those before it.
SentBefore(n) ==
    /\ reader.cur = listeners[n]
    /\ Len(reader.sent) = n - 1
    /\ \A i \in 1 .. n - 1 : reader.sent[i] = listeners[i]

ListInv ==
    /\ listeners \in Seq(Listener) /\ EachOnce(listeners)
    /\ Records /\ Locked
    /\ reader.at = "send" => \E n \in 1 .. Len(listeners) : SentBefore(n)
    /\ reader.at = "unlock" => reader.sent = listeners

-----------------------------------------------------------------------------
LEMMA ListInit == Init => ListInv
  <1> SUFFICES ASSUME Init PROVE ListInv
    OBVIOUS
  <1>1. listeners = <<>> /\ lock = "free" /\ osc = Idle /\ reader = Resting
    BY DEF Init
  <1>2. <<>> \in Seq(Listener) /\ Len(<<>>) = 0
    OBVIOUS
  <1>3. Records
    BY <1>1, <1>2, SMT DEF Records, Idle, Resting, OscPlaces, ReaderPlaces, Apart
  <1>4. Locked /\ reader.at = "idle"
    BY <1>1, SMT DEF Locked, Idle, Resting
  <1>5. EachOnce(listeners)
    BY <1>1, <1>2, SMT DEF EachOnce
  <1> QED BY <1>1, <1>2, <1>3, <1>4, <1>5 DEF ListInv

LEMMA AddedOnce ==
    ASSUME NEW list \in Seq(Listener), EachOnce(list), NEW a \in Listener,
           \A i \in 1 .. Len(list) : list[i] # a
    PROVE  <<a>> \o list \in Seq(Listener) /\ EachOnce(<<a>> \o list)
  <1> DEFINE new == <<a>> \o list
  <1>1. /\ new \in Seq(Listener) /\ Len(new) = Len(list) + 1
        /\ \A i \in 1 .. Len(list) + 1 : new[i] = IF i <= 1 THEN a ELSE list[i - 1]
    BY ConcatProperties, SMT
  <1> HIDE DEF new
  <1>2. ASSUME NEW i \in 1 .. Len(new), NEW j \in 1 .. Len(new), new[i] = new[j]
        PROVE  i = j
    <2>1. Len(list) \in Nat /\ i \in 1 .. Len(list) + 1 /\ j \in 1 .. Len(list) + 1
      BY <1>1, SMT
    <2>2. CASE i = 1 \/ j = 1
      BY <2>1, <2>2, <1>1, <1>2, SMT
    <2>3. CASE i > 1 /\ j > 1
      <3>1. i - 1 \in 1 .. Len(list) /\ j - 1 \in 1 .. Len(list)
        BY <2>1, <2>3, SMT
      <3>2. list[i - 1] = list[j - 1]
        BY <2>1, <2>3, <1>1, <1>2, SMT
      <3> QED BY <3>1, <3>2, <2>1, SMT DEF EachOnce
    <2> QED BY <2>1, <2>2, <2>3, SMT
  <1> QED BY <1>1, <1>2 DEF new, EachOnce

LEMMA RemovedOnce ==
    ASSUME NEW list \in Seq(Listener), EachOnce(list), NEW n \in 1 .. Len(list)
    PROVE  RemoveAt(list, n) \in Seq(Listener) /\ EachOnce(RemoveAt(list, n))
  <1> DEFINE left == SubSeq(list, 1, n - 1)
  <1> DEFINE right == SubSeq(list, n + 1, Len(list))
  <1> DEFINE new == left \o right
  <1>1. \A i \in 1 .. Len(list) : list[i] \in Listener
    BY SMT
  <1>2. /\ left \in Seq(Listener) /\ Len(left) = n - 1
        /\ \A i \in 1 .. n - 1 : left[i] = list[i]
    <2>1. /\ left \in Seq(Listener)
          /\ Len(left) = IF 1 <= n - 1 THEN n - 1 - 1 + 1 ELSE 0
          /\ \A i \in 1 .. n - 1 - 1 + 1 : left[i] = list[1 + i - 1]
      BY <1>1, SubSeqProperties, SMT
    <2> HIDE DEF left
    <2> QED BY <2>1, SMT
  <1>3. /\ right \in Seq(Listener) /\ Len(right) = Len(list) - n
        /\ \A i \in 1 .. Len(list) - n : right[i] = list[n + i]
    <2>1. /\ right \in Seq(Listener)
          /\ Len(right) = IF n + 1 <= Len(list) THEN Len(list) - (n + 1) + 1 ELSE 0
          /\ \A i \in 1 .. Len(list) - (n + 1) + 1 : right[i] = list[n + 1 + i - 1]
      BY <1>1, SubSeqProperties, SMT
    <2> HIDE DEF right
    <2> QED BY <2>1, SMT
  <1> HIDE DEF left, right
  <1>4. /\ new \in Seq(Listener) /\ Len(new) = Len(list) - 1
        /\ \A i \in 1 .. Len(list) - 1 :
               new[i] = IF i <= n - 1 THEN list[i] ELSE list[i + 1]
    <2>1. /\ new \in Seq(Listener) /\ Len(new) = Len(left) + Len(right)
          /\ \A i \in 1 .. Len(left) + Len(right) :
                 new[i] = IF i <= Len(left) THEN left[i] ELSE right[i - Len(left)]
      BY <1>2, <1>3, ConcatProperties
    <2> HIDE DEF new
    <2>2. Len(list) \in Nat /\ n \in Nat /\ 1 <= n /\ n <= Len(list)
      BY SMT
    <2>3. Len(left) + Len(right) = Len(list) - 1
      BY <2>2, <1>2, <1>3, SMT
    <2>4. ASSUME NEW i \in 1 .. Len(list) - 1
          PROVE  new[i] = IF i <= n - 1 THEN list[i] ELSE list[i + 1]
      <3>1. CASE i <= n - 1
        BY <3>1, <2>1, <2>2, <2>3, <1>2, SMT
      <3>2. CASE i > n - 1
        <4>1. Len(left) = n - 1
          BY <1>2
        <4>2. i \in 1 .. Len(left) + Len(right) /\ ~(i <= Len(left))
          BY <3>2, <4>1, <2>2, <2>3, SMT
        <4>3. new[i] = right[i - Len(left)]
          BY <4>2, <2>1
        <4>4. i - (n - 1) \in 1 .. Len(list) - n /\ n + (i - (n - 1)) = i + 1
          BY <3>2, <2>2, SMT
        <4>5. right[i - (n - 1)] = list[i + 1]
          BY <4>4, <1>3
        <4>6. ~(i <= n - 1)
          BY <3>2, <2>2, SMT
        <4> QED BY <4>1, <4>3, <4>5, <4>6
      <3> QED BY <3>1, <3>2, <2>2, SMT
    <2> QED BY <2>1, <2>3, <2>4
  <1> HIDE DEF new
  <1>5. EachOnce(new)
    BY <1>4, SMT DEF EachOnce
  <1> QED BY <1>4, <1>5 DEF RemoveAt, new, left, right

-----------------------------------------------------------------------------
(* Every step keeps it *)

\* Steps of the OSC thread that are not at the list, before and after.
LEMMA OscStep ==
    ASSUME ListInv, NEW o \in [at : OscPlaces, addr : Listener \cup {"none"}, samples : Nat],
           osc' = o, UNCHANGED <<listeners, lock, reader>>,
           osc.at \notin {"add", "del"}, o.at \notin {"add", "del"},
           o.at \in {"listen", "silence"} => o.addr \in Listener
    PROVE  ListInv'
  <1>1. Records' /\ Locked'
    BY SMT DEF ListInv, Records, Locked
  <1> QED BY <1>1 DEF ListInv, SentBefore

LEMMA AskedKeeps == ListInv /\ (Listen \/ Silence) => ListInv'
  <1> SUFFICES ASSUME ListInv, NEW at \in {"listen", "silence"}, Asked(at) PROVE ListInv'
    BY DEF Listen, Silence
  <1>1. PICK a \in Listener : osc' = [at |-> at, addr |-> a, samples |-> 0]
    BY DEF Asked
  <1>2. [at |-> at, addr |-> a, samples |-> 0]
            \in [at : OscPlaces, addr : Listener \cup {"none"}, samples : Nat]
    BY SMT DEF OscPlaces
  <1>3. osc.at = "idle" /\ UNCHANGED <<listeners, lock, reader>>
    BY DEF Asked
  <1> QED BY <1>1, <1>2, <1>3, OscStep, SMT

LEMMA LockListKeeps == ListInv /\ LockList => ListInv'
  <1> SUFFICES ASSUME ListInv, LockList PROVE ListInv'
    OBVIOUS
  <1>1. /\ osc.at \in {"listen", "silence"} /\ lock = "free" /\ lock' = "osc"
        /\ osc' = [osc EXCEPT !.at = IF @ = "listen" THEN "add" ELSE "del"]
        /\ UNCHANGED <<listeners, reader>>
    BY DEF LockList
  <1>2. Records' /\ osc'.at \in {"add", "del"}
    BY <1>1, SMT DEF ListInv, Records, OscPlaces
  <1>3. Locked' /\ reader.at \notin {"send", "unlock"}
    BY <1>1, <1>2, SMT DEF ListInv, Locked
  <1> QED BY <1>1, <1>2, <1>3 DEF ListInv

LEMMA ChangeListKeeps == ListInv /\ (AddListener \/ DelListener) => ListInv'
  <1> SUFFICES ASSUME ListInv, AddListener \/ DelListener PROVE ListInv'
    OBVIOUS
  <1>1. /\ osc.at \in {"add", "del"} /\ lock' = "free" /\ osc' = Idle /\ reader' = reader
    BY DEF AddListener, DelListener, LeaveList
  <1>2. osc.addr \in Listener /\ reader.at \notin {"send", "unlock"}
    BY <1>1, SMT DEF ListInv, Records, Locked
  <1>3. listeners' \in Seq(Listener) /\ EachOnce(listeners')
    <2>1. CASE Place(osc.addr) = {} /\ listeners' = <<osc.addr>> \o listeners
      <3>1. \A i \in 1 .. Len(listeners) : listeners[i] # osc.addr
        BY <2>1, SMT DEF Place, ListInv
      <3> QED BY <2>1, <3>1, <1>2, AddedOnce DEF ListInv
    <2>2. CASE \E i \in Place(osc.addr) : listeners' = RemoveAt(listeners, i)
      <3>1. PICK i \in Place(osc.addr) : listeners' = RemoveAt(listeners, i)
        BY <2>2
      <3>2. i \in 1 .. Len(listeners)
        BY <3>1, SMT DEF Place, ListInv
      <3> QED BY <3>1, <3>2, RemovedOnce DEF ListInv
    <2>3. CASE UNCHANGED listeners
      BY <2>3 DEF ListInv
    <2> QED BY <2>1, <2>2, <2>3 DEF AddListener, DelListener
  <1>4. Records' /\ Locked'
    BY <1>1, <1>2, SMT DEF ListInv, Records, Locked, Idle, OscPlaces
  <1> QED BY <1>1, <1>2, <1>3, <1>4 DEF ListInv

LEMMA CalibrationKeeps ==
    ListInv /\ (Calibrate \/ Resize \/ SetState \/ SetSamples \/ SetSample) => ListInv'
  <1> SUFFICES ASSUME ListInv, Calibrate \/ Resize \/ SetState \/ SetSamples \/ SetSample
               PROVE  ListInv'
    OBVIOUS
  <1> DEFINE Osc == [at : OscPlaces, addr : Listener \cup {"none"}, samples : Nat]
  <1>1. UNCHANGED <<listeners, lock, reader>> /\ osc.at \notin {"add", "del"}
    BY SMT DEF Calibrate, Resize, SetState, SetSamples, SetSample
  <1>2. osc' \in Osc /\ osc'.at \in {"idle"} \cup Calibrating
    <2>1. ASSUME NEW at \in {"idle"} \cup Calibrating, OscGoes(at)
          PROVE  osc' \in Osc /\ osc'.at \in {"idle"} \cup Calibrating
      BY <2>1, SMT DEF OscGoes, Idle, ListInv, Records, OscPlaces, Calibrating
    <2>2. CASE Calibrate
      <3>1. PICK n \in 1 .. MaxSamples :
                osc' = [at |-> "resize", addr |-> "none", samples |-> n]
        BY <2>2 DEF Calibrate
      <3>2. n \in Nat
        BY <3>1, SMT, SensorsAssumption
      <3> QED BY <3>1, <3>2, SMT DEF OscPlaces, Calibrating
    <2>3. CASE Resize
      <3>1. OscGoes("state") \/ OscGoes("idle")
        BY <2>3 DEF Resize
      <3> QED BY <2>1, <3>1, SMT DEF Calibrating
    <2>4. CASE SetState \/ SetSamples \/ SetSample
      <3>1. OscGoes("samples") \/ OscGoes("sample") \/ OscGoes("idle")
        BY <2>4 DEF SetState, SetSamples, SetSample
      <3> QED BY <2>1, <3>1, SMT DEF Calibrating
    <2> QED BY <2>2, <2>3, <2>4
  <1> QED BY <1>1, <1>2, OscStep, SMT DEF Calibrating

\* Steps of the reading thread that are not at the list.
LEMMA ReaderStep ==
    ASSUME ListInv, NEW at \in Apart,
           reader.at \notin {"send", "unlock"},
           reader' = reader \/ ReaderGoes(at),
           UNCHANGED <<listeners, lock, osc>>
    PROVE  ListInv'
  <1>1. at \in ReaderPlaces /\ at \notin {"send", "unlock"}
    BY DEF ReaderPlaces, Apart, Capturing
  <1>2. reader'.at \notin {"send", "unlock"}
    BY <1>1, SMT DEF ReaderGoes, ListInv, Records
  <1> HIDE DEF ReaderPlaces
  <1>3. reader' \in [at : ReaderPlaces, cur : Listener \cup {"none"}, sent : Seq(Listener)]
    BY <1>1, SMT DEF ReaderGoes, ListInv, Records
  <1>4. Records' /\ Locked'
    BY <1>2, <1>3 DEF ListInv, Records, Locked
  <1> QED BY <1>2, <1>4 DEF ListInv

\* The steps that read the device, and those that keep a sample.
Reading == ReadSample \/ CheckState \/ ReadShort \/ ReadFrame
Keeping ==
    SkipFirst \/ CopySample \/ LoadCount \/ StoreCount \/ EndNormal \/ EndInverted \/ CalcOffset

LEMMA ReadingKeeps == ListInv /\ (Reading \/ Keeping) => ListInv'
  <1> SUFFICES ASSUME ListInv, Reading \/ Keeping PROVE ListInv'
    OBVIOUS
  <1>1. UNCHANGED <<listeners, lock, osc>> /\ reader.at \notin {"send", "unlock"}
    BY DEF Reading, Keeping, ReadSample, CheckState, ReadShort, ReadFrame, SkipFirst, CopySample,
           LoadCount, StoreCount, EndNormal, EndInverted, CalcOffset
  <1>2. reader' = reader \/ \E at \in Apart : ReaderGoes(at)
    <2>1. CASE CheckState
      BY <2>1, Zenon DEF CheckState, Apart, Capturing
    <2>2. CASE ReadShort
      BY <2>2 DEF ReadShort
    <2>3. CASE ReadSample \/ ReadFrame
      BY <2>3, Zenon DEF ReadSample, ReadFrame, Apart
    <2>4. CASE Keeping
      BY <2>4, Zenon DEF Keeping, SkipFirst, CopySample, LoadCount, StoreCount, EndNormal,
                         EndInverted, CalcOffset, Apart, Capturing
    <2> QED BY <2>1, <2>2, <2>3, <2>4 DEF Reading
  <1>3. CASE reader' = reader
    BY <1>1, <1>3, ReaderStep DEF Apart
  <1>4. CASE \E at \in Apart : ReaderGoes(at)
    <2>1. PICK at \in Apart : ReaderGoes(at)
      BY <1>4
    <2> QED BY <1>1, <2>1, ReaderStep
  <1> QED BY <1>2, <1>3, <1>4

LEMMA LockToSendKeeps == ListInv /\ LockToSend => ListInv'
  <1> SUFFICES ASSUME ListInv, LockToSend PROVE ListInv'
    OBVIOUS
  <1>1. /\ reader.at = "lock" /\ lock = "free" /\ lock' = "reader"
        /\ UNCHANGED <<listeners, osc>>
    BY DEF LockToSend
  <1>2. listeners \in Seq(Listener) /\ <<>> \in Seq(Listener) /\ Len(<<>>) = 0
    BY DEF ListInv
  <1>3. CASE listeners = <<>>
    <2>1. reader' = [at |-> "unlock", cur |-> "none", sent |-> <<>>]
      BY <1>3 DEF LockToSend, Resting
    <2>2. Records' /\ Locked'
      BY <1>1, <1>2, <2>1, SMT DEF ListInv, Records, Locked, ReaderPlaces, Apart
    <2> QED BY <1>1, <1>3, <2>1, <2>2 DEF ListInv
  <1>4. CASE listeners # <<>>
    <2>1. reader' = [at |-> "send", cur |-> Head(listeners), sent |-> <<>>]
      BY <1>4 DEF LockToSend
    <2>2. /\ Len(listeners) >= 1 /\ 1 \in 1 .. Len(listeners)
          /\ Head(listeners) = listeners[1] /\ Head(listeners) \in Listener
      BY <1>2, <1>4, SMT
    <2>3. Records' /\ Locked'
      BY <1>1, <1>2, <2>1, <2>2, SMT DEF ListInv, Records, Locked, ReaderPlaces, Apart
    <2>4. SentBefore(1)'
      BY <1>1, <1>2, <2>1, <2>2, SMT DEF SentBefore
    <2>5. (\E n \in 1 .. Len(listeners) : SentBefore(n))'
      BY <1>1, <2>2, <2>4
    <2> QED BY <1>1, <2>1, <2>3, <2>5 DEF ListInv
  <1> QED BY <1>3, <1>4

\* The listener behind the one at a place is the one at the next place.
LEMMA BehindIsNext ==
    ASSUME ListInv, NEW n \in 1 .. Len(listeners)
    PROVE  Behind(listeners[n]) = IF n = Len(listeners) THEN {} ELSE {listeners[n + 1]}
  <1>1. \A i, j \in 1 .. Len(listeners) : listeners[i] = listeners[j] => i = j
    BY DEF ListInv, EachOnce
  <1>2. Len(listeners) \in Nat
    BY SMT DEF ListInv
  <1> DEFINE Places == {j \in 1 .. Len(listeners) - 1 : listeners[j] = listeners[n]}
  <1>3. Places = IF n = Len(listeners) THEN {} ELSE {n}
    BY <1>1, <1>2, SMT
  <1>4. Behind(listeners[n]) = {listeners[i + 1] : i \in Places}
    BY DEF Behind
  <1> HIDE DEF Places
  <1> QED BY <1>3, <1>4

LEMMA SendKeeps == ListInv /\ Send => ListInv'
  <1> SUFFICES ASSUME ListInv, Send PROVE ListInv'
    OBVIOUS
  <1> DEFINE sent == Append(reader.sent, reader.cur)
  <1>1. reader.at = "send" /\ UNCHANGED <<listeners, lock, osc>>
    BY DEF Send
  <1>2. PICK n \in 1 .. Len(listeners) : SentBefore(n)
    BY <1>1 DEF ListInv
  <1>3. listeners \in Seq(Listener) /\ Len(listeners) \in Nat /\ listeners[n] \in Listener
    BY SMT DEF ListInv
  <1>4. reader.cur = listeners[n] /\ reader.sent \in Seq(Listener) /\ Len(reader.sent) = n - 1
    BY <1>2 DEF SentBefore, ListInv, Records
  <1>5. /\ sent \in Seq(Listener) /\ Len(sent) = n
        /\ \A i \in 1 .. n : sent[i] = listeners[i]
    <2>1. /\ sent \in Seq(Listener) /\ Len(sent) = Len(reader.sent) + 1
          /\ \A i \in 1 .. Len(reader.sent) : sent[i] = reader.sent[i]
          /\ sent[Len(reader.sent) + 1] = reader.cur
      BY <1>3, <1>4, AppendProperties
    <2> HIDE DEF sent
    <2>2. n \in Nat /\ Len(reader.sent) + 1 = n
      BY <1>3, <1>4, SMT
    <2>3. ASSUME NEW i \in 1 .. n PROVE sent[i] = listeners[i]
      <3>1. CASE i = n
        BY <3>1, <2>1, <2>2, <1>4
      <3>2. CASE i # n
        BY <3>2, <2>1, <2>2, <1>2, <1>4, SMT DEF SentBefore
      <3> QED BY <3>1, <3>2
    <2> QED BY <2>1, <2>2, <2>3
  <1> HIDE DEF sent
  <1>6. CASE n = Len(listeners)
    <2>1. Behind(reader.cur) = {}
      BY <1>4, <1>6, BehindIsNext
    <2>2. reader' = [at |-> "unlock", cur |-> "none", sent |-> sent]
      BY <2>1 DEF Send, sent
    <2>3. sent = listeners
      BY <1>3, <1>5, <1>6, SeqEqual
    <2>4. Records' /\ Locked'
      BY <1>1, <1>5, <2>2, SMT DEF ListInv, Records, Locked, ReaderPlaces, Apart
    <2> QED BY <1>1, <2>2, <2>3, <2>4 DEF ListInv
  <1>7. CASE n # Len(listeners)
    <2>1. n + 1 \in 1 .. Len(listeners) /\ listeners[n + 1] \in Listener
      BY <1>3, <1>7, SMT
    <2>2. Behind(reader.cur) = {listeners[n + 1]}
      BY <1>4, <1>7, BehindIsNext
    <2>3. reader' = [at |-> "send", cur |-> listeners[n + 1], sent |-> sent]
      BY <2>2 DEF Send, sent
    <2>4. Records' /\ Locked'
      BY <1>1, <1>5, <2>1, <2>3, SMT DEF ListInv, Records, Locked, ReaderPlaces, Apart
    <2>5. SentBefore(n + 1)'
      BY <1>1, <1>3, <1>5, <2>3, SMT DEF SentBefore
    <2>6. (\E k \in 1 .. Len(listeners) : SentBefore(k))'
      BY <1>1, <2>1, <2>5
    <2> QED BY <1>1, <2>3, <2>4, <2>6 DEF ListInv
  <1> QED BY <1>6, <1>7

LEMMA UnlockKeeps == ListInv /\ Unlock => ListInv'
  <1> SUFFICES ASSUME ListInv, Unlock PROVE ListInv'
    OBVIOUS
  <1>1. /\ reader.at = "unlock" /\ lock' = "free" /\ reader' = Resting
        /\ UNCHANGED <<listeners, osc>>
    BY DEF Unlock
  <1>2. osc.at \notin {"add", "del"}
    BY <1>1, SMT DEF ListInv, Locked
  <1>3. <<>> \in Seq(Listener)
    OBVIOUS
  <1>4. Records' /\ Locked'
    BY <1>1, <1>2, <1>3, SMT DEF ListInv, Records, Locked, ReaderPlaces, Apart, Resting
  <1> QED BY <1>1, <1>4, SMT DEF ListInv, Resting

LEMMA ListStep == ListInv /\ [Next]_vars => ListInv'
  <1>1. ListInv /\ UNCHANGED vars => ListInv'
    BY DEF ListInv, vars, Records, Locked, SentBefore
  <1> QED BY <1>1, AskedKeeps, LockListKeeps, ChangeListKeeps, CalibrationKeeps,
             ReadingKeeps, LockToSendKeeps, SendKeeps, UnlockKeeps DEF Next, Reading, Keeping

LEMMA ListServes == ListInv => SentToEveryListener
  <1> SUFFICES ASSUME ListInv PROVE SentToEveryListener
    OBVIOUS
  <1>1. listeners \in Seq(Listener) /\ reader.sent \in Seq(Listener)
    BY DEF ListInv, Records
  <1>2. ASSUME reader.at = "send"
        PROVE  reader.cur \in ToSet(listeners) /\ IsPrefix(reader.sent, listeners)
    <2>1. PICK n \in 1 .. Len(listeners) : SentBefore(n)
      BY <1>2 DEF ListInv
    <2>2. Len(reader.sent) <= Len(listeners) /\ Len(reader.sent) \in Nat /\ n \in Nat
      BY <1>1, <2>1, SMT DEF SentBefore
    <2>3. reader.cur \in ToSet(listeners)
      BY <1>1, <2>1, SMT DEF SentBefore, ToSet
    <2>4. \A i \in 1 .. Len(reader.sent) : reader.sent[i] = listeners[i]
      BY <2>1 DEF SentBefore
    <2> QED BY <1>1, <2>2, <2>3, <2>4, SMT DEF IsPrefix
  <1>3. ASSUME reader.at = "unlock" PROVE IsPrefix(reader.sent, listeners)
    BY <1>1, <1>3, SMT DEF IsPrefix, ListInv
  <1> QED BY <1>2, <1>3 DEF SentToEveryListener, ListInv

\* Every listener of the moment gets what is read, once, and none is freed under the
\* thread that sends to it (SentToEveryListener): add_listener, del_listener and the
\* sending loops of dev_accmag_read and dev_matrix_read.
THEOREM ListenersServed == Spec => []SentToEveryListener
  <1>1. Init => ListInv
    BY ListInit
  <1>2. ListInv /\ [Next]_vars => ListInv'
    BY ListStep
  <1>3. ListInv => SentToEveryListener
    BY ListServes
  <1> QED BY <1>1, <1>2, <1>3, PTL DEF Spec

-----------------------------------------------------------------------------
(* The inductive invariant of the calibration *)

Stored == {"zero", "off", "on"}
Fields == {"off", "on"}
States == {"C_no", "C_norm", "C_inv"}

CalTypes ==
    /\ osc.samples \in 0 .. MaxSamples
    /\ osc.at \in Calibrating => osc.samples >= 1
    /\ state \in States /\ first \in BOOLEAN
    /\ samples \in 0 .. MaxSamples /\ sample \in Nat /\ count \in Nat
    /\ norm \in Seq(Stored) /\ Len(norm) \in 0 .. MaxSamples
    /\ inv \in Seq(Stored) /\ Len(inv) \in 0 .. MaxSamples
    /\ mem \in {"null", "live", "wild"}
    /\ pulse \in Fields /\ field \in Fields /\ next \in Fields /\ data \in Fields
    /\ missed \in BOOLEAN /\ raced \in BOOLEAN

\* The message is between the stores of its fields; it has stored the state, not the rest.
Storing == osc.at \in {"state", "samples", "sample"}
Torn == osc.at \in {"samples", "sample"}

\* Nothing has raced, or what has ends with the calibration.
Clean == ~raced \/ reader.at = "offset"

\* A message is past the check of the state in C_no alone; the reading thread keeps a
\* sample in the other states, and then no message but one that races is about.
Turns ==
    /\ osc.at \in {"resize", "state"} => state = "C_no"
    /\ reader.at \in Capturing => state # "C_no"
    /\ reader.at \in Capturing \ {"skip"} => state = "C_norm" \/ ~first
    /\ reader.at \in Capturing /\ ~raced => ~Torn
    /\ reader.at = "offset" => state # "C_inv"
    /\ reader.at = "offset" /\ ~raced => state = "C_no" /\ ~Storing
    /\ Torn /\ Clean => state # "C_inv"

\* The buffers have room for the samples asked for, and one of these is missing.
Fit ==
    /\ Storing \/ state # "C_no" => mem # "null"
    /\ mem # "wild" /\ Storing => Len(norm) = osc.samples /\ Len(inv) = osc.samples
    /\ mem = "live" /\ ~Storing => Len(norm) = samples /\ Len(inv) = samples
    /\ osc.at = "sample" => samples = osc.samples
    /\ Clean /\ ~Torn /\ state # "C_no" => sample < samples
    /\ reader.at = "store" /\ ~raced => count = sample + 1

\* The field is turned while inverted samples are read.
PulseInTime ==
    /\ pulse = "on" <=> state = "C_inv"
    /\ ~missed => field = pulse
    /\ reader.at \in {"check"} \cup Capturing => next = field

\* The samples in the buffers; the one that is copied is not counted yet.
Taken == IF reader.at \in {"count", "store"} THEN sample + 1 ELSE sample
NormalTo(n) == \A i \in 1 .. n : i > 1 => norm[i] = "off"
InvertedTo(n) == \A i \in 1 .. n : inv[i] = "on"

\* The sample the device hands out next is of that field, and the one that is read.
Hands(f) == next = f /\ (reader.at \in {"check", "copy"} => data = f)

Measured ==
    ~missed /\ mem = "live" =>
        /\ Clean /\ ~Torn /\ state = "C_norm" =>
               NormalTo(Taken) /\ (sample # 0 => Hands("off"))
        /\ Clean /\ ~Torn /\ state = "C_inv" =>
               /\ NormalTo(samples) /\ InvertedTo(Taken)
               /\ IF first THEN sample = 0 ELSE Hands("on")
        /\ reader.at = "offset" /\ ~raced => NormalTo(samples) /\ InvertedTo(samples)

CalInv == ListInv /\ CalTypes /\ Turns /\ Fit /\ PulseInTime /\ Measured

LEMMA CalInit == Init => CalInv
  <1> SUFFICES ASSUME Init PROVE CalInv
    OBVIOUS
  <1>1. ListInv
    BY ListInit
  <1>2. /\ osc.at = "idle" /\ osc.samples = 0 /\ reader.at = "idle"
        /\ state = "C_no" /\ samples = 0 /\ sample = 0 /\ first = FALSE
        /\ norm = <<>> /\ inv = <<>> /\ mem \in {"null", "wild"}
        /\ pulse = "off" /\ field = "off" /\ next = "off" /\ data = "off" /\ count = 0
        /\ missed = FALSE /\ raced = FALSE
    BY DEF Init, Idle, Resting
  <1>3. norm \in Seq(Stored) /\ Len(norm) = 0 /\ inv \in Seq(Stored) /\ Len(inv) = 0
    BY <1>2, SMT
  <1>4. CalTypes
    <2>1. osc.at \notin Calibrating /\ MaxSamples \in Nat
      BY <1>2, SensorsAssumption, SMT DEF Calibrating
    <2>2. 0 \in 0 .. MaxSamples
      BY <2>1, SMT
    <2> QED BY <1>2, <1>3, <2>1, <2>2 DEF CalTypes, States, Fields
  <1>5. Turns /\ Fit /\ PulseInTime
    BY <1>2, SMT DEF Turns, Fit, PulseInTime, Storing, Torn, Clean, Capturing
  <1>6. Measured
    BY <1>2 DEF Measured
  <1> QED BY <1>1, <1>4, <1>5, <1>6 DEF CalInv

-----------------------------------------------------------------------------
(* Every step keeps it *)

KeepPlaces == {"check", "offset"} \cup Capturing

\* Steps of the one thread or the other that do not touch the calibration.
Listening ==
    Listen \/ Silence \/ LockList \/ AddListener \/ DelListener \/ ReadShort \/ ReadFrame
    \/ LockToSend \/ Send \/ Unlock

LEMMA ListeningIsAside ==
    ASSUME CalInv, Listening \/ UNCHANGED vars
    PROVE  /\ UNCHANGED cal
           /\ \/ reader' = reader /\ osc.at \notin Calibrating /\ osc'.at \notin Calibrating
                 /\ osc'.samples \in 0 .. MaxSamples
              \/ osc' = osc /\ reader.at \notin KeepPlaces /\ reader'.at \notin KeepPlaces
              \/ osc' = osc /\ reader' = reader
  <1>1. Records /\ osc.samples \in 0 .. MaxSamples
    BY DEF CalInv, ListInv, CalTypes
  <1>2. 0 \in 0 .. MaxSamples
    BY SensorsAssumption, SMT
  <1>3. CASE Listen \/ Silence
    BY <1>2, <1>3, SMT DEF Listen, Silence, Asked, Calibrating
  <1>4. CASE LockList
    <2>1. osc.at \in {"listen", "silence"} /\ UNCHANGED <<reader, cal>>
      BY <1>4 DEF LockList
    <2>2. osc' = [osc EXCEPT !.at = IF @ = "listen" THEN "add" ELSE "del"]
      BY <1>4 DEF LockList
    <2>3. osc'.at \in {"add", "del"} /\ osc'.samples = osc.samples
      BY <1>1, <2>2, SMT DEF Records
    <2> QED BY <1>1, <2>1, <2>3 DEF Calibrating
  <1>5. CASE AddListener \/ DelListener
    BY <1>2, <1>5, SMT DEF AddListener, DelListener, LeaveList, Idle, Calibrating
  <1>6. CASE ReadShort \/ UNCHANGED vars
    BY <1>6 DEF ReadShort, vars
  <1>7. CASE ReadFrame
    <2>1. reader.at = "idle" /\ UNCHANGED <<osc, cal>> /\ ReaderGoes("lock")
      BY <1>7 DEF ReadFrame
    <2>2. reader'.at = "lock"
      BY <1>1, <2>1, SMT DEF ReaderGoes, Records
    <2> QED BY <2>1, <2>2 DEF KeepPlaces, Capturing
  <1>8. CASE LockToSend \/ Send
    <2>1. reader.at \in {"lock", "send"} /\ UNCHANGED <<osc, cal>>
      BY <1>8 DEF LockToSend, Send
    <2>2. reader'.at \in {"send", "unlock"}
      BY <1>8, SMT DEF LockToSend, Send, Resting
    <2> QED BY <2>1, <2>2 DEF KeepPlaces, Capturing
  <1>9. CASE Unlock
    BY <1>9, SMT DEF Unlock, Resting, KeepPlaces, Capturing
  <1> QED BY <1>3, <1>4, <1>5, <1>6, <1>7, <1>8, <1>9 DEF Listening

LEMMA ListeningKeeps ==
    ASSUME CalInv, Listening \/ UNCHANGED vars
    PROVE  (CalTypes /\ Turns /\ Fit /\ PulseInTime /\ Measured)'
  <1>1. /\ UNCHANGED <<state, samples, sample, first, norm, inv, mem, pulse, field, next,
                       data, count, missed, raced>>
    BY ListeningIsAside DEF cal, samplesOf, buffers, device
  <1>2. \/ reader' = reader /\ osc.at \notin Calibrating /\ osc'.at \notin Calibrating
           /\ osc'.samples \in 0 .. MaxSamples
        \/ osc' = osc /\ reader.at \notin KeepPlaces /\ reader'.at \notin KeepPlaces
        \/ osc' = osc /\ reader' = reader
    BY ListeningIsAside
  <1>3. CalTypes'
    BY <1>1, <1>2, SMT DEF CalInv, CalTypes
  <1>4. Turns'
    BY <1>1, <1>2, SMT DEF CalInv, Turns, Torn, Storing, Clean, Calibrating, KeepPlaces, Capturing
  <1>5. Fit'
    BY <1>1, <1>2, SMT DEF CalInv, Fit, Torn, Storing, Clean, Calibrating, KeepPlaces, Capturing
  <1>6. PulseInTime'
    BY <1>1, <1>2, SMT DEF CalInv, PulseInTime, Calibrating, KeepPlaces, Capturing
  <1>7. /\ Torn' = Torn /\ (Clean' = Clean) /\ (reader'.at = "offset" <=> reader.at = "offset")
        /\ Taken' = Taken
        /\ reader'.at \in {"check", "copy"} => reader.at \in {"check", "copy"}
    BY <1>1, <1>2, SMT DEF Torn, Clean, Taken, Calibrating, KeepPlaces, Capturing
  <1>8. Measured'
    BY <1>1, <1>7 DEF CalInv, Measured, NormalTo, InvertedTo, Hands
  <1> QED BY <1>3, <1>4, <1>5, <1>6, <1>8

\* Where a step of either thread goes.
LEMMA OscWent ==
    ASSUME CalInv, NEW at \in OscPlaces, OscGoes(at)
    PROVE  /\ osc'.at = at
           /\ osc'.samples = IF at = "idle" THEN 0 ELSE osc.samples
  BY SMT DEF CalInv, ListInv, Records, OscGoes, Idle

LEMMA ReaderWent ==
    ASSUME CalInv, NEW at, ReaderGoes(at)
    PROVE  reader'.at = at
  BY SMT DEF CalInv, ListInv, Records, ReaderGoes

\* The message asks, and has the buffers resized.
LEMMA CalibrateKeeps ==
    ASSUME CalInv, Calibrate
    PROVE  (CalTypes /\ Turns /\ Fit /\ PulseInTime /\ Measured)'
  <1>1. /\ UNCHANGED <<reader, state, samples, sample, first, norm, inv, mem, pulse, field, next,
                       data, count, missed, raced>>
        /\ state = "C_no" /\ osc.at = "idle"
    BY DEF Calibrate, cal, samplesOf, buffers, device
  <1>2. osc'.at = "resize" /\ osc'.samples \in 1 .. MaxSamples
    BY DEF Calibrate
  <1>3. CalTypes'
    <2>1. osc'.samples \in 0 .. MaxSamples /\ osc'.samples >= 1
      BY <1>2, SensorsAssumption, SMT
    <2> QED BY <1>1, <2>1 DEF CalInv, CalTypes
  <1>4. Turns' /\ Fit' /\ PulseInTime'
    BY <1>1, <1>2, SMT DEF CalInv, Turns, Fit, PulseInTime, Torn, Storing, Clean
  <1>5. Measured'
    <2>1. Torn' = Torn /\ Clean' = Clean /\ Taken' = Taken
      BY <1>1, <1>2, SMT DEF Torn, Clean, Taken
    <2> QED BY <1>1, <2>1 DEF CalInv, Measured, NormalTo, InvertedTo, Hands
  <1> QED BY <1>3, <1>4, <1>5

LEMMA ResizeKeeps ==
    ASSUME CalInv, Resize
    PROVE  (CalTypes /\ Turns /\ Fit /\ PulseInTime /\ Measured)'
  <1>1. /\ UNCHANGED <<reader, state, samples, sample, first, pulse, field, next, data, count, missed>>
        /\ osc.at = "resize" /\ state = "C_no"
        /\ raced' = (raced \/ reader.at = "offset")
        /\ osc.samples \in 0 .. MaxSamples /\ osc.samples \in Nat /\ osc.samples >= 1
    BY SensorsAssumption, SMT DEF Resize, samplesOf, device, CalInv, Turns, CalTypes, Calibrating
  <1>2. \/ /\ norm' = Zeros /\ inv' = Zeros /\ mem' \in {"live", "wild"}
           /\ osc'.at = "state" /\ osc'.samples = osc.samples
        \/ /\ norm' = norm /\ inv' = inv /\ mem' = "wild"
           /\ osc'.at = "idle" /\ osc'.samples = 0
    <2>1. ASSUME OscGoes("state") PROVE osc'.at = "state" /\ osc'.samples = osc.samples
      BY <2>1, OscWent DEF OscPlaces, Calibrating
    <2>2. ASSUME OscGoes("idle") PROVE osc'.at = "idle" /\ osc'.samples = 0
      BY <2>2, OscWent DEF OscPlaces
    <2> QED BY <2>1, <2>2 DEF Resize
  <1>3. Zeros \in Seq(Stored) /\ Len(Zeros) = osc.samples
    BY <1>1, SMT DEF Zeros, Stored
  <1>4. CalTypes'
    <2>1. /\ norm' \in Seq(Stored) /\ Len(norm') \in 0 .. MaxSamples
          /\ inv' \in Seq(Stored) /\ Len(inv') \in 0 .. MaxSamples
          /\ mem' \in {"null", "live", "wild"}
      BY <1>1, <1>2, <1>3 DEF CalInv, CalTypes
    <2>2. /\ osc'.samples \in 0 .. MaxSamples
          /\ osc'.at \in Calibrating => osc'.samples >= 1
      BY <1>1, <1>2, SensorsAssumption, SMT DEF Calibrating
    <2> QED BY <1>1, <2>1, <2>2 DEF CalInv, CalTypes
  <1>5. /\ reader.at = "offset" => raced'
        /\ raced <=> (raced' /\ (reader.at # "offset" \/ raced))
    BY <1>1, Zenon
  <1>6. PulseInTime'
    BY <1>1 DEF CalInv, PulseInTime
  <1>7. Turns'
    BY <1>1, <1>2, <1>5, SMT DEF CalInv, Turns, Torn, Storing, Clean, Capturing
  <1>8. Fit'
    BY <1>1, <1>2, <1>3, SMT DEF CalInv, Turns, Fit, Torn, Storing, Clean, CalTypes
  <1>9. Measured'
    BY <1>1, <1>5, Zenon DEF Measured
  <1> QED BY <1>4, <1>6, <1>7, <1>8, <1>9

\* The stores of a message.
LEMMA StoresKeep ==
    ASSUME CalInv, SetState \/ SetSamples \/ SetSample
    PROVE  (CalTypes /\ Turns /\ Fit /\ PulseInTime /\ Measured)'
  <1>1. UNCHANGED <<reader, first, norm, inv, mem, pulse, field, next, data, count, raced>>
    BY DEF SetState, SetSamples, SetSample, buffers, device
  <1>2. /\ SetState => /\ osc'.at = "samples" /\ osc'.samples = osc.samples
                       /\ osc.at = "state" /\ state' = "C_norm" /\ UNCHANGED <<samples, sample>>
                       /\ missed' = (missed /\ field # pulse)
        /\ SetSamples => /\ osc'.at = "sample" /\ osc'.samples = osc.samples
                         /\ osc.at = "samples" /\ samples' = osc.samples
                         /\ UNCHANGED <<state, sample, missed>>
        /\ SetSample => /\ osc'.at = "idle" /\ osc'.samples = 0
                        /\ osc.at = "sample" /\ sample' = 0 /\ UNCHANGED <<state, samples, missed>>
    <2>1. ASSUME OscGoes("samples") PROVE osc'.at = "samples" /\ osc'.samples = osc.samples
      BY <2>1, OscWent DEF OscPlaces, Calibrating
    <2>2. ASSUME OscGoes("sample") PROVE osc'.at = "sample" /\ osc'.samples = osc.samples
      BY <2>2, OscWent DEF OscPlaces, Calibrating
    <2>3. ASSUME OscGoes("idle") PROVE osc'.at = "idle" /\ osc'.samples = 0
      BY <2>3, OscWent DEF OscPlaces
    <2> QED BY <2>1, <2>2, <2>3 DEF SetState, SetSamples, SetSample
  <1>3. CalTypes'
    <2>1. missed' \in BOOLEAN
      BY <1>2, Zenon DEF CalInv, CalTypes
    <2>4. state' \in States /\ samples' \in 0 .. MaxSamples /\ sample' \in Nat
      BY <1>2, 0 \in Nat DEF CalInv, CalTypes, States
    <2>2. 0 \in 0 .. MaxSamples
      BY SensorsAssumption, SMT
    <2>3. /\ osc'.samples \in 0 .. MaxSamples
          /\ osc'.at \in Calibrating => osc'.samples >= 1
      BY <1>2, <2>2 DEF CalInv, CalTypes, Calibrating
    <2> QED BY <1>1, <2>1, <2>3, <2>4 DEF CalInv, CalTypes
  <1>4. Turns' /\ PulseInTime'
    BY <1>1, <1>2, SMT DEF CalInv, CalTypes, Turns, PulseInTime, Torn, Storing, Clean, Capturing
  <1>5. Fit'
    BY <1>1, <1>2, SMT DEF CalInv, CalTypes, Turns, Fit, Torn, Storing, Clean, Capturing, Calibrating
  <1>6. Measured'
    <2>1. CASE SetState \/ SetSamples
      <3>1. Torn' /\ ~(reader'.at = "offset" /\ ~raced')
        BY <1>1, <1>2, <2>1, SMT DEF CalInv, Turns, Torn, Storing
      <3> QED BY <3>1 DEF Measured
    <2>2. CASE SetSample
      <3>1. /\ sample' = 0 /\ ~(reader'.at = "offset" /\ ~raced')
            /\ Clean' => reader'.at \notin {"count", "store"} /\ state' # "C_inv"
        BY <1>1, <1>2, <2>2, SMT DEF CalInv, Turns, Torn, Storing, Clean, Capturing
      <3>2. Clean' => Taken' = 0
        BY <3>1 DEF Taken
      <3>3. NormalTo(0)'
        BY SMT DEF NormalTo
      <3> QED BY <3>1, <3>2, <3>3 DEF Measured, NormalTo
    <2> QED BY <2>1, <2>2
  <1> QED BY <1>3, <1>4, <1>5, <1>6

\* A sample is read, and the state is checked.
LEMMA ReadSampleKeeps ==
    ASSUME CalInv, ReadSample
    PROVE  (CalTypes /\ Turns /\ Fit /\ PulseInTime /\ Measured)'
  <1>1. /\ UNCHANGED <<osc, state, samples, sample, first, norm, inv, mem, pulse, field, count,
                       missed, raced>>
        /\ reader.at = "idle" /\ data' = next /\ next' = field
    BY DEF ReadSample, samplesOf, buffers
  <1>2. reader'.at = "check"
    BY ReaderWent DEF ReadSample
  <1>3. CalTypes'
    BY <1>1 DEF CalInv, CalTypes
  <1>4. Turns' /\ Fit' /\ PulseInTime'
    BY <1>1, <1>2, SMT DEF CalInv, Turns, Fit, PulseInTime, Torn, Storing, Clean, Capturing
  <1>5. Measured'
    <2>1. Torn' = Torn /\ (Clean' => Clean) /\ Taken' = Taken /\ Taken = sample
      BY <1>1, <1>2, SMT DEF Torn, Clean, Taken
    <2>2. ~missed => field = pulse /\ (pulse = "on" <=> state = "C_inv") /\ field \in Fields
      BY DEF CalInv, PulseInTime, CalTypes
    <2> QED BY <1>1, <1>2, <2>1, <2>2 DEF CalInv, Measured, NormalTo, InvertedTo, Hands, Fields
  <1> QED BY <1>3, <1>4, <1>5

LEMMA CheckStateKeeps ==
    ASSUME CalInv, CheckState
    PROVE  (CalTypes /\ Turns /\ Fit /\ PulseInTime /\ Measured)'
  <1>1. /\ UNCHANGED <<osc, state, samples, sample, first, norm, inv, mem, pulse, field, next, data,
                       count, missed>>
        /\ reader.at = "check"
        /\ raced' = (raced \/ (state # "C_no" /\ osc.at \in {"samples", "sample"}))
    BY DEF CheckState, samplesOf, buffers, device
  <1>2. reader'.at = CASE state = "C_no" -> "lock"
                       [] state = "C_inv" /\ first -> "skip"
                       [] OTHER -> "copy"
    BY ReaderWent DEF CheckState
  <1>3. /\ state = "C_no" => reader'.at = "lock"
        /\ state = "C_inv" /\ first => reader'.at = "skip"
        /\ state = "C_norm" \/ (state = "C_inv" /\ ~first) => reader'.at = "copy"
    BY <1>2
  <1>4. /\ raced => raced'
        /\ state # "C_no" /\ Torn => raced'
        /\ raced' \in BOOLEAN
    BY <1>1, Zenon DEF Torn
  <1>5. state \in States
    BY DEF CalInv, CalTypes
  <1>6. CalTypes'
    BY <1>1, <1>4 DEF CalInv, CalTypes
  <1>7. Turns'
    BY <1>1, <1>3, <1>4, <1>5, SMT DEF CalInv, Turns, Torn, Storing, Clean, Capturing, States
  <1>8. Fit' /\ PulseInTime'
    BY <1>1, <1>3, <1>4, <1>5, SMT DEF CalInv, Fit, PulseInTime, Torn, Storing, Clean, Capturing, States
  <1>9. Measured'
    <2>1. Torn' = Torn /\ (Clean' => Clean) /\ Taken' = Taken /\ Taken = sample
      BY <1>1, <1>3, <1>4, <1>5, SMT DEF Torn, Clean, Taken, States
    <2>2. reader'.at # "offset"
      BY <1>3, <1>5 DEF States
    <2> QED BY <1>1, <2>1, <2>2 DEF CalInv, Measured, NormalTo, InvertedTo, Hands
  <1> QED BY <1>6, <1>7, <1>8, <1>9

\* The first inverted sample is left out.
LEMMA SkipFirstKeeps ==
    ASSUME CalInv, SkipFirst
    PROVE  (CalTypes /\ Turns /\ Fit /\ PulseInTime /\ Measured)'
  <1>1. /\ UNCHANGED <<osc, state, samples, sample, norm, inv, mem, pulse, field, next, data,
                       count, missed, raced>>
        /\ reader.at = "skip" /\ first' = FALSE
    BY DEF SkipFirst, buffers, device
  <1>2. reader'.at = "idle"
    BY ReaderWent DEF SkipFirst
  <1>3. CalTypes'
    BY <1>1 DEF CalInv, CalTypes
  <1>4. Turns' /\ Fit' /\ PulseInTime'
    BY <1>1, <1>2, SMT DEF CalInv, Turns, Fit, PulseInTime, Torn, Storing, Clean, Capturing
  <1>5. Measured'
    <2>1. Torn' = Torn /\ (Clean' => Clean) /\ Taken' = Taken /\ Taken = sample
      BY <1>1, <1>2, SMT DEF Torn, Clean, Taken
    <2>2. ~missed => next = pulse
      BY <1>1 DEF CalInv, PulseInTime, Capturing
    <2>3. pulse = "on" <=> state = "C_inv"
      BY DEF CalInv, PulseInTime
    <2> QED BY <1>1, <1>2, <2>1, <2>2, <2>3 DEF CalInv, Measured, NormalTo, InvertedTo, Hands
  <1> QED BY <1>3, <1>4, <1>5

\* A buffer with the sample in it.
LEMMA KeptIs ==
    ASSUME CalInv, NEW b \in Seq(Stored)
    PROVE  /\ Kept(b) \in Seq(Stored) /\ Len(Kept(b)) = Len(b)
           /\ \A i \in 1 .. Len(b) : Kept(b)[i] = IF i = sample + 1 THEN data ELSE b[i]
  <1>1. Len(b) \in Nat /\ DOMAIN b = 1 .. Len(b) /\ \A i \in 1 .. Len(b) : b[i] \in Stored
    BY SMT
  <1>2. data \in Stored
    BY DEF CalInv, CalTypes, Fields, Stored
  <1>3. Kept(b) = [i \in 1 .. Len(b) |-> IF i = sample + 1 THEN data ELSE b[i]]
    BY <1>1 DEF Kept
  <1> HIDE DEF Stored
  <1> QED BY <1>1, <1>2, <1>3, SMT

LEMMA CopySampleKeeps ==
    ASSUME CalInv, CopySample
    PROVE  (CalTypes /\ Turns /\ Fit /\ PulseInTime /\ Measured)'
  <1>1. /\ UNCHANGED <<osc, state, samples, sample, first, pulse, field, next, data, count,
                       missed, raced>>
        /\ reader.at = "copy" /\ mem' \in {mem, "wild"}
    BY DEF CopySample, samplesOf, device
  <1>2. reader'.at = "count"
    BY ReaderWent DEF CopySample
  <1>3. state \in {"C_norm", "C_inv"} /\ norm \in Seq(Stored) /\ inv \in Seq(Stored)
    BY <1>1 DEF CalInv, CalTypes, Turns, Capturing, States
  <1>4. \/ state = "C_norm" /\ norm' = Kept(norm) /\ inv' = inv
        \/ state = "C_inv" /\ inv' = Kept(inv) /\ norm' = norm
    BY <1>3 DEF CopySample
  <1>5. /\ norm' \in Seq(Stored) /\ inv' \in Seq(Stored)
        /\ Len(norm') = Len(norm) /\ Len(inv') = Len(inv)
    BY <1>3, <1>4, KeptIs
  <1>6. CalTypes'
    BY <1>1, <1>5 DEF CalInv, CalTypes
  <1>7. Turns' /\ PulseInTime'
    BY <1>1, <1>2, SMT DEF CalInv, Turns, PulseInTime, Torn, Storing, Clean, Capturing
  <1>8. Fit'
    BY <1>1, <1>2, <1>5, SMT DEF CalInv, Fit, Torn, Storing, Clean
  <1>9. Measured'
    <2> SUFFICES ASSUME ~missed, mem' = "live", Clean', ~Torn' PROVE Measured'
      BY <1>1, <1>2 DEF Measured
    <2>1. Clean /\ ~Torn /\ mem = "live" /\ Taken = sample /\ Taken' = sample + 1
      BY <1>1, <1>2, SMT DEF Torn, Clean, Taken
    <2>2. ~Storing /\ sample < samples /\ Len(norm) = samples /\ Len(inv) = samples
      BY <1>1, <1>3, <2>1, SMT DEF CalInv, Turns, Fit, Storing, Torn
    <2>3. sample \in Nat /\ samples \in Nat
      BY SensorsAssumption, SMT DEF CalInv, CalTypes
    <2>4. CASE state = "C_norm"
      <3>1. NormalTo(sample) /\ (sample # 0 => next = "off" /\ data = "off")
        BY <1>1, <2>1, <2>4 DEF CalInv, Measured, Hands
      <3>2. \A i \in 1 .. samples : norm'[i] = IF i = sample + 1 THEN data ELSE norm[i]
        BY <1>3, <1>4, <2>2, <2>4, KeptIs
      <3>3. \A i \in 1 .. sample + 1 : i > 1 => norm'[i] = "off"
        BY <3>1, <3>2, <2>2, <2>3, SMT DEF NormalTo
      <3>4. (NormalTo(Taken))'
        BY <3>3, <2>1 DEF NormalTo
      <3> QED BY <1>1, <1>2, <2>4, <3>1, <3>4 DEF Measured, Hands
    <2>5. CASE state = "C_inv"
      <3>1. /\ NormalTo(samples) /\ InvertedTo(sample) /\ ~first
            /\ next = "on" /\ data = "on"
        BY <1>1, <2>1, <2>5 DEF CalInv, Measured, Hands, Turns, Capturing
      <3>2. \A i \in 1 .. samples : inv'[i] = IF i = sample + 1 THEN data ELSE inv[i]
        BY <1>3, <1>4, <2>2, <2>5, KeptIs
      <3>3. \A i \in 1 .. sample + 1 : inv'[i] = "on"
        BY <3>1, <3>2, <2>2, <2>3, SMT DEF InvertedTo
      <3>4. (InvertedTo(Taken))'
        BY <3>3, <2>1 DEF InvertedTo
      <3>5. (NormalTo(samples))'
        BY <3>1, <1>1, <1>4, <2>5 DEF NormalTo
      <3> QED BY <1>1, <1>2, <2>5, <3>1, <3>4, <3>5 DEF Measured, Hands
    <2> QED BY <1>3, <2>4, <2>5
  <1> QED BY <1>6, <1>7, <1>8, <1>9

\* The count is loaded and stored.
LEMMA LoadCountKeeps ==
    ASSUME CalInv, LoadCount
    PROVE  (CalTypes /\ Turns /\ Fit /\ PulseInTime /\ Measured)'
  <1>1. /\ UNCHANGED <<osc, state, samples, sample, first, norm, inv, mem, pulse, field, next, data,
                       missed, raced>>
        /\ reader.at = "count" /\ count' = sample + 1
    BY DEF LoadCount, samplesOf, buffers, device
  <1>2. reader'.at = "store"
    BY ReaderWent DEF LoadCount
  <1>3. CalTypes'
    <2>1. count' \in Nat
      BY <1>1, SMT DEF CalInv, CalTypes
    <2> QED BY <1>1, <2>1 DEF CalInv, CalTypes
  <1>4. Turns' /\ Fit' /\ PulseInTime'
    BY <1>1, <1>2, SMT DEF CalInv, Turns, Fit, PulseInTime, Torn, Storing, Clean, Capturing
  <1>5. Measured'
    <2>1. Torn' = Torn /\ (Clean' => Clean) /\ Taken' = Taken
      BY <1>1, <1>2, SMT DEF Torn, Clean, Taken
    <2> QED BY <1>1, <1>2, <2>1 DEF CalInv, Measured, NormalTo, InvertedTo, Hands
  <1> QED BY <1>3, <1>4, <1>5

LEMMA StoreCountKeeps ==
    ASSUME CalInv, StoreCount
    PROVE  (CalTypes /\ Turns /\ Fit /\ PulseInTime /\ Measured)'
  <1>1. /\ UNCHANGED <<osc, state, samples, first, norm, inv, mem, pulse, field, next, data, count,
                       missed, raced>>
        /\ reader.at = "store" /\ count # samples /\ sample' = count
    BY DEF StoreCount, buffers, device
  <1>2. reader'.at = "idle"
    BY ReaderWent DEF StoreCount
  <1>3. CalTypes'
    BY <1>1 DEF CalInv, CalTypes
  <1>4. Turns' /\ PulseInTime'
    BY <1>1, <1>2, SMT DEF CalInv, Turns, PulseInTime, Torn, Storing, Clean, Capturing
  <1>5. Fit'
    <2>1. samples \in Nat /\ sample \in Nat
      BY SensorsAssumption, SMT DEF CalInv, CalTypes
    <2> QED BY <1>1, <1>2, <2>1, SMT DEF CalInv, Fit, Torn, Storing, Clean
  <1>6. Measured'
    <2> SUFFICES ASSUME ~missed, mem = "live", Clean', ~Torn' PROVE Measured'
      BY <1>1, <1>2 DEF Measured
    <2>1. Clean /\ ~Torn /\ ~raced /\ Taken = sample + 1 /\ Taken' = sample'
      BY <1>1, <1>2, SMT DEF Torn, Clean, Taken
    <2>2. sample' = Taken
      BY <1>1, <2>1, SMT DEF CalInv, Fit
    <2>3. next = field /\ field = pulse /\ (pulse = "on" <=> state = "C_inv") /\ pulse \in Fields
      BY <1>1 DEF CalInv, PulseInTime, Capturing, CalTypes
    <2>4. state = "C_norm" \/ ~first
      BY <1>1 DEF CalInv, Turns, Capturing
    <2> QED BY <1>1, <1>2, <2>1, <2>2, <2>3, <2>4
            DEF CalInv, Measured, NormalTo, InvertedTo, Hands, Fields
  <1> QED BY <1>3, <1>4, <1>5, <1>6

\* A half is complete: the pulse.
LEMMA PulseTurns ==
    ASSUME CalInv, Toggle
    PROVE  /\ pulse' \in Fields /\ field' \in Fields /\ missed' \in BOOLEAN
           /\ pulse' = "on" <=> pulse = "off"
           /\ missed => missed'
           /\ ~missed' => field' = pulse'
  <1>1. pulse \in Fields /\ field \in Fields /\ missed \in BOOLEAN
    BY DEF CalInv, CalTypes
  <1>2. pulse' = Turned /\ Turned \in Fields /\ (Turned = "on" <=> pulse = "off")
    BY <1>1 DEF Toggle, Turned, Fields
  <1>3. CASE field' = Turned /\ UNCHANGED missed
    BY <1>1, <1>2, <1>3
  <1>4. CASE missed' = TRUE /\ UNCHANGED field
    BY <1>1, <1>2, <1>4
  <1> QED BY <1>3, <1>4 DEF Toggle

LEMMA EndNormalKeeps ==
    ASSUME CalInv, EndNormal
    PROVE  (CalTypes /\ Turns /\ Fit /\ PulseInTime /\ Measured)'
  <1>1. /\ UNCHANGED <<osc, samples, norm, inv, mem, next, data, count, raced>>
        /\ reader.at = "store" /\ count = samples /\ state = "C_norm"
        /\ state' = "C_inv" /\ sample' = 0 /\ first' = TRUE
    BY DEF EndNormal, buffers
  <1>2. reader'.at = "idle"
    BY ReaderWent DEF EndNormal
  <1>3. /\ pulse' \in Fields /\ field' \in Fields /\ missed' \in BOOLEAN
        /\ pulse' = "on" <=> pulse = "off"
        /\ missed => missed'
        /\ ~missed' => field' = pulse'
    BY PulseTurns DEF EndNormal
  <1>4. samples \in Nat /\ sample \in Nat /\ pulse \in Fields
    BY SensorsAssumption, SMT DEF CalInv, CalTypes
  <1>5. CalTypes'
    BY <1>1, <1>3, 0 \in Nat DEF CalInv, CalTypes, States
  <1>6. PulseInTime'
    BY <1>1, <1>2, <1>3, <1>4 DEF CalInv, PulseInTime, Capturing, Fields
  <1>7. Turns'
    BY <1>1, <1>2, SMT DEF CalInv, Turns, Torn, Storing, Clean, Capturing
  <1>8. Fit'
    BY <1>1, <1>2, <1>4, SMT DEF CalInv, Fit, Torn, Storing, Clean
  <1>9. Measured'
    <2> SUFFICES ASSUME ~missed, mem = "live", Clean', ~Torn' PROVE Measured'
      BY <1>1, <1>2, <1>3 DEF Measured
    <2>1. Clean /\ ~Torn /\ ~raced /\ Taken = samples /\ Taken' = 0
      BY <1>1, <1>2, SMT DEF CalInv, Fit, Torn, Clean, Taken
    <2>2. NormalTo(samples)
      BY <1>1, <2>1 DEF CalInv, Measured
    <2>3. (NormalTo(samples))'
      BY <1>1, <2>2 DEF NormalTo
    <2>4. (InvertedTo(Taken))'
      BY <2>1, SMT DEF InvertedTo
    <2> QED BY <1>1, <1>2, <2>3, <2>4 DEF Measured
  <1> QED BY <1>5, <1>6, <1>7, <1>8, <1>9

LEMMA EndInvertedKeeps ==
    ASSUME CalInv, EndInverted
    PROVE  (CalTypes /\ Turns /\ Fit /\ PulseInTime /\ Measured)'
  <1>1. /\ UNCHANGED <<osc, samples, first, norm, inv, mem, next, data, count, raced>>
        /\ reader.at = "store" /\ count = samples
        /\ state' = "C_no" /\ sample' = count
    BY DEF EndInverted, buffers
  <1>2. reader'.at = "offset"
    BY ReaderWent DEF EndInverted
  <1>3. /\ pulse' \in Fields /\ field' \in Fields /\ missed' \in BOOLEAN
        /\ pulse' = "on" <=> pulse = "off"
        /\ missed => missed'
        /\ ~missed' => field' = pulse'
    BY PulseTurns DEF EndInverted
  <1>4. state = "C_inv"
    BY <1>1 DEF EndInverted, CalInv, CalTypes, Turns, Capturing, States
  <1>5. CalTypes'
    BY <1>1, <1>3 DEF CalInv, CalTypes, States
  <1>6. PulseInTime'
    BY <1>1, <1>2, <1>3, <1>4 DEF CalInv, PulseInTime, Capturing, Fields
  <1>7. Turns'
    BY <1>1, <1>2, <1>4, SMT DEF CalInv, Turns, Torn, Storing, Clean, Capturing
  <1>8. Fit'
    BY <1>1, <1>2, <1>4, SMT DEF CalInv, Fit, Torn, Storing, Clean
  <1>9. Measured'
    <2> SUFFICES ASSUME ~missed, mem = "live", ~raced PROVE (NormalTo(samples) /\ InvertedTo(samples))'
      BY <1>1, <1>2, <1>3 DEF Measured
    <2>1. Clean /\ ~Torn /\ Taken = samples
      BY <1>1, SMT DEF CalInv, Fit, Turns, Torn, Clean, Taken, Capturing
    <2>2. NormalTo(samples) /\ InvertedTo(samples)
      BY <1>4, <2>1 DEF CalInv, Measured
    <2> QED BY <1>1, <2>2 DEF NormalTo, InvertedTo
  <1> QED BY <1>5, <1>6, <1>7, <1>8, <1>9

LEMMA CalcOffsetKeeps ==
    ASSUME CalInv, CalcOffset
    PROVE  (CalTypes /\ Turns /\ Fit /\ PulseInTime /\ Measured)'
  <1>1. /\ UNCHANGED <<osc, state, samples, sample, first, norm, inv, mem, pulse, field, next, data,
                       count, missed>>
        /\ reader.at = "offset" /\ raced' = FALSE
    BY DEF CalcOffset, samplesOf, buffers, device
  <1>2. reader'.at = "idle"
    BY ReaderWent DEF CalcOffset
  <1>3. CalTypes'
    BY <1>1 DEF CalInv, CalTypes
  <1>4. Turns' /\ Fit' /\ PulseInTime'
    BY <1>1, <1>2, SMT DEF CalInv, Turns, Fit, PulseInTime, Torn, Storing, Clean, Capturing
  <1>5. Measured'
    <2>1. Torn' = Torn /\ Clean /\ Taken' = Taken
      BY <1>1, <1>2, SMT DEF Torn, Clean, Taken
    <2> QED BY <1>1, <1>2, <2>1 DEF CalInv, Measured, NormalTo, InvertedTo, Hands
  <1> QED BY <1>3, <1>4, <1>5

LEMMA CalStep == CalInv /\ [Next]_vars => CalInv'
  <1> SUFFICES ASSUME CalInv, [Next]_vars PROVE CalInv'
    OBVIOUS
  <1>1. ListInv'
    BY ListStep DEF CalInv
  <1>2. (CalTypes /\ Turns /\ Fit /\ PulseInTime /\ Measured)'
    BY ListeningKeeps, CalibrateKeeps, ResizeKeeps, StoresKeep, ReadSampleKeeps, CheckStateKeeps,
       SkipFirstKeeps, CopySampleKeeps, LoadCountKeeps, StoreCountKeeps, EndNormalKeeps,
       EndInvertedKeeps, CalcOffsetKeeps DEF Next, Listening
  <1> QED BY <1>1, <1>2 DEF CalInv

-----------------------------------------------------------------------------
(* What the calibration shows *)

LEMMA CalFits == CalInv => SamplesInBuffer
  <1> SUFFICES ASSUME CalInv, reader.at = "copy", ~raced, mem # "wild"
               PROVE  mem = "live" /\ sample < Len(IF state = "C_norm" THEN norm ELSE inv)
    BY DEF SamplesInBuffer
  <1>1. state # "C_no" /\ ~Torn /\ Clean
    BY DEF CalInv, Turns, Capturing, Clean
  <1>2. ~Storing
    BY <1>1 DEF CalInv, Turns, Storing, Torn
  <1>3. mem = "live"
    BY <1>1 DEF CalInv, Fit, CalTypes
  <1> QED BY <1>1, <1>2, <1>3 DEF CalInv, Fit

\* A sample is kept only where its buffer has room (SamplesInBuffer): mag_calibrate_handler
\* against the reading thread of accmag.c, for every number of samples, while no message
\* has stored its fields between the check of the state and the end of a sample.
THEOREM SamplesFit == Spec => []SamplesInBuffer
  <1> QED BY CalFits, CalInit, CalStep, PTL DEF Spec

\* The offset is calculated from both fields (CalibrationMeasures): the reading thread of
\* accmag.c and the pulse, for every number of samples, while no pulse was missed and no
\* message raced.
THEOREM OffsetIsMeasured == Spec => []CalibrationMeasures
  <1>1. CalInv => CalibrationMeasures
    BY DEF CalInv, Measured, NormalTo, InvertedTo, CalibrationMeasures
  <1> QED BY <1>1, CalInit, CalStep, PTL DEF Spec

-----------------------------------------------------------------------------
(* The frames of the matrix *)

FrameRecord == [buf : [Cells -> 0 .. FrameSize], ptr : 0 .. MaxShort, short : BOOLEAN]

\* A frame that no short read has shifted begins at the start of the buffer, and fills it
\* when it is sent.
FrameInv ==
    /\ ListInv /\ frame \in FrameRecord
    /\ ~frame.short => frame.ptr = 0
    /\ sensor = "matrix" => reader.at \in {"idle", "lock", "send", "unlock"}
    /\ sensor = "matrix" /\ reader.at \in {"lock", "send", "unlock"} /\ ~frame.short =>
           \A i \in Cells : frame.buf[i] = i

\* What is put into the buffer is a cell of the frame that is read.
LEMMA PutTyped ==
    ASSUME FrameInv, NEW n \in 0 .. FrameSize
    PROVE  Put(n) \in [Cells -> 0 .. FrameSize]
  <1>1. /\ frame.ptr \in Nat /\ frame.buf \in [Cells -> 0 .. FrameSize]
        /\ FrameSize \in Nat
    BY SensorsAssumption, SMT DEF FrameInv, FrameRecord
  <1>2. ASSUME NEW i \in Cells
        PROVE  (IF i \in frame.ptr + 1 .. frame.ptr + n THEN i - frame.ptr ELSE frame.buf[i])
                   \in 0 .. FrameSize
    <2>1. CASE i \in frame.ptr + 1 .. frame.ptr + n
      <3>1. i - frame.ptr \in 0 .. FrameSize
        BY <1>1, <2>1, SMT
      <3> QED BY <2>1, <3>1
    <2>2. CASE i \notin frame.ptr + 1 .. frame.ptr + n
      BY <1>1, <2>2
    <2> QED BY <2>1, <2>2
  <1> QED BY <1>2 DEF Put

\* The buffer is empty at first.
LEMMA FrameInit == Init => FrameInv
  <1> SUFFICES ASSUME Init PROVE FrameInv
    OBVIOUS
  <1>1. ListInv /\ reader.at = "idle" /\ frame = Empty
    BY ListInit DEF Init, Resting
  <1>2. Empty \in FrameRecord /\ Empty.ptr = 0
    BY SensorsAssumption, SMT DEF Empty, FrameRecord
  <1> QED BY <1>1, <1>2, SMT DEF FrameInv

\* A whole frame is read behind what a short read has left.
LEMMA FrameRead ==
    ASSUME FrameInv, ReadFrame
    PROVE  /\ frame' \in FrameRecord /\ (~frame'.short => frame'.ptr = 0)
           /\ ~frame'.short => \A i \in Cells : frame'.buf[i] = i
  <1>1. /\ frame \in FrameRecord /\ frame' = [frame EXCEPT !.buf = Put(FrameSize)]
        /\ ~frame.short => frame.ptr = 0
    BY DEF ReadFrame, FrameInv
  <1>2. Put(FrameSize) \in [Cells -> 0 .. FrameSize]
    BY PutTyped, SensorsAssumption
  <1>3. /\ frame' \in FrameRecord /\ frame'.buf = Put(FrameSize)
        /\ frame'.ptr = frame.ptr /\ frame'.short = frame.short
    BY <1>1, <1>2, SMT DEF FrameRecord
  <1>4. ASSUME frame.ptr = 0, NEW i \in Cells PROVE Put(FrameSize)[i] = i
    <2>1. i \in frame.ptr + 1 .. frame.ptr + FrameSize /\ i - frame.ptr = i
      BY <1>4, SensorsAssumption, SMT DEF Cells
    <2> QED BY <1>4, <2>1 DEF Put
  <1> QED BY <1>1, <1>3, <1>4

\* A short read moves ptr on.
LEMMA FrameShort ==
    ASSUME FrameInv, ReadShort
    PROVE  frame' \in FrameRecord /\ frame'.short = TRUE
  <1>1. PICK n \in 1 .. FrameSize - 1 :
            /\ frame.ptr + n <= MaxShort
            /\ frame' = [buf |-> Put(n), ptr |-> frame.ptr + n, short |-> TRUE]
    BY DEF ReadShort
  <1>2. n \in 0 .. FrameSize /\ frame.ptr \in Nat /\ frame.ptr + n \in 0 .. MaxShort
    BY <1>1, SensorsAssumption, SMT DEF FrameInv, FrameRecord
  <1>3. Put(n) \in [Cells -> 0 .. FrameSize]
    BY <1>2, PutTyped
  <1> QED BY <1>1, <1>2, <1>3, SMT DEF FrameRecord

\* No other step comes to the buffer.
LEMMA FrameStep == FrameInv /\ [Next]_vars => FrameInv'
  <1> SUFFICES ASSUME FrameInv, [Next]_vars PROVE FrameInv'
    OBVIOUS
  <1>1. ListInv' /\ Records /\ Records'
    BY ListStep DEF FrameInv, ListInv
  <1>2. CASE ReadFrame
    <2>1. reader'.at = "lock"
      BY <1>1, <1>2, SMT DEF ReadFrame, ReaderGoes, Records
    <2> QED BY <1>1, <1>2, <2>1, FrameRead DEF FrameInv
  <1>3. CASE ReadShort
    <2>1. sensor' = sensor /\ reader' = reader
      BY <1>3 DEF ReadShort
    <2> QED BY <1>1, <1>3, <2>1, FrameShort DEF FrameInv
  <1>4. CASE Unlock
    <2>1. frame' = Empty /\ Empty \in FrameRecord /\ Empty.ptr = 0 /\ reader'.at = "idle"
      BY <1>4, SensorsAssumption, SMT DEF Unlock, Resting, Empty, FrameRecord
    <2> QED BY <1>1, <2>1, SMT DEF FrameInv
  <1>5. ASSUME UNCHANGED <<sensor, frame>>,
               sensor = "matrix" => reader'.at \in {"idle", "lock", "send", "unlock"},
               sensor = "matrix" /\ reader'.at \in {"lock", "send", "unlock"} =>
                   reader.at \in {"lock", "send", "unlock"}
        PROVE  FrameInv'
    BY <1>1, <1>5 DEF FrameInv
  <1>6. CASE Listen \/ Silence \/ LockList \/ AddListener \/ DelListener
             \/ Calibrate \/ Resize \/ SetState \/ SetSamples \/ SetSample
    <2>1. UNCHANGED <<sensor, frame, reader>>
      BY <1>6 DEF Listen, Silence, Asked, LockList, AddListener, DelListener, LeaveList,
                  Calibrate, Resize, SetState, SetSamples, SetSample
    <2> QED BY <1>5, <2>1 DEF FrameInv
  <1>7. CASE ReadSample \/ CheckState \/ Keeping
    <2>1. UNCHANGED <<sensor, frame>>
          /\ (sensor # "matrix" \/ reader.at \in {"check", "offset"} \cup Capturing)
      BY <1>7 DEF ReadSample, CheckState, Keeping, SkipFirst, CopySample, LoadCount, StoreCount,
                  EndNormal, EndInverted, CalcOffset, Capturing
    <2>2. sensor # "matrix"
      BY <2>1 DEF FrameInv, Capturing
    <2> QED BY <1>5, <2>1, <2>2
  <1>8. CASE LockToSend \/ Send
    <2>1. reader.at \in {"lock", "send"} /\ UNCHANGED <<sensor, frame>>
      BY <1>8 DEF LockToSend, Send
    <2>2. reader'.at \in {"send", "unlock"}
      BY <1>8, SMT DEF LockToSend, Send, Resting
    <2> QED BY <1>5, <2>1, <2>2
  <1>9. CASE UNCHANGED vars
    <2>1. UNCHANGED <<sensor, frame, reader>>
      BY <1>9 DEF vars
    <2> QED BY <1>5, <2>1 DEF FrameInv
  <1> QED BY <1>2, <1>3, <1>4, <1>6, <1>7, <1>8, <1>9 DEF Next, Keeping

\* A short read spoils the frame it belongs to and no other, for every size of the frame and
\* however many short reads come one after the other: ptr and the buffer are cleared with
\* the frame that is sent (dev_matrix_read).
THEOREM FramesRecover == Spec => []ShortReadSpoilsOneFrame
  <1>1. FrameInv => ShortReadSpoilsOneFrame
    BY DEF FrameInv, ShortReadSpoilsOneFrame
  <1> QED BY <1>1, FrameInit, FrameStep, PTL DEF Spec

-----------------------------------------------------------------------------
LockRange == lock \in {"free", "osc", "reader"}

\* The places of the two threads, the fields of a calibration and the frame keep their
\* ranges, and the list holds each listener once (TypeOK), whatever races: ptr does not go
\* past the buffer, and no calibration has more samples than a message asks for.
THEOREM SensorsKeepTheirTypes == Spec => []TypeOK
  <1>1. LockRange /\ CalInv /\ FrameInv => TypeOK
    <2> SUFFICES ASSUME LockRange, CalInv, FrameInv PROVE TypeOK
      OBVIOUS
    <2>1. ListInv /\ CalTypes /\ frame \in FrameRecord
      BY DEF CalInv, FrameInv
    <2>2. IsInjective(listeners) /\ ToSet(listeners) \subseteq Listener
      <3>1. listeners \in Seq(Listener) /\ DOMAIN listeners = 1 .. Len(listeners)
        BY <2>1, LenProperties DEF ListInv
      <3>2. EachOnce(listeners)
        BY <2>1 DEF ListInv
      <3>3. IsInjective(listeners)
        BY <3>1, <3>2 DEF EachOnce, IsInjective
      <3>4. \A i \in 1 .. Len(listeners) : listeners[i] \in Listener
        BY <3>1, ElementOfSeq
      <3> QED BY <3>1, <3>3, <3>4 DEF ToSet
    <2>3. /\ osc.at \in {"idle", "listen", "silence", "add", "del"} \cup Calibrating
          /\ osc.addr \in Listener \cup {"none"}
          /\ reader.at \in {"idle", "check", "skip", "copy", "count", "store", "offset",
                            "lock", "send", "unlock"}
      BY <2>1, SMT DEF ListInv, Records, OscPlaces, ReaderPlaces, Apart, Capturing
    <2>4. frame.ptr \in 0 .. MaxShort /\ \A i \in Cells : frame.buf[i] \in 0 .. FrameSize
      BY <2>1, SMT DEF FrameRecord
    <2>5. {pulse, field, next, data} \subseteq {"off", "on"}
      BY <2>1 DEF CalTypes, Fields
    <2> QED BY <2>1, <2>2, <2>3, <2>4, <2>5 DEF TypeOK, LockRange, CalTypes, States
  <1>2. Init => LockRange
    BY DEF Init, LockRange
  <1>3. LockRange /\ [Next]_vars => LockRange'
    BY DEF Next, vars, LockRange, Listen, Silence, Asked, LockList, AddListener, DelListener,
           LeaveList, Calibrate, Resize, SetState, SetSamples, SetSample, ReadSample, CheckState,
           SkipFirst, CopySample, LoadCount, StoreCount, EndNormal, EndInverted, CalcOffset,
           ReadShort, ReadFrame, LockToSend, Send, Unlock
  <1> QED BY <1>1, <1>2, <1>3, CalInit, CalStep, FrameInit, FrameStep, PTL DEF Spec
=============================================================================
