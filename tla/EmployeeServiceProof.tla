------------------------ MODULE EmployeeServiceProof ------------------------
(***************************************************************************)
(* Proofs about EmployeeService, for any clients, requests, files and      *)
(* sizes: type correctness (TypeOK), what a photo is when nobody writes it *)
(* (UploadStored), and what a client is sent for a request (AnswersExact). *)
(* And about HttpFraming, for any texts: where a request ends.             *)
(***************************************************************************)
EXTENDS EmployeeService, HttpFraming, ReadyListProof, FiniteSetTheorems

Places == {"sent", "write", "written", "created", "fstat", "head", "read",
           "send", "ended", "done"}

JobState ==
  [at : Places, id : Names, file : Fds, size : Nat, chunk : Seq(Units)]

Types ==
  /\ sends \in Workloads
  /\ where \in [Clients -> {"away", "open", "closed"}]
  /\ fd \in [Clients -> Fds]
  /\ photos \in [Names -> Seq(Units) \cup {Missing}]
  /\ job \in [Jobs -> JobState]
  /\ \A j \in Jobs : Len(job[j].chunk) <= ReadSize
  /\ offset \in [Jobs -> Nat]
  /\ room \in [Clients -> 0 .. SendSize]
  /\ failures \in 0 .. MaxFailures
  /\ last \in [Names -> Jobs \cup {Nobody}]

(***************************************************************************)
(* A connection has its number for itself; who runs has been connected.    *)
(***************************************************************************)
Numbered ==
  /\ \A c, d \in Clients :
       where[c] = "open" /\ where[d] = "open" /\ fd[c] = fd[d] => c = d
  /\ \A c \in Clients, j \in Jobs :
       where[c] = "open" /\ Writer(j) => job[j].file # fd[c]
  /\ \A j \in Jobs : Running(j) => where[j[1]] # "away"

(***************************************************************************)
(* A file that a job has open is there, and is written or read from the    *)
(* start: unless an answer to somebody else has moved the position.        *)
(***************************************************************************)
Opened ==
  \A j \in Jobs :
    /\ Writer(j) \/ Reader(j) => photos[job[j].id] # Missing
    /\ job[j].at \in {"sent", "fstat", "head"} => offset[j] = 0
    /\ At(j, "write") /\ job[j].id \notin spoilt => offset[j] = 0
    /\ At(j, "written") => last[job[j].id] # Nobody

(***************************************************************************)
(* Unless uploads of a photo overlapped, one is alone, and until it writes *)
(* the file is empty, but for answers.                                     *)
(***************************************************************************)
Alone ==
  \A n \in Names \ mixed : \A i, j \in Uploading(n) :
    /\ i = j
    /\ At(i, "write") /\ n \notin spoilt => photos[n] = <<>>

(***************************************************************************)
(* UploadStored, of a photo that uploads may still have open when they     *)
(* have all written.                                                       *)
(***************************************************************************)
Pending(n) == \E j \in Uploading(n) : At(j, "write")

Stored ==
  \A n \in Names :
    /\ ~Pending(n) /\ last[n] # Nobody /\ n \notin torn \cup spoilt =>
         /\ IsPrefix(Copied(Body(last[n])), photos[n])
         /\ n \notin mixed => Len(photos[n]) = Len(Body(last[n]))
    /\ last[n] = Nobody /\ Uploading(n) = {} => photos[n] = Photos[n]

IInv == Types /\ Numbered /\ Opened /\ Alone /\ Stored

-----------------------------------------------------------------------------
(* The smaller and the larger of two numbers, and the smallest of a set of *)
(* them, as FiniteSetsExt has them.                                        *)
LEMMA MinOf ==
  ASSUME NEW a \in Nat, NEW b \in Nat
  PROVE  Min({a, b}) = IF a <= b THEN a ELSE b
<1> DEFINE P(x) == x \in {a, b} /\ \A y \in {a, b} : x <= y
<1>1. P(IF a <= b THEN a ELSE b)
  OBVIOUS
<1>2. P(Min({a, b}))
  BY <1>1 DEF Min
<1> QED
  BY <1>1, <1>2

LEMMA MaxOf ==
  ASSUME NEW a \in Nat, NEW b \in Nat
  PROVE  Max({a, b}) = IF a >= b THEN a ELSE b
<1> DEFINE P(x) == x \in {a, b} /\ \A y \in {a, b} : x >= y
<1>1. P(IF a >= b THEN a ELSE b)
  OBVIOUS
<1>2. P(Max({a, b}))
  BY <1>1 DEF Max
<1> QED
  BY <1>1, <1>2

LEMMA MinIn ==
  ASSUME NEW S, S \subseteq Nat, S # {}
  PROVE  Min(S) \in S
<1>1. IsWellFoundedOn(OpToRel(<, Nat), Nat)
  BY NatLessThanWellFounded
<1>2. PICK m \in S : \A n \in S : ~(<<n, m>> \in OpToRel(<, Nat))
  BY <1>1, WFMin
<1>3. \A n \in S : m <= n
  <2> SUFFICES ASSUME NEW n \in S, ~(m <= n) PROVE FALSE
    OBVIOUS
  <2>1. m \in Nat /\ n \in Nat /\ n < m
    OBVIOUS
  <2>2. <<n, m>> \in OpToRel(<, Nat)
    BY <2>1 DEF OpToRel
  <2> QED
    BY <1>2, <2>2
<1> QED
  BY <1>3 DEF Min

(* The kernel gives out the lowest number that is free.                    *)
LEMMA LowestFree == Free # {} => Lowest \in Free /\ Free \subseteq Fds
<1>1. Free \subseteq Fds /\ Fds \subseteq Nat
  BY SizesAssumption DEF Free, Fds
<1> QED
  BY <1>1, MinIn DEF Lowest

(* A job is a request of a client, with an id in use and a body of bytes.  *)
LEMMA JobParts ==
  ASSUME sends \in Workloads, NEW j \in Jobs
  PROVE  /\ j[1] \in Clients
         /\ Request(j).id \in Names
         /\ Body(j) \in Seq(Bytes)
         /\ j # Nobody
<1>1. PICK c \in Clients : j \in {c} \X DOMAIN sends[c]
  BY DEF Jobs
<1>2. j = <<j[1], j[2]>> /\ j[1] = c /\ j[2] \in DOMAIN sends[c]
  BY <1>1
<1> QED
  BY <1>2, WorkloadsAssumption DEF Request, Body

(* The id a handler works with is always one in use.                       *)
LEMMA EmpIds ==
  ASSUME sends \in Workloads, NEW j \in Jobs
  PROVE  EmpId(j) \subseteq Names
BY JobParts DEF EmpId

(* strncpy keeps the length and makes no new bytes.                        *)
LEMMA CopiedSeq ==
  ASSUME NEW b \in Seq(Bytes)
  PROVE  /\ Copied(b) \in Seq(Bytes) /\ Copied(b) \in Seq(Units)
         /\ Len(Copied(b)) = Len(b)
<1>1. DOMAIN b = 1 .. Len(b) /\ Len(b) \in Nat
  OBVIOUS
<1>2. Copied(b) \in [1 .. Len(b) -> Bytes]
  BY <1>1, IdsAssumption DEF Copied
<1>3. Copied(b) \in Seq(Bytes) /\ Len(Copied(b)) = Len(b)
  BY <1>1, <1>2
<1>4. Bytes \subseteq Units
  BY DEF Units
<1> QED
  BY <1>3, <1>4, SeqMonotonic

(* What is written at the start of a file stands at its front, and is all  *)
(* of a file that was empty.                                               *)
LEMMA OverwrittenSeq ==
  ASSUME NEW file \in Seq(Units), NEW k \in Nat, NEW data \in Seq(Units)
  PROVE  /\ Overwritten(file, k, data) \in Seq(Units)
         /\ k = 0 => /\ IsPrefix(data, Overwritten(file, k, data))
                     /\ file = <<>> => Overwritten(file, k, data) = data
<1> DEFINE m == Len(file)
           n == Len(data)
           l == Max({m, k + n})
           w == Overwritten(file, k, data)
           at(i) == IF i \in k + 1 .. k + n THEN data[i - k]
                    ELSE IF i <= m THEN file[i] ELSE Nul
<1>1. m \in Nat /\ n \in Nat /\ l = IF m >= k + n THEN m ELSE k + n
  <2>1. m \in Nat /\ n \in Nat
    OBVIOUS
  <2> HIDE DEF m, n
  <2> QED
    BY <2>1, MaxOf
<1>2. Nul \in Units
  BY IdsAssumption DEF Units
<1>3. CASE data = <<>>
  <2>1. w = file
    BY <1>3 DEF Overwritten
  <2>2. n = 0 /\ SubSeq(data, 1, 0) = SubSeq(file, 1, 0)
    BY <1>3
  <2> QED
    BY <1>1, <1>3, <2>1, <2>2 DEF IsPrefix
<1>4. CASE data # <<>>
  <2>1. w = [i \in 1 .. l |-> at(i)]
    BY <1>4 DEF Overwritten
  <2>2. \A i \in 1 .. l : at(i) \in Units
    <3> SUFFICES ASSUME NEW i \in 1 .. l PROVE at(i) \in Units
      OBVIOUS
    <3> HIDE DEF l
    <3>1. CASE i \in k + 1 .. k + n
      <4>1. i - k \in 1 .. n
        BY <1>1, <3>1
      <4> QED
        BY <3>1, <4>1, ElementOfSeq
    <3>2. CASE i \notin k + 1 .. k + n
      BY <1>1, <1>2, <3>2, ElementOfSeq
    <3> QED
      BY <3>1, <3>2
  <2>3. l \in Nat
    BY <1>1
  <2> HIDE DEF l, at, w
  <2>4. w \in Seq(Units) /\ Len(w) = l /\ \A i \in 1 .. l : w[i] = at(i)
    BY <2>1, <2>2, <2>3
  <2>5. ASSUME k = 0
        PROVE  IsPrefix(data, w) /\ (file = <<>> => w = data)
    <3>1. n <= l /\ \A i \in 1 .. n : i \in 1 .. l /\ i - k = i /\ i \in k + 1 .. k + n
      <4>1. m \in Nat /\ n \in Nat /\ l \in Nat /\ n <= l
        BY <1>1, <2>5
      <4> HIDE DEF m, n
      <4> QED
        BY <2>5, <4>1
    <3>2. \A i \in 1 .. n : w[i] = data[i]
      BY <2>4, <3>1 DEF at
    <3>3. SubSeq(data, 1, n) = SubSeq(w, 1, n)
      <4>1. /\ SubSeq(data, 1, n) = [i \in 1 .. n |-> data[i]]
            /\ SubSeq(w, 1, n) = [i \in 1 .. n |-> w[i]]
        BY <1>1, <2>4, <3>1
      <4> QED
        BY <3>2, <4>1
    <3>4. IsPrefix(data, w)
      BY <2>4, <3>1, <3>3 DEF IsPrefix
    <3>5. ASSUME file = <<>> PROVE w = data
      <4>1. l = n
        BY <1>1, <2>5, <3>5
      <4> QED
        BY <2>4, <3>2, <4>1, SeqEqual
    <3> QED
      BY <3>4, <3>5
  <2> QED
    BY <2>4, <2>5 DEF w
<1> QED
  BY <1>3, <1>4

(* The buffer is some bytes long.                                          *)
LEMMA SomeSpace == ReadSize \in Nat /\ Len(<<>>) <= ReadSize
BY SizesAssumption

(* What is read is a part of the file and fits into the buffer.            *)
LEMMA ChunkSeq ==
  ASSUME NEW file \in Seq(Units), NEW k \in Nat
  PROVE  /\ NextChunk(file, k) \in Seq(Units)
         /\ Len(NextChunk(file, k)) <= ReadSize
<1> DEFINE end == Min({k + ReadSize, Len(file)})
<1>1. ReadSize \in Nat /\ Len(file) \in Nat
  BY SizesAssumption
<1>2. end \in Nat /\ end <= Len(file) /\ end <= k + ReadSize
  BY <1>1, MinOf
<1>3. SubSeq(file, k + 1, end) \in Seq(Units)
  <2> HIDE DEF end
  <2> QED
    BY <1>1, <1>2
<1>4. Len(SubSeq(file, k + 1, end)) <= ReadSize
  <2>1. CASE k + 1 <= end
    <3>1. Len(SubSeq(file, k + 1, end)) = end - (k + 1) + 1
      BY <1>2, <2>1
    <3> QED
      BY <1>1, <1>2, <3>1
  <2>2. CASE ~(k + 1 <= end)
    BY <1>1, <1>2, <2>2
  <2> QED
    BY <2>1, <2>2
<1> QED
  BY <1>3, <1>4 DEF NextChunk

-----------------------------------------------------------------------------
(* Answers without a file                                                  *)

LEMMA ListLengthNat == ListLength \in Nat
<1> DEFINE a == JsonLength(employees[1])
           b == JsonLength(employees[2])
           Length(f) == [n \in 0 .. 2 |->
             IF n = 0 THEN 2 ELSE f[n - 1] + JsonLength(employees[n])]
           f == CHOOSE g : g = Length(g)
           h == [n \in 0 .. 2 |-> IF n = 0 THEN 2 ELSE IF n = 1 THEN 2 + a ELSE 2 + a + b]
<1>1. Len(employees) = 2 /\ a \in Nat /\ b \in Nat
  BY DEF employees, JsonLength
<1> HIDE DEF a, b
<1>2. h = Length(h)
  <2>1. ASSUME NEW n \in 0 .. 2
        PROVE  h[n] = IF n = 0 THEN 2 ELSE h[n - 1] + JsonLength(employees[n])
    <3>1. n = 0 \/ n = 1 \/ n = 2
      OBVIOUS
    <3> QED
      BY <1>1, <3>1 DEF a, b
  <2> QED
    BY <2>1
<1>3. f = Length(f)
  <2> HIDE DEF Length, h
  <2> QED
    BY <1>2
<1>4. f[0] = 2 /\ f[1] = f[0] + a /\ f[2] = f[1] + b
  <2> HIDE DEF f
  <2> QED
    BY <1>3 DEF a, b
<1>5. ListLength = f[2] + 2 - 1
  BY <1>1 DEF ListLength
<1> HIDE DEF f
<1> QED
  BY <1>1, <1>4, <1>5

(* What is known of an employee has a length.                              *)
LEMMA EmployeeLengths ==
  ASSUME NEW id, Known(id)
  PROVE  Estimate(Employee(id)) \in Nat /\ JsonLength(Employee(id)) \in Nat
<1>1. \A e \in ToSet(employees) : e = employees[1] \/ e = employees[2]
  BY DEF ToSet, employees
<1>2. Employee(id) \in ToSet(employees)
  BY DEF Known, Employee
<1>3. Employee(id) = employees[1] \/ Employee(id) = employees[2]
  BY <1>1, <1>2
<1>4. /\ Estimate(employees[1]) \in Nat /\ JsonLength(employees[1]) \in Nat
      /\ Estimate(employees[2]) \in Nat /\ JsonLength(employees[2]) \in Nat
  BY DEF employees, Estimate, JsonLength
<1> QED
  BY <1>3, <1>4

(* Every answer but that for one employee announces what it has.           *)
LEMMA ReplyExact ==
  ASSUME NEW r, NEW id
  PROVE  /\ Reply(r, id) \in Answers
         /\ r.path # "employee" =>
              Reply(r, id).announced = Reply(r, id).carried
<1>1. ASSUME NEW status \in {200, 201, 404, 405, 413, 500}, NEW m \in Nat, NEW n \in Nat
      PROVE  /\ Answer(status, m, n) \in Answers
             /\ Answer(status, m, n).announced = m
             /\ Answer(status, m, n).carried = n
  BY DEF Answer, Answers
<1>2. CASE r.method = "GET" /\ r.path # "employee"
  <2>1. Reply(r, id) = Answer(200, ListLength, ListLength)
    BY <1>2 DEF Reply
  <2> QED
    BY <1>1, <2>1, ListLengthNat, SMTT(30)
<1>3. CASE r.method = "GET" /\ r.path = "employee" /\ Known(id)
  <2>1. Reply(r, id) = Answer(200, Estimate(Employee(id)), JsonLength(Employee(id)))
    BY <1>3 DEF Reply
  <2>2. Estimate(Employee(id)) \in Nat /\ JsonLength(Employee(id)) \in Nat
    BY <1>3, EmployeeLengths
  <2> QED
    BY <1>1, <1>3, <2>1, <2>2, SMTT(30)
<1>4. CASE ~(r.method = "GET" /\ (r.path # "employee" \/ Known(id)))
  <2>1. \E status \in {201, 404, 405, 413} : Reply(r, id) = Answer(status, 0, 0)
    BY <1>4 DEF Reply, Empty
  <2> QED
    BY <1>1, <2>1, SMTT(30)
<1> QED
  BY <1>2, <1>3, <1>4

LEMMA EmptyAnswer ==
  ASSUME NEW status \in {404, 500, 201}
  PROVE  /\ Empty(status) \in Answers
         /\ Empty(status).announced = Empty(status).carried
BY DEF Empty, Answer, Answers

(* One unit, as a sequence.                                                *)
LEMMA OneUnit ==
  ASSUME NEW u \in Answers
  PROVE  <<u>> \in Seq(Units) /\ u.carried \in Nat
<1>1. u \in Units
  BY DEF Units
<1> QED
  BY <1>1 DEF Answers

-----------------------------------------------------------------------------
(* What a step does to the files that others have open                     *)

\* A file is as it was, or an answer has been written to it by its writer's
\* descriptor.
Disturbs(j) ==
  /\ spoilt \subseteq spoilt'
  /\ \A n \in Names \ spoilt' : photos'[n] = photos[n]
  /\ \A n \in Names : Uploading(n) = {} =>
       photos'[n] = photos[n] /\ (n \in spoilt' <=> n \in spoilt)
  /\ \A n \in Names : photos[n] # Missing => photos'[n] # Missing
  /\ \A i \in Jobs \ {j} : offset'[i] # offset[i] =>
       Writer(i) /\ job[i].id \in spoilt'

LEMMA WriteTypes ==
  ASSUME IInv, NEW j \in Jobs, NEW units \in Seq(Units), Write(j, units)
  PROVE  /\ room' \in [Clients -> 0 .. SendSize]
         /\ photos' \in [Names -> Seq(Units) \cup {Missing}]
         /\ offset' \in [Jobs -> Nat]
<1>1. /\ room \in [Clients -> 0 .. SendSize] /\ offset \in [Jobs -> Nat]
      /\ photos \in [Names -> Seq(Units) \cup {Missing}]
      /\ SendSize \in Nat /\ Len(units) \in Nat
  BY SizesAssumption DEF IInv, Types
<1>2. ASSUME NEW d \in Connection(fd[j[1]]), Deliver(j, d, units)
      PROVE  room' \in [Clients -> 0 .. SendSize]
  <2> DEFINE n == Min({Len(units), room[d]})
  <2>1. d \in Clients /\ room[d] \in 0 .. SendSize
    BY <1>1 DEF Connection
  <2>2. n \in 0 .. room[d]
    <3>1. room[d] \in Nat
      BY <1>1, <2>1
    <3>2. n = IF Len(units) <= room[d] THEN Len(units) ELSE room[d]
      BY <1>1, <3>1, MinOf
    <3> HIDE DEF n
    <3> QED
      BY <1>1, <3>1, <3>2
  <2>3. room' = [room EXCEPT ![d] = @ - n]
    BY <1>2 DEF Deliver
  <2>4. room[d] - n \in 0 .. SendSize
    BY <1>1, <2>1, <2>2
  <2> QED
    BY <1>1, <2>1, <2>3, <2>4
<1>3. ASSUME NEW i \in Written(fd[j[1]]), Spoil(i, units)
      PROVE  /\ photos' \in [Names -> Seq(Units) \cup {Missing}]
             /\ offset' \in [Jobs -> Nat]
  <2>1. /\ i \in Jobs /\ job[i].id \in Names /\ offset[i] \in Nat
        /\ photos[job[i].id] # Missing
    BY DEF Written, IInv, Types, JobState, Opened
  <2>2. offset' \in [Jobs -> Nat]
    BY <1>1, <1>3, <2>1 DEF Spoil
  <2> DEFINE n == job[i].id
             w == Overwritten(photos[n], offset[i], units)
  <2>3. photos' = [photos EXCEPT ![n] = w]
    BY <1>3 DEF Spoil
  <2>4. w \in Seq(Units)
    BY <1>1, <2>1, OverwrittenSeq
  <2> HIDE DEF w
  <2> QED
    BY <1>1, <2>1, <2>2, <2>3, <2>4
<1> QED
  BY <1>1, <1>2, <1>3 DEF Write, Deliver, Spoil, wire

LEMMA WriteDisturbs ==
  ASSUME IInv, NEW j \in Jobs, NEW units \in Seq(Units), Write(j, units)
  PROVE  Disturbs(j)
<1>1. CASE UNCHANGED <<photos, spoilt, offset>>
  BY <1>1 DEF Disturbs
<1>2. ASSUME NEW i \in Written(fd[j[1]]), Spoil(i, units)
      PROVE  Disturbs(j)
  <2> DEFINE n == job[i].id
             w == Overwritten(photos[n], offset[i], units)
  <2>1. /\ i \in Jobs /\ Writer(i) /\ n \in Names /\ offset[i] \in Nat
        /\ photos[n] # Missing /\ photos[n] \in Seq(Units)
        /\ photos \in [Names -> Seq(Units) \cup {Missing}]
        /\ offset \in [Jobs -> Nat]
    BY DEF Written, IInv, Types, JobState, Opened
  <2>2. w \in Seq(Units) /\ w # Missing
    BY <2>1, OverwrittenSeq, PhotosAssumption
  <2>3. /\ photos' = [photos EXCEPT ![n] = w] /\ spoilt' = spoilt \cup {n}
        /\ offset' = [offset EXCEPT ![i] = @ + Len(units)]
    BY <1>2 DEF Spoil
  <2>4. i \in Uploading(n)
    BY <2>1 DEF Uploading
  <2> HIDE DEF w, n
  <2>5. /\ photos'[n] = w /\ \A m \in Names : m # n => photos'[m] = photos[m]
        /\ \A k \in Jobs : k # i => offset'[k] = offset[k]
    BY <2>1, <2>3
  <2>6. ASSUME NEW k \in Jobs, offset'[k] # offset[k]
        PROVE  Writer(k) /\ job[k].id \in spoilt'
    BY <2>1, <2>3, <2>5, <2>6 DEF n
  <2> QED
    BY <2>2, <2>3, <2>4, <2>5, <2>6 DEF Disturbs
<1> QED
  BY <1>1, <1>2 DEF Write, Deliver

(* The types of a step that gives job j the state s.                       *)
LEMMA StepTypes ==
  ASSUME Types, NEW j \in Jobs, NEW s \in JobState, Len(s.chunk) <= ReadSize,
         job' = [job EXCEPT ![j] = s],
         UNCHANGED <<sends, where, fd>>,
         photos' \in [Names -> Seq(Units) \cup {Missing}],
         offset' \in [Jobs -> Nat],
         room' \in [Clients -> 0 .. SendSize],
         failures' = failures \/ Fails,
         last' \in [Names -> Jobs \cup {Nobody}]
  PROVE  Types'
<1>1. Jobs' = Jobs
  BY DEF Jobs
<1>2. job' \in [Jobs -> JobState] /\ \A i \in Jobs : Len(job'[i].chunk) <= ReadSize
  BY DEF Types
<1>3. failures' \in 0 .. MaxFailures
  BY SizesAssumption DEF Types, Fails
<1> QED
  BY <1>1, <1>2, <1>3 DEF Types

(* A step of a job that has no file open to write, before or after it.     *)
LEMMA QuietInv ==
  ASSUME IInv, Types', UNCHANGED <<sends, where, fd, last, mixed, torn>>,
         NEW j \in Jobs, NEW s, job' = [job EXCEPT ![j] = s], Disturbs(j),
         ~Writer(j), s.at \notin {"write", "written", "sent"},
         s.at # "done" => where[j[1]] # "away",
         s.at \in {"fstat", "head", "read", "send", "ended"} =>
           photos[s.id] # Missing /\ s.id \in Names,
         s.at \in {"fstat", "head"} => offset'[j] = 0
  PROVE  IInv'
<1>1. Jobs' = Jobs /\ job \in [Jobs -> JobState] /\ sends' = sends /\ last' = last
        /\ mixed' = mixed /\ torn' = torn /\ where' = where /\ fd' = fd
  BY DEF Jobs, IInv, Types
<1>2. \A i \in Jobs : job'[i] = IF i = j THEN s ELSE job[i]
  BY <1>1
<1>3. \A i \in Jobs : /\ Writer(i)' <=> Writer(i)
                      /\ Writer(i) => job'[i] = job[i]
  BY <1>2 DEF Writer
<1>4. ASSUME NEW n
      PROVE  Uploading(n)' = Uploading(n) /\ (Pending(n)' <=> Pending(n))
  <2>1. Uploading(n)' = Uploading(n)
    BY <1>1, <1>3 DEF Uploading
  <2>2. \A i \in Uploading(n) : At(i, "write")' <=> At(i, "write")
    BY <1>1, <1>3 DEF Uploading, At
  <2> QED
    BY <2>1, <2>2 DEF Pending
<1>5. Numbered'
  <2>1. ASSUME NEW i \in Jobs, Running(i)' PROVE where[i[1]] # "away"
    BY <1>2, <2>1 DEF IInv, Numbered, Running
  <2> QED
    BY <1>1, <1>3, <2>1 DEF IInv, Numbered
<1>6. Opened'
  <2> SUFFICES ASSUME NEW i \in Jobs
               PROVE  /\ (Writer(i) \/ Reader(i))' => photos'[job'[i].id] # Missing
                      /\ job'[i].at \in {"sent", "fstat", "head"} => offset'[i] = 0
                      /\ job'[i].at = "write" /\ job'[i].id \notin spoilt' => offset'[i] = 0
                      /\ job'[i].at = "written" => last[job'[i].id] # Nobody
    BY <1>1 DEF Opened, At
  <2>1. CASE i = j
    BY <1>2, <2>1 DEF Disturbs, Writer, Reader
  <2>2. CASE i # j
    <3>1. job'[i] = job[i] /\ job[i].id \in Names
      BY <1>1, <1>2, <2>2 DEF JobState
    <3>2. /\ Writer(i) \/ Reader(i) => photos[job[i].id] # Missing
          /\ job[i].at \in {"sent", "fstat", "head"} => offset[i] = 0
          /\ job[i].at = "write" /\ job[i].id \notin spoilt => offset[i] = 0
          /\ job[i].at = "written" => last[job[i].id] # Nobody
      BY DEF IInv, Opened, At
    <3>3. Writer(i) \/ Reader(i) => photos'[job[i].id] # Missing
      BY <3>1, <3>2 DEF Disturbs
    <3>4. offset'[i] = offset[i] \/ (Writer(i) /\ job[i].id \in spoilt')
      BY <2>2 DEF Disturbs
    <3> QED
      BY <3>1, <3>2, <3>3, <3>4 DEF Disturbs, Writer, Reader
  <2> QED
    BY <2>1, <2>2
<1>7. Alone'
  <2> SUFFICES ASSUME NEW n \in Names \ mixed, NEW i \in Uploading(n),
                      NEW k \in Uploading(n)
               PROVE  /\ i = k
                      /\ At(i, "write")' /\ n \notin spoilt' => photos'[n] = <<>>
    BY <1>1, <1>4 DEF Alone
  <2>1. At(i, "write")' <=> At(i, "write")
    BY <1>3 DEF Uploading, At
  <2> QED
    BY <2>1 DEF IInv, Alone, Disturbs
<1>8. Stored'
  <2> SUFFICES ASSUME NEW n \in Names
               PROVE  /\ ~Pending(n) /\ last[n] # Nobody /\ n \notin torn \cup spoilt' =>
                           /\ IsPrefix(Copied(Body(last[n])), photos'[n])
                           /\ n \notin mixed => Len(photos'[n]) = Len(Body(last[n]))
                      /\ last[n] = Nobody /\ Uploading(n) = {} => photos'[n] = Photos[n]
    BY <1>1, <1>4 DEF Stored, Body, Request
  <2> QED
    BY DEF IInv, Stored, Disturbs
<1> QED
  BY <1>5, <1>6, <1>7, <1>8 DEF IInv

(* A step after which jobs and files are as they were.                     *)
LEMMA StillInv ==
  ASSUME IInv, Types', Numbered', UNCHANGED <<sends, disk, job, offset>>
  PROVE  IInv'
<1>1. Jobs' = Jobs
  BY DEF Jobs
<1>2. ASSUME NEW n
      PROVE  Uploading(n)' = Uploading(n) /\ (Pending(n)' <=> Pending(n))
  <2>1. Uploading(n)' = Uploading(n)
    BY <1>1 DEF Uploading, Writer
  <2> QED
    BY <2>1 DEF Pending, At
<1>3. Opened'
  BY <1>1 DEF IInv, Opened, At, Writer, Reader, disk
<1>4. Alone'
  BY <1>2 DEF IInv, Alone, At, disk
<1>5. Stored'
  BY <1>2 DEF IInv, Stored, Body, Request, disk
<1> QED
  BY <1>3, <1>4, <1>5 DEF IInv

-----------------------------------------------------------------------------
(* What a job that ends leaves behind, and what one that has not begun is. *)
LEMMA EndsInv ==
  ASSUME IInv, NEW j \in Jobs, ~Writer(j), Goto(j, "done"),
         UNCHANGED <<sends, where, fd, last, mixed, torn>>,
         NEW units \in Seq(Units), Write(j, units),
         failures' = failures \/ Fails
  PROVE  IInv'
<1> DEFINE s == [job[j] EXCEPT !.at = "done"]
<1>1. job[j] \in JobState /\ Len(job[j].chunk) <= ReadSize /\ Types
  BY DEF IInv, Types
<1>2. s \in JobState /\ s.at = "done" /\ s.chunk = job[j].chunk
  BY <1>1 DEF JobState, Places
<1>3. job' = [job EXCEPT ![j] = s]
  BY DEF Goto
<1> HIDE DEF s
<1>4. Types'
  BY <1>1, <1>2, <1>3, StepTypes, WriteTypes DEF Types
<1> QED
  BY <1>2, <1>3, <1>4, QuietInv, WriteDisturbs

LEMMA AtOnceInv ==
  ASSUME IInv, NEW j \in Jobs, HandleAtOnce(j)
  PROVE  IInv'
<1>1. PICK id \in EmpId(j) : Write(j, <<Reply(Request(j), id)>>)
  BY DEF HandleAtOnce
<1>2. <<Reply(Request(j), id)>> \in Seq(Units)
  BY ReplyExact, OneUnit
<1> QED
  BY <1>1, <1>2, EndsInv DEF HandleAtOnce, Begin, At, Writer

LEMMA RefusedInv ==
  ASSUME IInv, NEW j \in Jobs,
         UploadRefused(j) \/ UploadDone(j) \/ DownloadRefused(j)
  PROVE  IInv'
<1>1. PICK status \in {500, 201, 404} : Write(j, <<Empty(status)>>)
  BY DEF UploadRefused, UploadDone, DownloadRefused
<1>2. <<Empty(status)>> \in Seq(Units)
  BY EmptyAnswer, OneUnit
<1>3. /\ ~Writer(j) /\ Goto(j, "done")
      /\ UNCHANGED <<sends, where, fd, last, mixed, torn>>
      /\ failures' = failures \/ Fails
  BY DEF UploadRefused, UploadDone, DownloadRefused, UploadBegins, Begin, At, Writer
<1> QED
  BY <1>1, <1>2, <1>3, EndsInv

(* A download on its way from one system call to the next.                 *)
LEMMA DownloadOpensInv ==
  ASSUME IInv, NEW j \in Jobs, DownloadOpens(j)
  PROVE  IInv'
<1>1. PICK n \in EmpId(j) :
        /\ photos[n] # Missing
        /\ job' = [job EXCEPT ![j].at = "fstat", ![j].id = n, ![j].file = Lowest]
  BY DEF DownloadOpens
<1> DEFINE s == [job[j] EXCEPT !.at = "fstat", !.id = n, !.file = Lowest]
<1>2. job[j] \in JobState /\ Len(job[j].chunk) <= ReadSize /\ Types
  BY DEF IInv, Types
<1>3. n \in Names /\ Lowest \in Fds
  BY <1>2, EmpIds, LowestFree DEF Types, DownloadOpens
<1>4. /\ s \in JobState /\ s.at = "fstat" /\ s.id = n /\ s.chunk = job[j].chunk
      /\ job' = [job EXCEPT ![j] = s]
  BY <1>1, <1>2, <1>3 DEF JobState, Places, Types
<1> HIDE DEF s
<1>5. /\ UNCHANGED <<sends, where, fd, disk, offset>> /\ room' = room
      /\ failures' = failures
      /\ At(j, "sent") /\ where[j[1]] # "away"
  BY DEF DownloadOpens, Begin, wire
<1>6. Types'
  BY <1>2, <1>4, <1>5, StepTypes DEF Types, disk
<1>7. Disturbs(j) /\ ~Writer(j) /\ offset[j] = 0
  BY <1>5 DEF Disturbs, disk, Writer, At, IInv, Opened
<1> QED
  BY <1>1, <1>3, <1>4, <1>5, <1>6, <1>7, QuietInv DEF disk

LEMMA DownloadGoesOnInv ==
  ASSUME IInv, NEW j \in Jobs,
         DownloadStats(j) \/ DownloadAnnounces(j) \/ DownloadReads(j)
           \/ DownloadSends(j) \/ DownloadEnds(j) \/ DownloadCloses(j)
  PROVE  IInv'
<1>1. /\ job[j] \in JobState /\ Len(job[j].chunk) <= ReadSize /\ Types
      /\ job[j].id \in Names
  BY DEF IInv, Types, JobState
<1>2. Running(j) /\ ~Writer(j) /\ Reader(j)
  BY DEF DownloadStats, DownloadAnnounces, DownloadReads, DownloadSends,
         DownloadEnds, DownloadCloses, At, Running, Writer, Reader
<1>3. /\ photos[job[j].id] # Missing /\ File(j) \in Seq(Units)
      /\ where[j[1]] # "away" /\ offset[j] \in Nat
  BY <1>1, <1>2 DEF IInv, Types, Opened, Numbered, File
<1>0. UNCHANGED <<sends, where, fd, last, mixed, torn>>
  BY DEF DownloadStats, DownloadAnnounces, DownloadReads, DownloadSends,
         DownloadEnds, DownloadCloses, disk
<1>4. SUFFICES ASSUME NEW s \in JobState,
                      job' = [job EXCEPT ![j] = s],
                      Len(s.chunk) <= ReadSize, s.id = job[j].id,
                      s.at \in {"head", "read", "send", "ended", "done"},
                      s.at = "head" => offset'[j] = 0,
                      photos' \in [Names -> Seq(Units) \cup {Missing}],
                      offset' \in [Jobs -> Nat],
                      room' \in [Clients -> 0 .. SendSize],
                      failures' = failures \/ Fails, Disturbs(j)
               PROVE  IInv'
  <2>0. ASSUME UNCHANGED <<disk, offset>> PROVE Disturbs(j)
    BY <2>0 DEF Disturbs, disk
  <2>1. CASE DownloadStats(j)
    <3> DEFINE s == [job[j] EXCEPT !.at = "head", !.size = Len(File(j))]
    <3>0. Len(File(j)) \in Nat
      BY <1>3
    <3>1. s \in JobState /\ s.at = "head" /\ s.id = job[j].id /\ s.chunk = job[j].chunk
      BY <1>1, <3>0 DEF JobState, Places
    <3>2. /\ job' = [job EXCEPT ![j] = s] /\ room' = room /\ failures' = failures
          /\ UNCHANGED <<disk, offset>> /\ offset[j] = 0
      BY <1>1, <2>1 DEF DownloadStats, wire, Types, JobState, IInv, Opened, At
    <3> HIDE DEF s
    <3> QED
      BY <1>1, <1>4, <2>0, <3>1, <3>2 DEF Types, disk
  <2>2. CASE DownloadAnnounces(j)
    <3> DEFINE s == [job[j] EXCEPT !.at = "read"]
               u == Answer(200, job[j].size, 0)
    <3>1. s \in JobState /\ s.at = "read" /\ s.id = job[j].id /\ s.chunk = job[j].chunk
      BY <1>1 DEF JobState, Places
    <3>2. job' = [job EXCEPT ![j] = s] /\ failures' = failures /\ Write(j, <<u>>)
      BY <1>1, <2>2 DEF DownloadAnnounces, Types, JobState, Goto
    <3>3. u \in Answers
      BY <1>1 DEF Answer, Answers, JobState
    <3> HIDE DEF s, u
    <3> QED
      BY <1>1, <1>4, <3>1, <3>2, <3>3, OneUnit, WriteTypes, WriteDisturbs
  <2>3. CASE DownloadReads(j)
    <3> DEFINE chunk == NextChunk(File(j), offset[j])
               s == [job[j] EXCEPT !.at = "send", !.chunk = chunk]
    <3>1. chunk \in Seq(Units) /\ Len(chunk) <= ReadSize
      BY <1>3, ChunkSeq
    <3>2. /\ offset' = [offset EXCEPT ![j] = @ + Len(chunk)]
          /\ job' = [job EXCEPT ![j].at = "send", ![j].chunk = chunk]
      BY <2>3 DEF DownloadReads
    <3> HIDE DEF chunk
    <3>3. s \in JobState /\ s.at = "send" /\ s.id = job[j].id /\ s.chunk = chunk
      BY <1>1, <3>1 DEF JobState, Places
    <3>4. job' = [job EXCEPT ![j] = s] /\ room' = room /\ failures' = failures
            /\ UNCHANGED disk
      BY <1>1, <2>3, <3>2 DEF DownloadReads, wire, Types, JobState
    <3> HIDE DEF s
    <3>5. Len(chunk) \in Nat
      BY <3>1
    <3>6. offset' \in [Jobs -> Nat] /\ \A i \in Jobs \ {j} : offset'[i] = offset[i]
      BY <1>1, <1>3, <3>2, <3>5 DEF Types
    <3>7. Disturbs(j)
      BY <1>2, <3>4, <3>6 DEF Disturbs, disk
    <3> QED
      BY <1>1, <1>4, <3>1, <3>3, <3>4, <3>6, <3>7 DEF Types, disk
  <2>4. CASE DownloadSends(j)
    <3> DEFINE s == [job[j] EXCEPT !.at = "read", !.chunk = <<>>]
    <3>0. <<>> \in Seq(Units)
      OBVIOUS
    <3>1. s \in JobState /\ s.at = "read" /\ s.id = job[j].id /\ s.chunk = <<>>
      BY <1>1, <3>0 DEF JobState, Places
    <3>2. job' = [job EXCEPT ![j] = s] /\ failures' = failures /\ Write(j, job[j].chunk)
      BY <1>1, <2>4 DEF DownloadSends, Types, JobState
    <3>3. job[j].chunk \in Seq(Units)
      BY <1>1 DEF JobState
    <3> HIDE DEF s
    <3> QED
      BY <1>4, <3>1, <3>2, <3>3, SomeSpace, WriteTypes, WriteDisturbs
  <2>5. CASE DownloadEnds(j) \/ DownloadCloses(j)
    <3>1. PICK at \in {"ended", "done"} :
            Goto(j, at) /\ UNCHANGED <<disk, offset>> /\ room' = room
              /\ (failures' = failures \/ Fails)
      BY <2>5 DEF DownloadEnds, DownloadCloses, wire
    <3> DEFINE s == [job[j] EXCEPT !.at = at]
    <3>2. s \in JobState /\ s.at = at /\ s.id = job[j].id /\ s.chunk = job[j].chunk
      BY <1>1, <3>1 DEF JobState, Places
    <3>3. job' = [job EXCEPT ![j] = s]
      BY <3>1 DEF Goto
    <3> HIDE DEF s
    <3> QED
      BY <1>1, <1>4, <2>0, <3>1, <3>2, <3>3 DEF Types, disk
  <2> QED
    BY <2>1, <2>2, <2>3, <2>4, <2>5
<1>5. Types'
  BY <1>0, <1>1, <1>4, StepTypes DEF Types
<1> QED
  BY <1>0, <1>1, <1>2, <1>3, <1>4, <1>5, QuietInv

-----------------------------------------------------------------------------
(* An upload truncates its file and joins its writers, or is the first.    *)
LEMMA UploadOpensInv ==
  ASSUME IInv, NEW j \in Jobs, UploadOpens(j)
  PROVE  IInv'
<1>1. PICK n \in EmpId(j) :
        /\ photos' = [photos EXCEPT ![n] = Truncated(n)]
        /\ job' = [job EXCEPT ![j].at = "write", ![j].id = n, ![j].file = Lowest]
        /\ mixed' = IF Uploading(n) = {} THEN mixed \ {n} ELSE mixed \cup {n}
        /\ spoilt' = IF Uploading(n) = {} THEN spoilt \ {n} ELSE spoilt
  BY DEF UploadOpens
<1> DEFINE s == [job[j] EXCEPT !.at = "write", !.id = n, !.file = Lowest]
<1>2. job[j] \in JobState /\ Len(job[j].chunk) <= ReadSize /\ Types
  BY DEF IInv, Types
<1>3. n \in Names /\ Lowest \in Fds /\ Lowest \in Free
  BY <1>2, EmpIds, LowestFree DEF Types, UploadOpens
<1>4. /\ s \in JobState /\ s.at = "write" /\ s.id = n /\ s.chunk = job[j].chunk
      /\ s.file = Lowest /\ job' = [job EXCEPT ![j] = s]
  BY <1>1, <1>2, <1>3 DEF JobState, Places, IInv, Types
<1> HIDE DEF s
<1>5. <<>> \in Seq(Units) /\ <<>> # Missing
  <2>1. <<>> \in Seq(Units)
    OBVIOUS
  <2> QED
    BY <2>1, PhotosAssumption
<1>6. /\ photos' \in [Names -> Seq(Units) \cup {Missing}]
      /\ \A m \in Names : photos'[m] = IF m = n THEN <<>> ELSE photos[m]
  BY <1>1, <1>2, <1>3, <1>5 DEF Types, Truncated
<1>7. /\ sends' = sends /\ where' = where /\ fd' = fd
      /\ last' = last /\ torn' = torn /\ offset' = offset
      /\ room' = room /\ failures' = failures
      /\ At(j, "sent") /\ where[j[1]] # "away" /\ ~Writer(j) /\ offset[j] = 0
  BY DEF UploadOpens, UploadBegins, Begin, wire, Writer, At, IInv, Opened
<1>8. Types'
  BY <1>2, <1>4, <1>6, <1>7, StepTypes DEF Types
<1>9. Jobs' = Jobs /\ \A i \in Jobs : job'[i] = IF i = j THEN s ELSE job[i]
  BY <1>2, <1>4, <1>7 DEF Types, Jobs
<1>10. ASSUME NEW m
       PROVE  Uploading(m)' = IF m = n THEN Uploading(n) \cup {j} ELSE Uploading(m)
  <2>1. ASSUME NEW i \in Jobs
        PROVE  i \in Uploading(m)' <=> i \in IF m = n THEN Uploading(n) \cup {j} ELSE Uploading(m)
    BY <1>4, <1>7, <1>9 DEF Uploading, Writer
  <2>2. Uploading(m) \subseteq Jobs /\ Uploading(m)' \subseteq Jobs /\ Uploading(n) \subseteq Jobs
    BY <1>9 DEF Uploading
  <2> QED
    BY <2>1, <2>2
<1>11. Numbered'
  <2>1. ASSUME NEW c \in Clients, NEW i \in Jobs, where[c] = "open", Writer(i)'
        PROVE  job'[i].file # fd[c]
    <3>1. CASE i = j
      BY <1>3, <1>4, <1>9, <2>1, <3>1 DEF Free, Connection
    <3>2. CASE i # j
      BY <1>9, <2>1, <3>2 DEF IInv, Numbered, Writer
    <3> QED
      BY <3>1, <3>2
  <2>2. ASSUME NEW i \in Jobs, Running(i)' PROVE where[i[1]] # "away"
    BY <1>7, <1>9, <2>2 DEF IInv, Numbered, Running
  <2> QED
    BY <1>7, <1>9, <2>1, <2>2 DEF IInv, Numbered
<1>12. Opened'
  <2> SUFFICES ASSUME NEW i \in Jobs
               PROVE  /\ (Writer(i) \/ Reader(i))' => photos'[job'[i].id] # Missing
                      /\ job'[i].at \in {"sent", "fstat", "head"} => offset[i] = 0
                      /\ job'[i].at = "write" /\ job'[i].id \notin spoilt' => offset[i] = 0
                      /\ job'[i].at = "written" => last[job'[i].id] # Nobody
    BY <1>7, <1>9 DEF Opened, At
  <2>1. CASE i = j
    <3>1. job'[i] = s /\ photos'[n] # Missing
      BY <1>3, <1>5, <1>6, <1>9, <2>1
    <3> QED
      BY <1>4, <1>7, <2>1, <3>1
  <2>2. CASE i # j
    <3>1. job'[i] = job[i] /\ job[i].id \in Names
      BY <1>2, <1>9, <2>2 DEF Types, JobState
    <3>2. Writer(i) /\ job[i].id = n => spoilt' = spoilt
      BY <1>1 DEF Uploading
    <3>3. job[i].id # n => (job[i].id \in spoilt' <=> job[i].id \in spoilt)
      BY <1>1
    <3>4. /\ Writer(i) \/ Reader(i) => photos[job[i].id] # Missing
          /\ job[i].at \in {"sent", "fstat", "head"} => offset[i] = 0
          /\ job[i].at = "write" /\ job[i].id \notin spoilt => offset[i] = 0
          /\ job[i].at = "written" => last[job[i].id] # Nobody
      BY DEF IInv, Opened, At
    <3>5. Writer(i) \/ Reader(i) => photos'[job[i].id] # Missing
      BY <1>5, <1>6, <3>1, <3>4
    <3>6. job[i].at = "write" /\ job[i].id \notin spoilt' => offset[i] = 0
      BY <3>2, <3>3, <3>4 DEF Writer
    <3> QED
      BY <3>1, <3>4, <3>5, <3>6 DEF Writer, Reader
  <2> QED
    BY <2>1, <2>2
<1>13. Alone'
  <2> SUFFICES ASSUME NEW m \in Names \ mixed', NEW i \in Uploading(m)',
                      NEW k \in Uploading(m)'
               PROVE  i = k /\ (At(i, "write")' /\ m \notin spoilt' => photos'[m] = <<>>)
    BY DEF Alone
  <2>1. CASE m = n
    <3>1. Uploading(n) = {}
      BY <1>1, <2>1
    <3> QED
      BY <1>6, <1>10, <2>1, <3>1
  <2>2. CASE m # n
    <3>1. m \notin mixed /\ (m \in spoilt' <=> m \in spoilt)
      BY <1>1, <2>2
    <3>2. i \in Uploading(m) /\ k \in Uploading(m) /\ i # j
      BY <1>7, <1>10, <2>2 DEF Uploading
    <3>3. At(i, "write")' <=> At(i, "write")
      BY <1>9, <3>2 DEF At, Uploading
    <3> QED
      BY <1>6, <2>2, <3>1, <3>2, <3>3 DEF IInv, Alone
  <2> QED
    BY <2>1, <2>2
<1>14. Stored'
  <2> SUFFICES ASSUME NEW m \in Names
               PROVE  /\ ~Pending(m)' /\ last[m] # Nobody /\ m \notin torn \cup spoilt' =>
                           /\ IsPrefix(Copied(Body(last[m])), photos'[m])
                           /\ m \notin mixed' => Len(photos'[m]) = Len(Body(last[m]))
                      /\ last[m] = Nobody /\ Uploading(m)' = {} => photos'[m] = Photos[m]
    BY <1>7 DEF Stored, Body, Request
  <2>1. CASE m = n
    <3>1. j \in Uploading(m)' /\ At(j, "write")'
      BY <1>4, <1>9, <1>10, <2>1 DEF At
    <3> QED
      BY <3>1 DEF Pending
  <2>2. CASE m # n
    <3>1. /\ photos'[m] = photos[m] /\ (m \in mixed' <=> m \in mixed)
          /\ m \in spoilt' <=> m \in spoilt
      BY <1>1, <1>6, <2>2
    <3>2. Uploading(m)' = Uploading(m) /\ j \notin Uploading(m)
      BY <1>7, <1>10, <2>2 DEF Uploading
    <3>3. Pending(m)' <=> Pending(m)
      BY <1>9, <3>2 DEF Pending, At, Uploading
    <3> QED
      BY <3>1, <3>2, <3>3 DEF IInv, Stored
  <2> QED
    BY <2>1, <2>2
<1> QED
  BY <1>8, <1>11, <1>12, <1>13, <1>14 DEF IInv

(* A write of an upload puts its data, or the front of it, where the       *)
(* position is: at the front, unless an answer has moved it.               *)
LEMMA UploadWritesInv ==
  ASSUME IInv, NEW j \in Jobs, UploadWrites(j)
  PROVE  IInv'
<1> DEFINE n == job[j].id
           data == Copied(Body(j))
           s == [job[j] EXCEPT !.at = "written"]
<1>1. job[j] \in JobState /\ Len(job[j].chunk) <= ReadSize /\ Types
  BY DEF IInv, Types
<1>2. /\ n \in Names /\ At(j, "write") /\ Writer(j) /\ photos[n] \in Seq(Units)
      /\ offset[j] \in Nat /\ (n \notin spoilt => offset[j] = 0)
  BY <1>1 DEF UploadWrites, IInv, Types, Opened, Writer, At, JobState
<1>3. j \in Uploading(n)
  BY <1>2 DEF Uploading
<1>4. /\ s \in JobState /\ s.at = "written" /\ s.id = n /\ s.chunk = job[j].chunk
      /\ s.file = job[j].file /\ job' = [job EXCEPT ![j] = s]
  BY <1>1 DEF JobState, Places, UploadWrites, Goto
<1>5. /\ data \in Seq(Units) /\ Len(data) = Len(Body(j)) /\ Len(data) \in Nat
      /\ j # Nobody
  BY <1>1, JobParts, CopiedSeq DEF Types
<1>6. PICK k \in 0 .. Len(data) :
        /\ photos' = [photos EXCEPT ![n] =
                        Overwritten(@, offset[j], SubSeq(data, 1, k))]
        /\ offset' = [offset EXCEPT ![j] = @ + k]
        /\ \/ k = Len(data) /\ torn' = torn \ {n} /\ failures' = failures
           \/ k < Len(data) /\ torn' = torn \cup {n} /\ Fails
  BY DEF UploadWrites
<1> HIDE DEF s
<1>7. /\ sends' = sends /\ mixed' = mixed /\ room' = room
      /\ where' = where /\ fd' = fd /\ spoilt' = spoilt
      /\ last' = [last EXCEPT ![n] = j]
  BY DEF UploadWrites, wire
<1> DEFINE d == SubSeq(data, 1, k)
           w == Overwritten(photos[n], offset[j], d)
<1>8. d \in Seq(Units) /\ (k = Len(data) => d = data)
  <2> HIDE DEF data
  <2> QED
    BY <1>5
<1> HIDE DEF data, d
<1>9. /\ w \in Seq(Units)
      /\ n \notin spoilt => IsPrefix(d, w)
      /\ n \notin spoilt /\ photos[n] = <<>> => w = d
  BY <1>2, <1>8, OverwrittenSeq
<1>10. photos' = [photos EXCEPT ![n] = w]
  BY <1>6 DEF d
<1> HIDE DEF w
<1>11. /\ photos' \in [Names -> Seq(Units) \cup {Missing}]
       /\ \A m \in Names : photos'[m] = IF m = n THEN w ELSE photos[m]
  BY <1>1, <1>2, <1>9, <1>10 DEF Types
<1>12. /\ last' \in [Names -> Jobs \cup {Nobody}]
       /\ \A m \in Names : last'[m] = IF m = n THEN j ELSE last[m]
  BY <1>1, <1>2, <1>7 DEF Types
<1>13. /\ offset' \in [Jobs -> Nat]
       /\ \A i \in Jobs : i # j => offset'[i] = offset[i]
  BY <1>1, <1>2, <1>5, <1>6 DEF Types
<1>14. Types'
  BY <1>1, <1>4, <1>6, <1>7, <1>11, <1>12, <1>13, StepTypes DEF Types
<1>15. Jobs' = Jobs /\ \A i \in Jobs : job'[i] = IF i = j THEN s ELSE job[i]
  BY <1>1, <1>4, <1>7 DEF Types, Jobs
<1> HIDE DEF n
<1>16. /\ \A i \in Jobs : (Writer(i)' <=> Writer(i)) /\ job'[i].id = job[i].id
                         /\ job'[i].file = job[i].file
       /\ \A m : Uploading(m)' = Uploading(m)
  <2>1. \A i \in Jobs : (Writer(i)' <=> Writer(i)) /\ job'[i].id = job[i].id
                         /\ job'[i].file = job[i].file
    BY <1>2, <1>4, <1>15 DEF Writer, n
  <2> QED
    BY <1>15, <2>1 DEF Uploading
<1>17. Numbered'
  <2>1. ASSUME NEW i \in Jobs, Running(i)' PROVE where[i[1]] # "away"
    BY <1>2, <1>15, <2>1 DEF IInv, Numbered, Running, At
  <2> QED
    BY <1>7, <1>15, <1>16, <2>1 DEF IInv, Numbered
<1>18. Opened'
  <2> SUFFICES ASSUME NEW i \in Jobs
               PROVE  /\ (Writer(i) \/ Reader(i))' => photos'[job'[i].id] # Missing
                      /\ job'[i].at \in {"sent", "fstat", "head"} => offset'[i] = 0
                      /\ job'[i].at = "write" /\ job'[i].id \notin spoilt => offset'[i] = 0
                      /\ job'[i].at = "written" => last'[job'[i].id] # Nobody
    BY <1>7, <1>15 DEF Opened, At
  <2>1. photos'[n] # Missing /\ last'[n] # Nobody
    BY <1>2, <1>5, <1>9, <1>11, <1>12, PhotosAssumption
  <2>2. CASE i = j
    <3>1. job'[i] = s
      BY <1>15, <2>2
    <3> QED
      BY <1>4, <2>1, <3>1 DEF Writer, Reader, n
  <2>3. CASE i # j
    <3>1. job'[i] = job[i] /\ job[i].id \in Names /\ offset'[i] = offset[i]
      BY <1>1, <1>13, <1>15, <2>3 DEF Types, JobState
    <3>2. /\ Writer(i) \/ Reader(i) => photos[job[i].id] # Missing
          /\ job[i].at \in {"sent", "fstat", "head"} => offset[i] = 0
          /\ job[i].at = "write" /\ job[i].id \notin spoilt => offset[i] = 0
          /\ job[i].at = "written" => last[job[i].id] # Nobody
      BY DEF IInv, Opened, At
    <3> QED
      BY <1>11, <1>12, <2>1, <3>1, <3>2 DEF Writer, Reader
  <2> QED
    BY <2>2, <2>3
<1>19. Alone'
  <2> SUFFICES ASSUME NEW m \in Names \ mixed, NEW i \in Uploading(m),
                      NEW k_1 \in Uploading(m)
               PROVE  i = k_1 /\ (At(i, "write")' /\ m \notin spoilt => photos'[m] = <<>>)
    BY <1>7, <1>16 DEF Alone
  <2>1. CASE m = n
    <3>1. i = j /\ k_1 = j
      BY <1>3, <2>1 DEF IInv, Alone
    <3> QED
      BY <1>4, <1>15, <3>1 DEF At
  <2>2. CASE m # n
    <3>1. i # j /\ i \in Jobs
      BY <2>2 DEF Uploading, n
    <3> QED
      BY <1>11, <1>15, <2>2, <3>1 DEF IInv, Alone, At
  <2> QED
    BY <2>1, <2>2
<1>20. Stored'
  <2> SUFFICES ASSUME NEW m \in Names
               PROVE  /\ ~Pending(m)' /\ last'[m] # Nobody /\ m \notin torn' \cup spoilt =>
                           /\ IsPrefix(Copied(Body(last'[m])), photos'[m])
                           /\ m \notin mixed => Len(photos'[m]) = Len(Body(last'[m]))
                      /\ last'[m] = Nobody /\ Uploading(m) = {} => photos'[m] = Photos[m]
    BY <1>7, <1>16 DEF Stored, Body, Request
  <2>1. CASE m = n
    <3>1. last'[m] = j /\ photos'[m] = w
      BY <1>11, <1>12, <2>1
    <3>2. m \notin torn' => d = data
      BY <1>2, <1>6, <1>8, <2>1
    <3>3. m \notin mixed /\ m \notin spoilt => w = d
      BY <1>2, <1>3, <1>9, <2>1 DEF IInv, Alone
    <3>4. data = Copied(Body(j))
      BY DEF data
    <3> QED
      BY <1>5, <1>9, <2>1, <3>1, <3>2, <3>3, <3>4
  <2>2. CASE m # n
    <3>1. photos'[m] = photos[m] /\ last'[m] = last[m] /\ (m \in torn' <=> m \in torn)
      BY <1>6, <1>11, <1>12, <2>2
    <3>2. j \notin Uploading(m)
      BY <2>2 DEF Uploading, n
    <3>3. Pending(m)' <=> Pending(m)
      BY <1>15, <1>16, <3>2 DEF Pending, At, Uploading
    <3> QED
      BY <3>1, <3>3 DEF IInv, Stored
  <2> QED
    BY <2>1, <2>2
<1> QED
  BY <1>14, <1>17, <1>18, <1>19, <1>20 DEF IInv

(* A file that is closed has been written.                                 *)
LEMMA UploadClosesInv ==
  ASSUME IInv, NEW j \in Jobs, UploadCloses(j)
  PROVE  IInv'
<1> DEFINE s == [job[j] EXCEPT !.at = "created"]
           n == job[j].id
<1>1. job[j] \in JobState /\ Len(job[j].chunk) <= ReadSize /\ Types
  BY DEF IInv, Types
<1>2. /\ s \in JobState /\ s.at = "created" /\ s.chunk = job[j].chunk
      /\ job' = [job EXCEPT ![j] = s]
  BY <1>1 DEF JobState, Places, UploadCloses, Goto
<1> HIDE DEF s
<1>3. /\ UNCHANGED <<sends, where, fd, photos, last, mixed, torn, spoilt, offset>>
      /\ room' = room /\ failures' = failures /\ At(j, "written") /\ Writer(j)
      /\ last[n] # Nobody
  BY DEF UploadCloses, wire, disk, At, Writer, IInv, Opened
<1>4. Types'
  BY <1>1, <1>2, <1>3, StepTypes DEF Types
<1>5. Jobs' = Jobs /\ \A i \in Jobs : job'[i] = IF i = j THEN s ELSE job[i]
  BY <1>1, <1>2, <1>3 DEF Types, Jobs
<1>6. ASSUME NEW m
      PROVE  /\ Uploading(m)' = Uploading(m) \ {j}
             /\ Pending(m)' <=> Pending(m)
  <2>1. Uploading(m)' = Uploading(m) \ {j}
    BY <1>2, <1>5 DEF Uploading, Writer
  <2>2. \A i \in Uploading(m) : i # j => (At(i, "write")' <=> At(i, "write"))
    BY <1>5 DEF Uploading, At
  <2> QED
    BY <1>3, <2>1, <2>2 DEF Pending, At
<1>7. Numbered'
  BY <1>2, <1>3, <1>5 DEF IInv, Numbered, Writer, Running, At
<1>8. Opened'
  <2> SUFFICES ASSUME NEW i \in Jobs
               PROVE  /\ (Writer(i) \/ Reader(i))' => photos[job'[i].id] # Missing
                      /\ job'[i].at \in {"sent", "fstat", "head"} => offset[i] = 0
                      /\ job'[i].at = "write" /\ job'[i].id \notin spoilt => offset[i] = 0
                      /\ job'[i].at = "written" => last[job'[i].id] # Nobody
    BY <1>3, <1>5 DEF Opened, At
  <2>1. CASE i = j
    BY <1>2, <1>5, <2>1 DEF Writer, Reader
  <2>2. CASE i # j
    BY <1>5, <2>2 DEF Writer, Reader, IInv, Opened, At
  <2> QED
    BY <2>1, <2>2
<1>9. Alone'
  <2> SUFFICES ASSUME NEW m \in Names \ mixed, NEW i \in Uploading(m) \ {j},
                      NEW k \in Uploading(m) \ {j}
               PROVE  i = k /\ (At(i, "write")' /\ m \notin spoilt => photos[m] = <<>>)
    BY <1>3, <1>6 DEF Alone
  <2>1. At(i, "write")' <=> At(i, "write")
    BY <1>5 DEF Uploading, At
  <2> QED
    BY <2>1 DEF IInv, Alone
<1>10. Stored'
  <2> SUFFICES ASSUME NEW m \in Names
               PROVE  /\ ~Pending(m) /\ last[m] # Nobody /\ m \notin torn \cup spoilt =>
                           /\ IsPrefix(Copied(Body(last[m])), photos[m])
                           /\ m \notin mixed => Len(photos[m]) = Len(Body(last[m]))
                      /\ last[m] = Nobody /\ Uploading(m) \ {j} = {} =>
                           photos[m] = Photos[m]
    BY <1>3, <1>6 DEF Stored, Body, Request
  <2>1. last[m] = Nobody => j \notin Uploading(m)
    BY <1>3 DEF Uploading
  <2> QED
    BY <2>1 DEF IInv, Stored
<1> QED
  BY <1>4, <1>7, <1>8, <1>9, <1>10 DEF IInv

-----------------------------------------------------------------------------
(* Clients come and go, and read.                                          *)
LEMMA ConnectInv ==
  ASSUME IInv, NEW c \in Clients, Connect(c)
  PROVE  IInv'
<1>1. /\ Lowest \in Free /\ Lowest \in Fds /\ where[c] = "away"
      /\ where' = [where EXCEPT ![c] = "open"] /\ fd' = [fd EXCEPT ![c] = Lowest]
      /\ UNCHANGED <<sends, disk, job, offset>>
      /\ room' = room /\ failures' = failures
  BY LowestFree DEF Connect, wire
<1>2. Types /\ Jobs' = Jobs
  BY <1>1 DEF IInv, Jobs
<1>3. Types'
  BY <1>1, <1>2 DEF Types, disk
<1>4. /\ \A d \in Clients : where'[d] = IF d = c THEN "open" ELSE where[d]
      /\ \A d \in Clients : fd'[d] = IF d = c THEN Lowest ELSE fd[d]
  BY <1>1, <1>2 DEF Types
<1>5. \A d \in Clients : where[d] = "open" => fd[d] # Lowest
  BY <1>1 DEF Free, Connection
<1>6. \A j \in Jobs : Writer(j) => job[j].file # Lowest
  BY <1>1 DEF Free, Written
<1>7. \A j \in Jobs : (Writer(j)' <=> Writer(j)) /\ (Running(j)' <=> Running(j))
  BY <1>1 DEF Writer, Running
<1>8. ASSUME NEW d \in Clients, NEW e \in Clients, where'[d] = "open",
             where'[e] = "open", fd'[d] = fd'[e]
      PROVE  d = e
  BY <1>4, <1>5, <1>8 DEF IInv, Numbered
<1>9. ASSUME NEW d \in Clients, NEW j \in Jobs, where'[d] = "open", Writer(j)
      PROVE  job[j].file # fd'[d]
  BY <1>4, <1>6, <1>9 DEF IInv, Numbered
<1>10. ASSUME NEW j \in Jobs, Running(j)
       PROVE  where'[j[1]] # "away"
  <2>1. j[1] \in Clients
    BY <1>2, JobParts DEF Types
  <2> QED
    BY <1>4, <1>10, <2>1 DEF IInv, Numbered
<1>11. Numbered'
  BY <1>1, <1>2, <1>7, <1>8, <1>9, <1>10 DEF Numbered
<1> QED
  BY <1>1, <1>3, <1>11, StillInv

LEMMA DisconnectInv ==
  ASSUME IInv, NEW c \in Clients, Disconnect(c)
  PROVE  IInv'
<1>1. /\ where' = [where EXCEPT ![c] = "closed"] /\ fd' = fd
      /\ UNCHANGED <<sends, disk, job, offset>>
      /\ room' = room /\ failures' = failures
  BY DEF Disconnect, wire
<1>2. Types /\ Jobs' = Jobs
  BY <1>1 DEF IInv, Jobs
<1>3. Types'
  BY <1>1, <1>2 DEF Types, disk
<1>4. \A d \in Clients : where'[d] = IF d = c THEN "closed" ELSE where[d]
  BY <1>1, <1>2 DEF Types
<1>5. \A j \in Jobs : (Writer(j)' <=> Writer(j)) /\ (Running(j)' <=> Running(j))
  BY <1>1 DEF Writer, Running
<1>6. \A j \in Jobs : j[1] \in Clients
  BY <1>2, JobParts DEF Types
<1>7. Numbered'
  BY <1>1, <1>2, <1>4, <1>5, <1>6 DEF IInv, Numbered
<1> QED
  BY <1>1, <1>3, <1>7, StillInv

LEMMA ElseInv ==
  ASSUME IInv,
         \/ \E c \in Clients : ClientReads(c)
         \/ \E j \in Jobs : Overrun(j)
         \/ UNCHANGED vars
  PROVE  IInv'
<1>1. /\ UNCHANGED <<sends, where, fd, disk, job, offset>>
      /\ failures' = failures
  BY DEF ClientReads, Overrun, vars
<1>2. room' \in [Clients -> 0 .. SendSize]
  BY SizesAssumption DEF ClientReads, Overrun, vars, wire, IInv, Types
<1>3. Jobs' = Jobs
  BY <1>1 DEF Jobs
<1>4. Types'
  BY <1>1, <1>2, <1>3 DEF IInv, Types, disk
<1>5. Numbered'
  BY <1>1, <1>3 DEF IInv, Numbered, Writer, Running
<1> QED
  BY <1>1, <1>4, <1>5, StillInv

-----------------------------------------------------------------------------
LEMMA InitInv == Init => IInv
<1> SUFFICES ASSUME Init PROVE IInv
  OBVIOUS
<1>1. <<>> \in Seq(Units) /\ Len(<<>>) <= ReadSize
  BY SomeSpace
<1>2. Fresh \in JobState /\ Fresh.at = "sent" /\ Len(Fresh.chunk) <= ReadSize
  <2>1. 0 \in Fds
    BY SizesAssumption DEF Fds
  <2> QED
    BY <1>1, <2>1 DEF Fresh, JobState, Places, Names
<1>3. \A j \in Jobs : job[j] = Fresh
  BY DEF Init
<1>4. Types
  <2>1. SendSize \in 0 .. SendSize /\ 0 \in 0 .. MaxFailures /\ 0 \in Nat
    BY SizesAssumption
  <2>2. photos \in [Names -> Seq(Units) \cup {Missing}]
    <3>1. Bytes \subseteq Units
      BY DEF Units
    <3>2. Seq(Bytes) \subseteq Seq(Units)
      BY <3>1, SeqMonotonic
    <3> QED
      BY <3>2, PhotosAssumption DEF Init
  <2>3. where \in [Clients -> {"away", "open", "closed"}]
    BY DEF Init
  <2> QED
    BY <1>2, <1>3, <2>1, <2>2, <2>3 DEF Init, Types
<1>5. \A j \in Jobs : ~Writer(j) /\ ~Reader(j) /\ ~Running(j)
  BY <1>2, <1>3 DEF Writer, Reader, Running
<1>6. Numbered
  BY <1>5 DEF Init, Numbered
<1>7. Opened
  BY <1>2, <1>3, <1>5 DEF Opened, At, Init
<1>8. ASSUME NEW n PROVE Uploading(n) = {}
  BY <1>5 DEF Uploading
<1>9. Alone
  BY <1>8 DEF Alone
<1>10. Stored
  BY DEF Stored, Init
<1> QED
  BY <1>4, <1>6, <1>7, <1>9, <1>10 DEF IInv

LEMMA StepInv == IInv /\ [Next]_vars => IInv'
<1> SUFFICES ASSUME IInv, [Next]_vars PROVE IInv'
  OBVIOUS
<1>1. ASSUME NEW j \in Jobs, HandleAtOnce(j) \/ Upload(j) \/ Download(j)
      PROVE  IInv'
  BY <1>1, AtOnceInv, RefusedInv, UploadOpensInv, UploadWritesInv, UploadClosesInv,
     DownloadOpensInv, DownloadGoesOnInv DEF Upload, Download
<1>2. ASSUME NEW c \in Clients, Connect(c) \/ Disconnect(c)
      PROVE  IInv'
  BY <1>2, ConnectInv, DisconnectInv
<1> QED
  BY <1>1, <1>2, ElseInv DEF Next

LEMMA InvCorrect == Spec => []IInv
BY InitInv, StepInv, PTL DEF Spec

LEMMA InvTypes == IInv => TypeOK
BY DEF IInv, Types, TypeOK, JobState, Places

(***************************************************************************)
(* The files are bytes and answers or missing, a job is at a system call   *)
(* of its handler with an id in use, a descriptor there is, and no more    *)
(* read than its buffer holds, and sockets take no more than they have     *)
(* room for.                                                               *)
(***************************************************************************)
THEOREM TypeCorrect == Spec => []TypeOK
BY InvCorrect, InvTypes, PTL

(***************************************************************************)
(* When nobody uploads it, a photo that no answer was written to begins    *)
(* with the body of the upload that wrote last and, if no other overlapped *)
(* it, is that body; a photo nobody wrote is as it was found.              *)
(***************************************************************************)
THEOREM UploadsStored == Spec => []UploadStored
<1>1. IInv => UploadStored
  <2> SUFFICES ASSUME IInv, NEW n \in Names
               PROVE  /\ Settled(n) =>
                           /\ IsPrefix(Copied(Body(last[n])), photos[n])
                           /\ n \notin mixed => Len(photos[n]) = Len(Body(last[n]))
                      /\ last[n] = Nobody /\ Uploading(n) = {} =>
                           photos[n] = Photos[n]
    BY DEF UploadStored
  <2>1. Uploading(n) = {} => ~Pending(n)
    BY DEF Pending
  <2> QED
    BY <2>1 DEF IInv, Stored, Settled
<1> QED
  BY InvCorrect, <1>1, PTL

-----------------------------------------------------------------------------
(***************************************************************************)
(* AnswersExact: the answers on the wire.  What goes over it is a unit of  *)
(* an answer, with the job it is from.                                     *)
(***************************************************************************)
Pieces == Jobs \X Units

WireTypes ==
  /\ got \in [Clients -> Seq(Pieces)]
  /\ opened \in [Jobs -> Seq(Units) \cup {Missing}]

(***************************************************************************)
(* How far an answer has come when its job is at one of its system calls.  *)
(* A download has sent what it has read, and has read the file from the    *)
(* start to the offset; it is the file it opened unless an upload met it.  *)
(***************************************************************************)
Answered(j) ==
  /\ Received(j) # <<>>
  /\ opened[j] # Missing /\ j \notin met => Payload(j) = opened[j]
  /\ j \notin met /\ Request(j).path # "employee" =>
       Header(j).announced = Header(j).carried + Len(Payload(j))

Sending(j) ==
  /\ Received(j) # <<>>
  /\ j \notin met =>
       /\ Header(j) = Answer(200, Len(opened[j]), 0)
       /\ offset[j] <= Len(opened[j])
       /\ Payload(j) \o job[j].chunk = SubSeq(opened[j], 1, offset[j])

Answering(j) ==
  /\ job[j].at \in {"sent", "write", "written", "created"} =>
       Received(j) = <<>> /\ opened[j] = Missing
  /\ job[j].at \in {"fstat", "head"} => Received(j) = <<>>
  /\ Reader(j) => opened[j] # Missing /\ (j \notin met => opened[j] = File(j))
  /\ At(j, "head") /\ j \notin met => job[j].size = Len(opened[j])
  /\ ~At(j, "send") => job[j].chunk = <<>>
  /\ job[j].at \in {"read", "send"} /\ j \notin cut => Sending(j)
  /\ job[j].at \in {"ended", "done"} /\ j \notin cut => Answered(j)

(***************************************************************************)
(* While a job runs that ran beside no other of its connection, and that   *)
(* no answer of somebody else met, its answer is the last on the wire;     *)
(* then others may follow.                                                 *)
(***************************************************************************)
AtEnd(j) == \E p \in Seq(Pieces) : got[j[1]] = p \o Received(j)
Whole(j) == \E p, q \in Seq(Pieces) : got[j[1]] = (p \o Received(j)) \o q

InPlace(j) ==
  j \notin crossed \cup struck =>
    (Running(j) => AtEnd(j)) /\ (At(j, "done") => Whole(j))

Beside ==
  \A i, j \in Jobs :
    i # j /\ i[1] = j[1] /\ Running(i) /\ Running(j) => i \in crossed

Met == \A n \in Names : Uploading(n) # {} => Downloading(n) \subseteq met

(***************************************************************************)
(* Who is sent something that is not for it has the number of a connection *)
(* that was closed.                                                        *)
(***************************************************************************)
Owned ==
  \A c \in Clients : \A u \in ToSet(got[c]) :
    u[1][1] = c \/ where[u[1][1]] = "closed"

WireInv ==
  /\ WireTypes
  /\ \A j \in Jobs : where[j[1]] # "closed" => Answering(j) /\ InPlace(j)
  /\ Beside /\ Met /\ Owned

-----------------------------------------------------------------------------
(* What is on the wire of a job                                            *)

\* One sequence behind the other, as a fact to instantiate lemmas with.
Joined(w, s, t) == w = s \o t

\* The pieces of a stream that are from job k.
For(stream, k) == Kept(stream, {u \in ToSet(stream) : u[1] = k})

(* The items of two sequences, one behind the other.                       *)
LEMMA ConcatItems ==
  ASSUME NEW A, NEW s \in Seq(A), NEW t \in Seq(A), NEW w, w = s \o t
  PROVE  /\ w \in Seq(A) /\ Len(w) = Len(s) + Len(t)
         /\ DOMAIN w = 1 .. Len(s) + Len(t)
         /\ Len(s) \in Nat /\ Len(t) \in Nat
         /\ \A i \in 1 .. Len(s) : w[i] = s[i]
         /\ \A i \in 1 .. Len(t) : w[Len(s) + i] = t[i]
<1>1. /\ w \in Seq(A) /\ Len(w) = Len(s) + Len(t)
      /\ Len(s) \in Nat /\ Len(t) \in Nat
  BY LenProperties, ConcatProperties
<1>2. /\ \A i \in 1 .. Len(t) :
           /\ Len(s) + i \in 1 .. Len(s) + Len(t)
           /\ ~(Len(s) + i <= Len(s)) /\ (Len(s) + i) - Len(s) = i
      /\ \A i \in 1 .. Len(s) : i \in 1 .. Len(s) + Len(t) /\ i <= Len(s)
  BY <1>1
<1> QED
  BY <1>1, <1>2, LenProperties, ConcatProperties

LEMMA ForConcat ==
  ASSUME NEW U, NEW s \in Seq(U), NEW t \in Seq(U), NEW k, NEW w, Joined(w, s, t)
  PROVE  /\ For(s, k) \in Seq(U)
         /\ (\A i \in 1 .. Len(t) : t[i][1] = k) =>
              Joined(For(w, k), For(s, k), t)
         /\ (\A i \in 1 .. Len(t) : t[i][1] # k) => For(w, k) = For(s, k)
<1> DEFINE S == {u \in ToSet(s) : u[1] = k}
           T == {u \in ToSet(w) : u[1] = k}
<1> HIDE DEF S, T
<1>0. w = s \o t
  BY DEF Joined
<1>1. /\ \A i \in 1 .. Len(s) : s[i] \in ToSet(s) /\ s[i] \in ToSet(w)
      /\ \A i \in 1 .. Len(t) : t[i] \in ToSet(w)
  <2>1. /\ Len(s) \in Nat /\ Len(t) \in Nat /\ DOMAIN s = 1 .. Len(s)
        /\ DOMAIN w = 1 .. Len(s) + Len(t)
        /\ \A i \in 1 .. Len(s) : w[i] = s[i]
        /\ \A i \in 1 .. Len(t) : w[Len(s) + i] = t[i]
    BY <1>0, LenProperties, ConcatItems
  <2>2. /\ \A i \in 1 .. Len(s) : i \in DOMAIN w
        /\ \A i \in 1 .. Len(t) : Len(s) + i \in DOMAIN w
    BY <2>1
  <2> QED
    BY <2>1, <2>2 DEF ToSet
<1>2. Kept(s, S) \in Seq(U)
  BY KeptItems
<1>3. \A i \in 1 .. Len(s) : s[i] \in S <=> s[i] \in T
  BY <1>1 DEF S, T
<1>4. Kept(w, T) = Kept(s, S) \o Kept(t, T)
  BY <1>0, <1>3, KeptConcat
<1>5. ASSUME \A i \in 1 .. Len(t) : t[i][1] = k
      PROVE  Joined(For(w, k), For(s, k), t)
  <2>1. \A i \in 1 .. Len(t) : t[i] \in T
    BY <1>1, <1>5 DEF T
  <2>2. Kept(t, T) = t
    BY <2>1, KeptAllOrNone
  <2> QED
    BY <1>4, <2>2 DEF Joined, For, S, T
<1>6. ASSUME \A i \in 1 .. Len(t) : t[i][1] # k
      PROVE  For(w, k) = For(s, k)
  <2>1. \A i \in 1 .. Len(t) : t[i] \notin T
    BY <1>6 DEF T
  <2>2. Kept(t, T) = <<>>
    BY <2>1, KeptAllOrNone
  <2>3. Kept(s, S) \o <<>> = Kept(s, S)
    BY <1>2, ConcatEmptySeq
  <2> QED
    BY <1>4, <2>2, <2>3 DEF For, S, T
<1> QED
  BY <1>2, <1>5, <1>6 DEF For, S

(* Behind its header an answer carries bytes; what is sent more comes last. *)
Carried(r) == [i \in 1 .. Len(r) - 1 |-> r[i + 1][2]]

LEMMA CarriedSeq ==
  ASSUME NEW U, NEW V, \A u \in U : u[2] \in V, NEW r \in Seq(U), r # <<>>
  PROVE  /\ Carried(r) \in Seq(V) /\ Len(Carried(r)) = Len(r) - 1
         /\ \A i \in 1 .. Len(r) - 1 : Carried(r)[i] = r[i + 1][2]
<1>1. Len(r) \in Nat /\ Len(r) - 1 \in Nat
  BY EmptySeq
<1>2. \A i \in 1 .. Len(r) - 1 : i + 1 \in 1 .. Len(r)
  BY <1>1
<1>3. \A i \in 1 .. Len(r) - 1 : r[i + 1][2] \in V
  BY <1>2, ElementOfSeq
<1> DEFINE n == Len(r) - 1
<1>4. n \in Nat /\ Carried(r) = [i \in 1 .. n |-> r[i + 1][2]]
  BY <1>1 DEF Carried
<1>5. \A i \in 1 .. n : r[i + 1][2] \in V
  BY <1>3
<1> HIDE DEF n
<1>6. Carried(r) \in Seq(V) /\ Len(Carried(r)) = n
        /\ \A i \in 1 .. n : Carried(r)[i] = r[i + 1][2]
  BY <1>4, <1>5
<1> QED
  BY <1>6 DEF n

\* These are the units that a write puts on the wire.
Conveys(t, units) ==
  Len(t) = Len(units) /\ \A i \in 1 .. Len(t) : t[i][2] = units[i]

LEMMA CarriedMore ==
  ASSUME NEW r \in Seq(Pieces), r # <<>>, NEW t \in Seq(Pieces),
         NEW units \in Seq(Units), Conveys(t, units),
         NEW w, Joined(w, r, t)
  PROVE  /\ Carried(w) = Carried(r) \o units
         /\ w[1] = r[1] /\ w # <<>>
<1> DEFINE U == Pieces
           V == Units
           m == Len(r) - 1
           n == Len(t)
           x == Carried(r)
           y == Carried(w)
           z == x \o units
<1>9. /\ r \in Seq(U) /\ t \in Seq(U) /\ units \in Seq(V)
      /\ \A u \in U : u[2] \in V
  BY DEF Pieces
<1> HIDE DEF U, V, m, n, x, y, z
<1>0. m \in Nat /\ n \in Nat /\ Len(r) = m + 1 /\ Len(t) = n /\ Len(units) = n
  BY <1>9, EmptySeq, LenProperties DEF m, n, Conveys
<1>1. /\ w \in Seq(U) /\ Len(w) = m + 1 + n /\ w # <<>>
      /\ \A i \in 1 .. m + 1 : w[i] = r[i]
      /\ \A i \in 1 .. n : w[m + 1 + i] = t[i]
  <2>1. /\ w \in Seq(U) /\ Len(w) = Len(r) + Len(t)
        /\ \A i \in 1 .. Len(r) + Len(t) :
             w[i] = IF i <= Len(r) THEN r[i] ELSE t[i - Len(r)]
    <3>1. /\ r \o t \in Seq(U) /\ Len(r \o t) = Len(r) + Len(t)
          /\ \A i \in 1 .. Len(r) + Len(t) :
               (r \o t)[i] = IF i <= Len(r) THEN r[i] ELSE t[i - Len(r)]
      BY <1>9, ConcatProperties
    <3> QED
      BY <3>1 DEF Joined
  <2>2. /\ \A i \in 1 .. m + 1 : i \in 1 .. m + 1 + n /\ i <= m + 1
        /\ \A i \in 1 .. n : /\ m + 1 + i \in 1 .. m + 1 + n
                            /\ ~(m + 1 + i <= m + 1) /\ (m + 1 + i) - (m + 1) = i
    BY <1>0
  <2> QED
    BY <1>0, <2>1, <2>2
<1>2. x \in Seq(V) /\ Len(x) = m /\ \A i \in 1 .. m : x[i] = r[i + 1][2]
  BY <1>9, CarriedSeq DEF x, m
<1>3. /\ y \in Seq(V) /\ Len(y) = m + n
      /\ \A i \in 1 .. m + n : y[i] = w[i + 1][2]
  <2>1. /\ y \in Seq(V) /\ Len(y) = Len(w) - 1
        /\ \A i \in 1 .. Len(w) - 1 : y[i] = w[i + 1][2]
    BY <1>1, <1>9, CarriedSeq DEF y
  <2> QED
    BY <1>0, <1>1, <2>1
<1>4. /\ z \in Seq(V) /\ Len(z) = m + n
      /\ \A i \in 1 .. m : z[i] = x[i]
      /\ \A i \in 1 .. n : z[m + i] = units[i]
  <2>1. /\ z \in Seq(V) /\ Len(z) = Len(x) + Len(units)
        /\ \A i \in 1 .. Len(x) + Len(units) :
             z[i] = IF i <= Len(x) THEN x[i] ELSE units[i - Len(x)]
    BY <1>2, <1>9, ConcatProperties DEF z
  <2>2. /\ \A i \in 1 .. m : i \in 1 .. m + n /\ i <= m
        /\ \A i \in 1 .. n : m + i \in 1 .. m + n /\ ~(m + i <= m) /\ (m + i) - m = i
    BY <1>0
  <2>3. /\ Len(z) = m + n
        /\ \A i \in 1 .. m + n : z[i] = IF i <= m THEN x[i] ELSE units[i - m]
    BY <1>0, <1>2, <2>1
  <2> QED
    BY <2>1, <2>2, <2>3
<1>5. \A i \in 1 .. n : t[i][2] = units[i]
  BY <1>0 DEF Conveys
<1>6. ASSUME NEW i \in 1 .. m + n PROVE y[i] = z[i]
  <2>1. CASE i \in 1 .. m
    <3>1. i + 1 \in 1 .. m + 1
      BY <1>0, <2>1
    <3>2. y[i] = r[i + 1][2] /\ z[i] = r[i + 1][2]
      BY <1>1, <1>2, <1>3, <1>4, <2>1, <3>1
    <3> QED
      BY <3>2
  <2>2. CASE i \notin 1 .. m
    <3>1. i - m \in 1 .. n /\ m + (i - m) = i /\ m + 1 + (i - m) = i + 1
      BY <1>0, <2>2
    <3>2. /\ w[m + 1 + (i - m)] = t[i - m] /\ z[m + (i - m)] = units[i - m]
          /\ t[i - m][2] = units[i - m]
      BY <1>1, <1>4, <1>5, <3>1
    <3> QED
      BY <1>3, <3>1, <3>2
  <2> QED
    BY <2>1, <2>2
<1>7. y = z
  <2>1. Len(y) = Len(z) /\ \A i \in 1 .. Len(y) : y[i] = z[i]
    BY <1>3, <1>4, <1>6
  <2> QED
    BY <1>3, <1>4, <2>1, SeqEqual
<1>8. w[1] = r[1]
  BY <1>0, <1>1
<1> QED
  BY <1>1, <1>7, <1>8 DEF x, y, z

(* The first write of a job is its header.                                 *)
LEMMA CarriedFirst ==
  ASSUME NEW t, Len(t) = 1
  PROVE  Carried(t) = <<>>
BY DEF Carried

-----------------------------------------------------------------------------
(* What a write puts on the wire                                           *)

\* Pieces of job j are sent behind what a client was sent before, and not to
\* another's client unless its own is closed.
Sends(j, d, t) ==
  /\ got' = [got EXCEPT ![d] = @ \o t]
  /\ \A i \in 1 .. Len(t) : t[i][1] = j
  /\ struck \subseteq struck'
  /\ d # j[1] => /\ where[j[1]] = "closed"
                 /\ \A i \in Jobs : i[1] = d /\ Running(i) => i \in struck'

(* Nothing is sent.                                                        *)
LEMMA NothingSent ==
  ASSUME Types, WireInv, sends' = sends, NEW j \in Jobs,
         got' = got, struck' = struck
  PROVE  /\ <<>> \in Seq(Pieces) /\ j[1] \in Clients /\ Sends(j, j[1], <<>>)
         /\ Received(j)' = Received(j)
<1>1. j[1] \in Clients /\ got[j[1]] \in Seq(Pieces) /\ got \in [Clients -> Seq(Pieces)]
  BY JobParts DEF Types, WireInv, WireTypes
<1>2. got[j[1]] \o <<>> = got[j[1]] /\ <<>> \in Seq(Pieces)
  BY <1>1, ConcatEmptySeq, EmptySeq
<1>3. [got EXCEPT ![j[1]] = got[j[1]]] = got
  BY <1>1
<1>4. Sends(j, j[1], <<>>)
  BY <1>2, <1>3, EmptySeq DEF Sends
<1> QED
  BY <1>1, <1>2, <1>4 DEF Received

(* A write sends its units, or only the first of them, which marks the     *)
(* answer as cut; if its connection is closed it does something else.      *)
LEMMA WriteSends ==
  ASSUME IInv, WireInv, sends' = sends, NEW j \in Jobs, where[j[1]] # "away",
         NEW units \in Seq(Units), Write(j, units)
  PROVE  \E d \in Clients, t \in Seq(Pieces) :
           /\ Sends(j, d, t) /\ cut \subseteq cut'
           /\ where[j[1]] # "closed" =>
                /\ d = j[1] /\ photos' = photos /\ offset' = offset
                /\ j \notin cut' => j \notin cut /\ Conveys(t, units)
<1> DEFINE f == fd[j[1]]
<1>1. /\ Types /\ j[1] \in Clients
      /\ where[j[1]] # "closed" => where[j[1]] = "open"
  BY JobParts DEF IInv, Types
<1>2. ASSUME NEW d \in Connection(f), Deliver(j, d, units)
      PROVE  \E t \in Seq(Pieces) :
               /\ Sends(j, d, t) /\ cut \subseteq cut'
               /\ where[j[1]] # "closed" =>
                    /\ d = j[1] /\ photos' = photos /\ offset' = offset
                    /\ j \notin cut' => j \notin cut /\ Conveys(t, units)
  <2> DEFINE n == Min({Len(units), room[d]})
             t == [i \in 1 .. n |-> <<j, units[i]>>]
  <2>1. d \in Clients /\ where[d] = "open" /\ fd[d] = f
    BY DEF Connection
  <2>2. Len(units) \in Nat /\ room[d] \in Nat
    BY <1>1, <2>1, SizesAssumption, LenProperties DEF Types
  <2>3. n \in Nat /\ n <= Len(units)
    <3>1. n = IF Len(units) <= room[d] THEN Len(units) ELSE room[d]
      BY <2>2, MinOf
    <3> HIDE DEF n
    <3> QED
      BY <2>2, <3>1
  <2>4. /\ got' = [got EXCEPT ![d] = @ \o t]
        /\ cut' = IF n < Len(units) THEN cut \cup {j} ELSE cut
        /\ struck' = IF d = j[1] THEN struck
                     ELSE struck \cup {i \in Jobs : i[1] = d /\ Running(i)}
        /\ photos' = photos /\ offset' = offset
    BY <1>2 DEF Deliver
  <2> HIDE DEF n
  <2>5. \A i \in 1 .. n : <<j, units[i]>> \in Pieces
    <3>1. \A i \in 1 .. n : units[i] \in Units
      BY <2>2, <2>3, ElementOfSeq
    <3> QED
      BY <3>1 DEF Pieces
  <2>6. /\ t \in Seq(Pieces) /\ Len(t) = n
        /\ \A i \in 1 .. n : t[i] = <<j, units[i]>>
    BY <2>3, <2>5
  <2> HIDE DEF t
  <2>7. \A i \in 1 .. Len(t) : t[i][1] = j /\ t[i][2] = units[i]
    BY <2>6
  <2>8. j \notin cut' => j \notin cut /\ Conveys(t, units)
    BY <2>2, <2>3, <2>4, <2>6, <2>7 DEF Conveys
  <2>9. where[j[1]] # "closed" => d = j[1]
    BY <1>1, <2>1 DEF IInv, Numbered
  <2>10. Sends(j, d, t)
    BY <1>1, <2>4, <2>7, <2>9 DEF Sends
  <2> QED
    BY <2>4, <2>6, <2>8, <2>9, <2>10
<1>3. CASE \E d \in Connection(f) : Deliver(j, d, units)
  <2>1. Connection(f) \subseteq Clients
    BY DEF Connection
  <2> QED
    BY <1>2, <1>3, <2>1
<1>4. CASE ~\E d \in Connection(f) : Deliver(j, d, units)
  <2>1. where[j[1]] = "closed"
    <3> SUFFICES ASSUME where[j[1]] = "open" PROVE FALSE
      BY <1>1
    <3>1. j[1] \in Connection(f)
      BY <1>1 DEF Connection
    <3>2. Written(f) = {}
      BY <1>1 DEF Written, IInv, Numbered
    <3> QED
      BY <1>4, <3>1, <3>2 DEF Write
  <2>2. UNCHANGED <<got, cut, struck>>
    BY <1>4 DEF Write, Spoil, wire
  <2> QED
    BY <1>1, <2>1, <2>2, NothingSent
<1> QED
  BY <1>3, <1>4

LEMMA ReceivedFor ==
  ASSUME NEW j
  PROVE  Received(j) = For(got[j[1]], j) /\ Payload(j) = Carried(Received(j))
BY DEF Received, For, Payload, Carried

LEMMA SentReceived ==
  ASSUME Types, WireTypes, sends' = sends, NEW j \in Jobs,
         NEW d \in Clients, NEW t \in Seq(Pieces), Sends(j, d, t)
  PROVE  /\ got' \in [Clients -> Seq(Pieces)]
         /\ got'[d] = got[d] \o t
         /\ \A c \in Clients : c # d => got'[c] = got[c]
         /\ \A i \in Jobs : Received(i) \in Seq(Pieces)
         /\ d = j[1] => Received(j)' = Received(j) \o t
         /\ \A i \in Jobs : i # j => Received(i)' = Received(i)
<1> DEFINE s == got[d]
           w == s \o t
<1> HIDE DEF s, w
<1>0. Joined(w, s, t) /\ s \in Seq(Pieces)
  BY DEF Joined, WireTypes, s, w
<1>1. \A c \in Clients : got[c] \in Seq(Pieces)
  BY DEF WireTypes
<1>2. w \in Seq(Pieces)
  BY <1>0, ConcatProperties DEF Joined
<1>3. got' \in [Clients -> Seq(Pieces)] /\ got'[d] = w
        /\ \A c \in Clients : c # d => got'[c] = got[c]
  <2>1. got' = [got EXCEPT ![d] = w]
    BY DEF Sends, s, w
  <2> QED
    BY <1>1, <1>2, <2>1 DEF WireTypes
<1>4. \A i \in Jobs : i[1] \in Clients
  BY JobParts DEF Types
<1>5. \A i \in Jobs : Received(i) \in Seq(Pieces)
  BY <1>1, <1>4, KeptItems DEF Received
<1>6. ASSUME d = j[1] PROVE Received(j)' = Received(j) \o t
  <2>1. \A i \in 1 .. Len(t) : t[i][1] = j
    BY DEF Sends
  <2>2. Joined(For(w, j), For(s, j), t)
    BY <1>0, <2>1, ForConcat
  <2>3. Received(j)' = For(w, j)
    BY <1>3, <1>6 DEF Received, For
  <2> QED
    BY <1>6, <2>2, <2>3, ReceivedFor DEF Joined, s
<1>8. ASSUME NEW i \in Jobs, i # j PROVE Received(i)' = Received(i)
  <2>0. Received(i)' = For(got'[i[1]], i)
    BY DEF Received, For
  <2>1. CASE i[1] = d
    <3>1. \A k \in 1 .. Len(t) : t[k][1] # i
      BY <1>8 DEF Sends
    <3>2. For(w, i) = For(s, i)
      BY <1>0, <3>1, ForConcat
    <3> QED
      BY <1>3, <2>0, <2>1, <3>2, ReceivedFor DEF s
  <2>2. CASE i[1] # d
    BY <1>3, <1>4, <2>0, <2>2, ReceivedFor
  <2> QED
    BY <2>1, <2>2
<1>9. got'[d] = got[d] \o t
  BY <1>3 DEF s, w
<1> QED
  BY <1>3, <1>5, <1>6, <1>8, <1>9

-----------------------------------------------------------------------------
(* What a step of a job leaves of the invariant                            *)

(* The places of answers on the wire, when more is sent by job j.          *)
LEMMA StepInPlace ==
  ASSUME Types, WireInv, UNCHANGED <<sends, where>>,
         NEW j \in Jobs, NEW s, job' = [job EXCEPT ![j] = s],
         NEW d \in Clients, NEW t \in Seq(Pieces), Sends(j, d, t),
         Begin(j) \/ (Running(j) /\ crossed' = crossed)
  PROVE  /\ \A i \in Jobs : where[i[1]] # "closed" => InPlace(i)'
         /\ Beside'
<1>1. /\ Jobs' = Jobs /\ Pieces' = Pieces /\ where' = where
      /\ \A i \in Jobs : job'[i] = IF i = j THEN s ELSE job[i]
      /\ crossed \subseteq crossed' /\ struck \subseteq struck'
  BY DEF Jobs, Types, Pieces, Begin, Sends
<1>2. /\ got'[d] = got[d] \o t
      /\ \A c \in Clients : c # d => got'[c] = got[c]
      /\ \A i \in Jobs : Received(i) \in Seq(Pieces)
      /\ d = j[1] => Received(j)' = Received(j) \o t
      /\ \A i \in Jobs : i # j => Received(i)' = Received(i)
  BY SentReceived DEF WireInv
<1>3. \A i \in Jobs : i[1] \in Clients
  BY JobParts DEF Types
<1>4. ASSUME NEW i \in Jobs, i # j, i[1] = j[1], Running(i)
      PROVE  i \in crossed'
  <2>1. CASE Begin(j)
    BY <1>4, <2>1 DEF Begin
  <2>2. CASE Running(j) /\ crossed' = crossed
    BY <1>4, <2>2 DEF WireInv, Beside
  <2> QED
    BY <2>1, <2>2
<1>5. ASSUME NEW i \in Jobs, i # j, i[1] = j[1], Running(i), Running(j)'
      PROVE  j \in crossed'
  <2>1. CASE Begin(j)
    BY <1>5, <2>1 DEF Begin
  <2>2. CASE Running(j) /\ crossed' = crossed
    BY <1>5, <2>2 DEF WireInv, Beside
  <2> QED
    BY <2>1, <2>2
<1>6. \A i \in Jobs : i # j => (Running(i)' <=> Running(i)) /\ (At(i, "done")' <=> At(i, "done"))
  BY <1>1 DEF Running, At
<1>7. Beside'
  BY <1>1, <1>4, <1>5, <1>6 DEF Beside, WireInv
<1>8. ASSUME NEW i \in Jobs, i # j, where[i[1]] # "closed" PROVE InPlace(i)'
  <2> SUFFICES ASSUME i \notin crossed' \cup struck'
               PROVE  (Running(i)' => AtEnd(i)') /\ (At(i, "done")' => Whole(i)')
    BY DEF InPlace
  <2>1. (Running(i) => AtEnd(i)) /\ (At(i, "done") => Whole(i))
    BY <1>1, <1>8 DEF WireInv, InPlace
  <2>2. CASE i[1] = d
    <3>1. ~Running(i)
      BY <1>4, <1>8, <2>2 DEF Sends
    <3>2. ASSUME Whole(i) PROVE Whole(i)'
      <4> DEFINE r == Received(i)
      <4>1. PICK p \in Seq(Pieces), q \in Seq(Pieces) : got[i[1]] = (p \o r) \o q
        BY <3>2 DEF Whole
      <4>2. r \in Seq(Pieces) /\ Received(i)' = r
        BY <1>2, <1>8
      <4> HIDE DEF r
      <4>3. got'[i[1]] = ((p \o r) \o q) \o t
        BY <1>2, <2>2, <4>1
      <4>4. p \o r \in Seq(Pieces) /\ q \o t \in Seq(Pieces)
        BY <4>2, ConcatProperties
      <4> DEFINE n == p \o r
      <4>5. ((p \o r) \o q) \o t = (p \o r) \o (q \o t)
        <5>1. n \in Seq(Pieces)
          BY <4>4
        <5> HIDE DEF n
        <5>2. (n \o q) \o t = n \o (q \o t)
          BY <5>1, ConcatAssociative
        <5> QED
          BY <5>2 DEF n
      <4>6. got'[i[1]] = (p \o r) \o (q \o t)
        BY <4>3, <4>5
      <4> QED
        BY <1>1, <4>2, <4>4, <4>6 DEF Whole
    <3> QED
      BY <1>6, <1>8, <2>1, <3>1, <3>2
  <2>3. CASE i[1] # d
    <3>1. got'[i[1]] = got[i[1]] /\ Received(i)' = Received(i)
      BY <1>2, <1>3, <1>8, <2>3
    <3>2. (AtEnd(i)' <=> AtEnd(i)) /\ (Whole(i)' <=> Whole(i))
      BY <1>1, <3>1 DEF AtEnd, Whole
    <3> QED
      BY <1>6, <1>8, <2>1, <3>2
  <2> QED
    BY <2>2, <2>3
<1>9. ASSUME where[j[1]] # "closed" PROVE InPlace(j)'
  <2> SUFFICES ASSUME j \notin crossed' \cup struck' PROVE AtEnd(j)' /\ Whole(j)'
    BY DEF InPlace
  <2> DEFINE r == Received(j)
             g == got[j[1]]
  <2>0. d = j[1]
    BY <1>9 DEF Sends
  <2>1. \E p \in Seq(Pieces) : g = p \o r
    <3>1. CASE Begin(j)
      <4>1. r = <<>>
        BY <1>9, <3>1 DEF Begin, At, WireInv, Answering
      <4>2. g \in Seq(Pieces) /\ g \o <<>> = g
        BY <1>3, ConcatEmptySeq DEF WireInv, WireTypes
      <4> HIDE DEF g, r
      <4> QED
        BY <4>1, <4>2
    <3>2. CASE Running(j)
      BY <1>1, <1>9, <3>2 DEF WireInv, InPlace, AtEnd
    <3> QED
      BY <3>1, <3>2
  <2>2. r \in Seq(Pieces)
    BY <1>2
  <2>3. got'[j[1]] = g \o t /\ Received(j)' = r \o t
    BY <1>2, <2>0
  <2> HIDE DEF g, r
  <2>4. PICK p \in Seq(Pieces) : g = p \o r
    BY <2>1
  <2> DEFINE k == r \o t
             n == p \o k
  <2>5. (p \o r) \o t = p \o k
    BY <2>2, <2>4, ConcatAssociative
  <2>6. got'[j[1]] = n /\ Received(j)' = k
    BY <2>3, <2>4, <2>5
  <2>7. k \in Seq(Pieces) /\ n \in Seq(Pieces)
    BY <2>2, ConcatProperties
  <2>8. n = n \o <<>> /\ <<>> \in Seq(Pieces)
    BY <2>7, ConcatEmptySeq, EmptySeq
  <2> HIDE DEF k
  <2>9. AtEnd(j)'
    BY <1>1, <2>6 DEF AtEnd
  <2>10. got'[j[1]] = (p \o k) \o <<>>
    BY <2>6, <2>8
  <2> QED
    BY <1>1, <2>6, <2>8, <2>9, <2>10 DEF Whole
<1> QED
  BY <1>7, <1>8, <1>9

(* What is sent is a job's own, or the connection of that job is closed.   *)
LEMMA StepOwned ==
  ASSUME Types, WireInv, UNCHANGED <<sends, where>>, NEW j \in Jobs,
         NEW d \in Clients, NEW t \in Seq(Pieces), Sends(j, d, t)
  PROVE  Owned'
<1>1. /\ got'[d] = got[d] \o t /\ got[d] \in Seq(Pieces)
      /\ \A c \in Clients : c # d => got'[c] = got[c]
  BY SentReceived DEF WireInv, WireTypes
<1>2. ASSUME NEW u \in ToSet(got'[d])
      PROVE  u[1][1] = d \/ where[u[1][1]] = "closed"
  <2> DEFINE s == got[d]
             w == got'[d]
  <2>1. /\ DOMAIN w = 1 .. Len(s) + Len(t)
        /\ Len(s) \in Nat /\ Len(t) \in Nat
        /\ \A i \in 1 .. Len(s) : w[i] = s[i]
        /\ \A i \in 1 .. Len(t) : w[Len(s) + i] = t[i]
    BY <1>1, ConcatItems
  <2>2. DOMAIN s = 1 .. Len(s)
    BY <1>1, LenProperties
  <2>3. PICK k \in DOMAIN w : u = w[k]
    BY DEF ToSet
  <2> HIDE DEF s, w
  <2>4. CASE k \in 1 .. Len(s)
    <3>1. u = s[k] /\ s[k] \in ToSet(s)
      BY <2>1, <2>2, <2>3, <2>4 DEF ToSet
    <3> QED
      BY <3>1 DEF WireInv, Owned, s
  <2>5. CASE k \notin 1 .. Len(s)
    <3>1. k - Len(s) \in 1 .. Len(t) /\ Len(s) + (k - Len(s)) = k
      BY <2>1, <2>3, <2>5
    <3>2. u = t[k - Len(s)]
      BY <2>1, <2>3, <3>1
    <3>3. u[1] = j
      BY <3>1, <3>2 DEF Sends
    <3> QED
      BY <3>3 DEF Sends
  <2> QED
    BY <2>4, <2>5
<1> QED
  BY <1>1, <1>2 DEF WireInv, Owned

LEMMA StepWire ==
  ASSUME Types, WireInv, UNCHANGED <<sends, where>>,
         NEW j \in Jobs, NEW s, job' = [job EXCEPT ![j] = s],
         NEW d \in Clients, NEW t \in Seq(Pieces), Sends(j, d, t),
         Begin(j) \/ (Running(j) /\ crossed' = crossed),
         cut \subseteq cut', met \subseteq met',
         opened' \in [Jobs -> Seq(Units) \cup {Missing}],
         \A i \in Jobs : i # j => opened'[i] = opened[i],
         \A i \in Jobs : i # j /\ Reader(i) =>
           /\ offset'[i] = offset[i]
           /\ i \notin met' => photos'[job[i].id] = photos[job[i].id],
         where[j[1]] # "closed" => Answering(j)', Met'
  PROVE  WireInv'
<1>1. /\ Jobs' = Jobs /\ Pieces' = Pieces /\ where' = where /\ sends' = sends
      /\ \A i \in Jobs : job'[i] = IF i = j THEN s ELSE job[i]
  BY DEF Jobs, Types, Pieces
<1>2. /\ got' \in [Clients -> Seq(Pieces)]
      /\ \A i \in Jobs : i # j => Received(i)' = Received(i)
  BY SentReceived DEF WireInv
<1>3. ASSUME NEW i \in Jobs, i # j, where[i[1]] # "closed" PROVE Answering(i)'
  <2>1. /\ job'[i] = job[i] /\ Received(i)' = Received(i) /\ opened'[i] = opened[i]
        /\ Answering(i) /\ (Reader(i)' <=> Reader(i))
    BY <1>1, <1>2, <1>3 DEF WireInv, Reader
  <2>2. Payload(i)' = Payload(i) /\ Header(i)' = Header(i)
    BY <2>1 DEF Payload, Header
  <2>3. (i \notin cut' => i \notin cut) /\ (i \notin met' => i \notin met)
    OBVIOUS
  <2>4. Answered(i) => Answered(i)'
    BY <1>1, <2>1, <2>2, <2>3 DEF Answered, Request
  <2>5. Sending(i) /\ Reader(i) => Sending(i)'
    BY <1>3, <2>1, <2>2, <2>3 DEF Sending
  <2>6. Reader(i) /\ i \notin met' => File(i)' = File(i)
    BY <1>3, <2>1 DEF File
  <2>7. /\ job[i].at \in {"sent", "write", "written", "created"} =>
             Received(i)' = <<>> /\ opened'[i] = Missing
        /\ job[i].at \in {"fstat", "head"} => Received(i)' = <<>>
        /\ Reader(i) => opened'[i] # Missing /\ (i \notin met' => opened'[i] = File(i)')
    BY <2>1, <2>3, <2>6 DEF Answering
  <2>8. /\ job[i].at = "head" /\ i \notin met' => job[i].size = Len(opened'[i])
        /\ job[i].at # "send" => job[i].chunk = <<>>
        /\ job[i].at \in {"read", "send"} /\ i \notin cut' => Sending(i)'
        /\ job[i].at \in {"ended", "done"} /\ i \notin cut' => Answered(i)'
    BY <2>1, <2>3, <2>4, <2>5 DEF Answering, At, Reader
  <2> QED
    BY <2>1, <2>7, <2>8 DEF Answering, At
<1>4. WireTypes'
  BY <1>1, <1>2 DEF WireTypes
<1>5. /\ \A i \in Jobs : where[i[1]] # "closed" => InPlace(i)'
      /\ Beside' /\ Owned'
  BY StepInPlace, StepOwned
<1> QED
  BY <1>1, <1>3, <1>4, <1>5 DEF WireInv

(* No upload begins to write, and no download opens a file.                *)
LEMMA QuietMet ==
  ASSUME Types, Met, sends' = sends, met \subseteq met',
         NEW j \in Jobs, NEW s, job' = [job EXCEPT ![j] = s],
         s.at \in {"write", "written"} => Writer(j) /\ s.id = job[j].id,
         s.at \in {"fstat", "head", "read", "send", "ended"} =>
           Reader(j) /\ s.id = job[j].id
  PROVE  Met'
<1>1. Jobs' = Jobs /\ \A i \in Jobs : job'[i] = IF i = j THEN s ELSE job[i]
  BY DEF Jobs, Types
<1>2. ASSUME NEW n PROVE Uploading(n)' \subseteq Uploading(n)
  BY <1>1 DEF Uploading, Writer
<1>3. ASSUME NEW n PROVE Downloading(n)' \subseteq Downloading(n)
  BY <1>1 DEF Downloading, Reader
<1> QED
  BY <1>2, <1>3 DEF Met

(* A write that goes to a photo meets its downloads.                       *)
LEMMA DisturbsMet ==
  ASSUME Types, Met, met \subseteq met', NEW j \in Jobs, Disturbs(j),
         NEW i \in Jobs, i # j, Reader(i)
  PROVE  /\ offset'[i] = offset[i]
         /\ i \notin met' => photos'[job[i].id] = photos[job[i].id]
<1>1. job[i].id \in Names /\ i \in Downloading(job[i].id)
  BY DEF Types, JobState, Downloading
<1>2. i \notin met => Uploading(job[i].id) = {}
  BY <1>1 DEF Met
<1>3. ~Writer(i)
  BY DEF Reader, Writer
<1> QED
  BY <1>1, <1>2, <1>3 DEF Disturbs

-----------------------------------------------------------------------------
(* The steps of a job, one by one                                          *)

(* The first write of a job is its header.                                 *)
LEMMA HeaderSent ==
  ASSUME IInv, WireInv, sends' = sends, NEW j \in Jobs, where[j[1]] # "away",
         NEW u \in Answers, Write(j, <<u>>)
  PROVE  \E d \in Clients, t \in Seq(Pieces) :
           /\ Sends(j, d, t) /\ cut \subseteq cut'
           /\ where[j[1]] # "closed" =>
                /\ photos' = photos /\ offset' = offset
                /\ Received(j) = <<>> /\ j \notin cut' =>
                     /\ j \notin cut /\ Received(j)' # <<>>
                     /\ Payload(j)' = <<>> /\ Header(j)' = u
<1> DEFINE units == <<u>>
<1>1. units \in Seq(Units) /\ Len(units) = 1 /\ units[1] = u /\ Write(j, units)
  BY OneUnit
<1> HIDE DEF units
<1>2. PICK d \in Clients, t \in Seq(Pieces) :
        /\ Sends(j, d, t) /\ cut \subseteq cut'
        /\ where[j[1]] # "closed" =>
             /\ d = j[1] /\ photos' = photos /\ offset' = offset
             /\ j \notin cut' => j \notin cut /\ Conveys(t, units)
  BY <1>1, WriteSends
<1>3. ASSUME where[j[1]] # "closed", Received(j) = <<>>, j \notin cut'
      PROVE  /\ j \notin cut /\ Received(j)' # <<>>
             /\ Payload(j)' = <<>> /\ Header(j)' = u
  <2>1. Received(j)' = t
    <3>1. Types /\ WireTypes
      BY DEF WireInv, IInv
    <3>2. d = j[1] /\ Sends(j, d, t) /\ Received(j) = <<>>
      BY <1>2, <1>3
    <3>3. Received(j)' = Received(j) \o t
      BY <3>1, <3>2, SentReceived
    <3>4. Received(j)' = <<>> \o t
      BY <3>2, <3>3
    <3> QED
      BY <3>4, ConcatEmptySeq
  <2>2. Len(t) = 1 /\ j \notin cut /\ Conveys(t, units)
    BY <1>1, <1>2, <1>3 DEF Conveys
  <2>3. 1 \in 1 .. Len(t) /\ t # <<>>
    BY <2>2, EmptySeq
  <2>4. t[1][2] = u
    BY <1>1, <2>2, <2>3 DEF Conveys
  <2>5. Payload(j)' = Carried(t) /\ Header(j)' = t[1][2]
    BY <2>1 DEF Payload, Header, Carried
  <2> QED
    BY <2>1, <2>2, <2>3, <2>4, <2>5, CarriedFirst
<1> QED
  BY <1>2, <1>3

(* An answer that is one write, before which nothing was sent.             *)
LEMMA AnswersOnceWire ==
  ASSUME IInv, WireInv, NEW j \in Jobs, NEW u \in Answers, Write(j, <<u>>),
         job[j].at \in {"sent", "created"}, Goto(j, "done"),
         Request(j).path # "employee" => u.announced = u.carried,
         UNCHANGED <<sends, where, opened, met>>, where[j[1]] # "away",
         Begin(j) \/ (Running(j) /\ crossed' = crossed)
  PROVE  WireInv'
<1> DEFINE s == [job[j] EXCEPT !.at = "done"]
<1>1. Types /\ job[j] \in JobState /\ job' = [job EXCEPT ![j] = s] /\ s.at = "done"
        /\ s.chunk = job[j].chunk
  BY DEF IInv, Types, JobState, Goto
<1>2. job'[j] = s
  BY <1>1 DEF Types
<1> HIDE DEF s
<1>4. PICK d \in Clients, t \in Seq(Pieces) :
        /\ Sends(j, d, t) /\ cut \subseteq cut'
        /\ where[j[1]] # "closed" =>
             /\ photos' = photos /\ offset' = offset
             /\ Received(j) = <<>> /\ j \notin cut' =>
                  /\ j \notin cut /\ Received(j)' # <<>>
                  /\ Payload(j)' = <<>> /\ Header(j)' = u
  BY HeaderSent
<1>5. ASSUME where[j[1]] # "closed" PROVE Answering(j)'
  <2>1. Received(j) = <<>> /\ opened[j] = Missing /\ job[j].chunk = <<>>
    BY <1>5 DEF WireInv, Answering, At
  <2>2. ASSUME j \notin cut' PROVE Answered(j)'
    <3>1. Request(j).path # "employee" => u.announced = u.carried + Len(<<>>)
      BY OneUnit, EmptySeq
    <3> QED
      BY <1>4, <1>5, <2>1, <2>2, <3>1 DEF Answered, Request
  <2> QED
    BY <1>1, <1>2, <2>1, <2>2 DEF Answering, At, Reader
<1>6. Met'
  BY <1>1, QuietMet DEF WireInv
<1>7. Disturbs(j)
  BY OneUnit, WriteDisturbs
<1>8. /\ opened' \in [Jobs -> Seq(Units) \cup {Missing}] /\ opened' = opened
      /\ met' = met /\ Met
  BY DEF WireInv, WireTypes
<1> QED
  BY <1>1, <1>4, <1>5, <1>6, <1>7, <1>8, DisturbsMet, StepWire

LEMMA AtOnceWire ==
  ASSUME IInv, WireInv, NEW j \in Jobs, HandleAtOnce(j)
  PROVE  WireInv'
<1>1. PICK id \in EmpId(j) : Write(j, <<Reply(Request(j), id)>>)
  BY DEF HandleAtOnce
<1>2. job[j].at \in {"sent", "created"} /\ where[j[1]] # "away" /\ Begin(j)
        /\ Goto(j, "done") /\ UNCHANGED <<sends, where, opened, met>>
  BY DEF HandleAtOnce, Begin, At
<1> QED
  BY <1>1, <1>2, ReplyExact, AnswersOnceWire

LEMMA RefusedWire ==
  ASSUME IInv, WireInv, NEW j \in Jobs,
         UploadRefused(j) \/ UploadDone(j) \/ DownloadRefused(j)
  PROVE  WireInv'
<1>1. PICK status \in {404, 500, 201} : Write(j, <<Empty(status)>>)
  BY DEF UploadRefused, UploadDone, DownloadRefused
<1>2. Empty(status) \in Answers /\ Empty(status).announced = Empty(status).carried
  BY EmptyAnswer
<1>3. /\ job[j].at \in {"sent", "created"} /\ Goto(j, "done")
      /\ UNCHANGED <<sends, where, opened, met>>
      /\ Begin(j) \/ (Running(j) /\ crossed' = crossed)
  BY DEF UploadRefused, UploadDone, DownloadRefused, UploadBegins, Begin, At, Running
<1>4. where[j[1]] # "away"
  BY <1>3 DEF Begin, IInv, Numbered
<1> QED
  BY <1>1, <1>2, <1>3, <1>4, AnswersOnceWire

(* A body with no room: nothing more is known.                             *)
LEMMA OverrunWire ==
  ASSUME IInv, WireInv, NEW j \in Jobs, Overrun(j)
  PROVE  WireInv'
<1>1. /\ UNCHANGED <<sends, where, photos, offset, got, cut, struck, opened, met>>
      /\ job' = job /\ Begin(j) /\ Types
  BY DEF Overrun, disk, wire, IInv
<1>2. job' = [job EXCEPT ![j] = job[j]]
  BY <1>1 DEF Types
<1>3. <<>> \in Seq(Pieces) /\ j[1] \in Clients /\ Sends(j, j[1], <<>>)
        /\ Received(j)' = Received(j)
  BY <1>1, NothingSent
<1>4. ASSUME where[j[1]] # "closed" PROVE Answering(j)'
  <2>1. Answering(j) /\ At(j, "sent")
    BY <1>1, <1>4 DEF WireInv, Begin
  <2> QED
    BY <1>1, <1>3, <2>1 DEF Answering, At, Reader
<1>5. Met'
  <2>1. Jobs' = Jobs
    BY <1>1 DEF Jobs
  <2>2. \A n : Uploading(n)' = Uploading(n) /\ Downloading(n)' = Downloading(n)
    BY <1>1, <2>1 DEF Uploading, Downloading, Writer, Reader
  <2> QED
    BY <1>1, <2>2 DEF WireInv, Met
<1>6. opened' \in [Jobs -> Seq(Units) \cup {Missing}]
  BY <1>1 DEF WireInv, WireTypes
<1> QED
  BY <1>1, <1>2, <1>3, <1>4, <1>5, <1>6, StepWire

LEMMA UploadOpensWire ==
  ASSUME IInv, WireInv, NEW j \in Jobs, UploadOpens(j)
  PROVE  WireInv'
<1>1. PICK n \in EmpId(j) :
        /\ photos' = [photos EXCEPT ![n] = Truncated(n)]
        /\ job' = [job EXCEPT ![j].at = "write", ![j].id = n, ![j].file = Lowest]
        /\ met' = met \cup Downloading(n)
  BY DEF UploadOpens
<1> DEFINE s == [job[j] EXCEPT !.at = "write", !.id = n, !.file = Lowest]
<1>2. /\ job[j] \in JobState /\ Types
      /\ job' = [job EXCEPT ![j] = s] /\ s.at = "write" /\ s.id = n
      /\ s.chunk = job[j].chunk
  BY <1>1 DEF IInv, Types, JobState
<1> HIDE DEF s
<1>3. /\ UNCHANGED <<sends, where, offset, got, cut, struck, opened>>
      /\ Begin(j) /\ At(j, "sent")
  BY DEF UploadOpens, UploadBegins, Begin, wire
<1>4. Jobs' = Jobs /\ \A i \in Jobs : job'[i] = IF i = j THEN s ELSE job[i]
  BY <1>2, <1>3 DEF Jobs, Types
<1>5. <<>> \in Seq(Pieces) /\ j[1] \in Clients /\ Sends(j, j[1], <<>>)
        /\ Received(j)' = Received(j)
  BY <1>2, <1>3, NothingSent
<1>6. ASSUME where[j[1]] # "closed" PROVE Answering(j)'
  <2>1. Received(j) = <<>> /\ opened[j] = Missing /\ job[j].chunk = <<>>
    BY <1>3, <1>6 DEF WireInv, Answering, At
  <2> QED
    BY <1>2, <1>3, <1>4, <1>5, <2>1 DEF Answering, At, Reader
<1>7. ASSUME NEW m
      PROVE  /\ Downloading(m)' = Downloading(m)
             /\ m # n => Uploading(m)' = Uploading(m)
  BY <1>2, <1>3, <1>4 DEF Downloading, Uploading, At, Reader, Writer
<1>8. Met'
  BY <1>1, <1>7 DEF WireInv, Met
<1>9. ASSUME NEW i \in Jobs, Reader(i), i \notin met'
      PROVE  photos'[job[i].id] = photos[job[i].id]
  <2>1. job[i].id # n
    BY <1>1, <1>9 DEF Downloading
  <2>2. job[i].id \in Names
    BY <1>2 DEF Types, JobState
  <2> QED
    BY <1>1, <1>2, <2>1, <2>2 DEF Types
<1>10. opened' \in [Jobs -> Seq(Units) \cup {Missing}] /\ met \subseteq met'
  BY <1>1, <1>3 DEF WireInv, WireTypes
<1> QED
  BY <1>2, <1>3, <1>5, <1>6, <1>8, <1>9, <1>10, StepWire

LEMMA UploadGoesOnWire ==
  ASSUME IInv, WireInv, NEW j \in Jobs, UploadWrites(j) \/ UploadCloses(j)
  PROVE  WireInv'
<1> DEFINE n == job[j].id
<1>1. PICK at \in {"written", "created"} : Goto(j, at)
  BY DEF UploadWrites, UploadCloses
<1> DEFINE s == [job[j] EXCEPT !.at = at]
<1>2. /\ job[j] \in JobState /\ Types /\ n \in Names
      /\ job' = [job EXCEPT ![j] = s] /\ s.at = at /\ s.id = n
      /\ s.chunk = job[j].chunk
  BY <1>1 DEF IInv, Types, JobState, Goto
<1> HIDE DEF s
<1>3. /\ UNCHANGED <<sends, where, got, cut, struck, opened, met, crossed>>
      /\ Running(j) /\ Writer(j) /\ ~At(j, "send")
      /\ \A m \in Names : m # n => photos'[m] = photos[m]
      /\ \A i \in Jobs : i # j => offset'[i] = offset[i]
  BY <1>2 DEF UploadWrites, UploadCloses, wire, disk, At, Running, Writer, Types
<1>4. job'[j] = s
  BY <1>2 DEF Types
<1>5. <<>> \in Seq(Pieces) /\ j[1] \in Clients /\ Sends(j, j[1], <<>>)
        /\ Received(j)' = Received(j)
  BY <1>2, <1>3, NothingSent
<1>6. ASSUME where[j[1]] # "closed" PROVE Answering(j)'
  <2>1. Received(j) = <<>> /\ opened[j] = Missing /\ job[j].chunk = <<>>
    BY <1>3, <1>6 DEF WireInv, Answering, Writer
  <2> QED
    BY <1>1, <1>2, <1>3, <1>4, <1>5, <2>1 DEF Answering, At, Reader
<1>7. Met'
  BY <1>1, <1>2, <1>3, QuietMet DEF WireInv
<1>8. ASSUME NEW i \in Jobs, i # j, Reader(i), i \notin met'
      PROVE  photos'[job[i].id] = photos[job[i].id]
  <2>1. j \in Uploading(n)
    BY <1>3 DEF Uploading
  <2>2. job[i].id # n
    BY <1>2, <1>3, <1>8, <2>1 DEF WireInv, Met, Downloading
  <2>3. job[i].id \in Names
    BY <1>2 DEF Types, JobState
  <2> QED
    BY <1>3, <2>2, <2>3
<1>9. opened' \in [Jobs -> Seq(Units) \cup {Missing}] /\ met \subseteq met'
  BY <1>3 DEF WireInv, WireTypes
<1> QED
  BY <1>2, <1>3, <1>5, <1>6, <1>7, <1>8, <1>9, StepWire

LEMMA DownloadOpensWire ==
  ASSUME IInv, WireInv, NEW j \in Jobs, DownloadOpens(j)
  PROVE  WireInv'
<1>1. PICK n \in EmpId(j) :
        /\ photos[n] # Missing
        /\ job' = [job EXCEPT ![j].at = "fstat", ![j].id = n, ![j].file = Lowest]
        /\ opened' = [opened EXCEPT ![j] = photos[n]]
        /\ met' = IF Uploading(n) = {} THEN met ELSE met \cup {j}
  BY DEF DownloadOpens
<1> DEFINE s == [job[j] EXCEPT !.at = "fstat", !.id = n, !.file = Lowest]
<1>2. /\ job[j] \in JobState /\ Types /\ n \in Names
      /\ job' = [job EXCEPT ![j] = s] /\ s.at = "fstat" /\ s.id = n
      /\ s.chunk = job[j].chunk
  BY <1>1, EmpIds DEF IInv, Types, JobState
<1> HIDE DEF s
<1>3. /\ UNCHANGED <<sends, where, offset, got, cut, struck, photos>>
      /\ Begin(j) /\ At(j, "sent")
  BY DEF DownloadOpens, Begin, wire, disk
<1>4. Jobs' = Jobs /\ \A i \in Jobs : job'[i] = IF i = j THEN s ELSE job[i]
  BY <1>2, <1>3 DEF Jobs, Types
<1>5. <<>> \in Seq(Pieces) /\ j[1] \in Clients /\ Sends(j, j[1], <<>>)
        /\ Received(j)' = Received(j)
  BY <1>2, <1>3, NothingSent
<1>6. /\ opened' \in [Jobs -> Seq(Units) \cup {Missing}]
      /\ opened'[j] = photos[n] /\ \A i \in Jobs : i # j => opened'[i] = opened[i]
  BY <1>1, <1>2 DEF Types, WireInv, WireTypes
<1>7. File(j)' = photos[n]
  BY <1>2, <1>3, <1>4 DEF File
<1>8. ASSUME where[j[1]] # "closed" PROVE Answering(j)'
  <2>1. job'[j] = s
    BY <1>4
  <2>2. Received(j) = <<>> /\ job[j].chunk = <<>>
    BY <1>3, <1>8 DEF WireInv, Answering, At
  <2> QED
    BY <1>1, <1>2, <1>5, <1>6, <1>7, <2>1, <2>2 DEF Answering, At
<1>9. ASSUME NEW m PROVE Uploading(m)' = Uploading(m)
  BY <1>2, <1>3, <1>4 DEF Uploading, At, Writer
<1>10. ASSUME NEW m
       PROVE  Downloading(m)' \subseteq
                Downloading(m) \cup IF m = n THEN {j} ELSE {}
  BY <1>2, <1>3, <1>4 DEF Downloading, Reader
<1>11. Met'
  BY <1>1, <1>9, <1>10 DEF WireInv, Met
<1>12. met \subseteq met'
  BY <1>1
<1> QED
  BY <1>2, <1>3, <1>5, <1>6, <1>8, <1>11, <1>12, StepWire

(* A download between its system calls.                                    *)
LEMMA DownloadWire ==
  ASSUME IInv, WireInv, NEW j \in Jobs, NEW s, job' = [job EXCEPT ![j] = s],
         s.at \notin {"write", "written"}, s.id = job[j].id, Reader(j),
         UNCHANGED <<sends, where, opened, met, crossed>>, Disturbs(j),
         NEW d \in Clients, NEW t \in Seq(Pieces), Sends(j, d, t),
         cut \subseteq cut', where[j[1]] # "closed" => Answering(j)'
  PROVE  WireInv'
<1>1. Types /\ Met /\ Running(j)
  BY DEF IInv, WireInv, Reader, Running
<1>2. Met'
  BY <1>1, QuietMet
<1>3. opened' \in [Jobs -> Seq(Units) \cup {Missing}] /\ opened' = opened
        /\ sends' = sends /\ crossed' = crossed /\ met \subseteq met' /\ met' = met
  BY DEF WireInv, WireTypes
<1> QED
  BY <1>1, <1>2, <1>3, DisturbsMet, StepWire

LEMMA DownloadStatsWire ==
  ASSUME IInv, WireInv, NEW j \in Jobs, DownloadStats(j)
  PROVE  WireInv'
<1> DEFINE s == [job[j] EXCEPT !.at = "head", !.size = Len(File(j))]
<1>1. /\ job[j] \in JobState /\ Types
      /\ job' = [job EXCEPT ![j] = s] /\ s.at = "head" /\ s.id = job[j].id
      /\ s.chunk = job[j].chunk /\ s.size = Len(File(j))
  BY DEF IInv, Types, JobState, DownloadStats
<1> HIDE DEF s
<1>2. /\ UNCHANGED <<sends, where, photos, spoilt, offset, opened, met, crossed>>
      /\ got' = got /\ cut' = cut /\ struck' = struck
      /\ At(j, "fstat") /\ Reader(j)
  BY DEF DownloadStats, wire, disk, At, Reader
<1>3. <<>> \in Seq(Pieces) /\ j[1] \in Clients /\ Sends(j, j[1], <<>>)
        /\ Received(j)' = Received(j)
  BY <1>1, <1>2, NothingSent
<1>4. job'[j] = s /\ File(j)' = File(j)
  BY <1>1, <1>2 DEF Types, File
<1>5. ASSUME where[j[1]] # "closed" PROVE Answering(j)'
  <2>1. Answering(j)
    BY <1>5 DEF WireInv
  <2> QED
    BY <1>1, <1>2, <1>3, <1>4, <2>1 DEF Answering, At, Reader
<1>6. Disturbs(j)
  BY <1>2 DEF Disturbs
<1> QED
  BY <1>1, <1>2, <1>3, <1>5, <1>6, DownloadWire

LEMMA DownloadAnnouncesWire ==
  ASSUME IInv, WireInv, NEW j \in Jobs, DownloadAnnounces(j)
  PROVE  WireInv'
<1> DEFINE s == [job[j] EXCEPT !.at = "read"]
           u == Answer(200, job[j].size, 0)
<1>1. /\ job[j] \in JobState /\ Types
      /\ job' = [job EXCEPT ![j] = s] /\ s.at = "read" /\ s.id = job[j].id
      /\ s.chunk = job[j].chunk
  BY DEF IInv, Types, JobState, DownloadAnnounces, Goto
<1> HIDE DEF s
<1>2. /\ UNCHANGED <<sends, where, opened, met, crossed>>
      /\ Write(j, <<u>>) /\ At(j, "head") /\ Running(j) /\ Reader(j)
  BY DEF DownloadAnnounces, At, Running, Reader
<1>3. u \in Answers
  BY <1>1 DEF Answer, Answers, JobState
<1>4. where[j[1]] # "away" /\ offset[j] = 0
  BY <1>2 DEF IInv, Numbered, Opened, At
<1> HIDE DEF u
<1>5. PICK d \in Clients, t \in Seq(Pieces) :
        /\ Sends(j, d, t) /\ cut \subseteq cut'
        /\ where[j[1]] # "closed" =>
             /\ photos' = photos /\ offset' = offset
             /\ Received(j) = <<>> /\ j \notin cut' =>
                  /\ j \notin cut /\ Received(j)' # <<>>
                  /\ Payload(j)' = <<>> /\ Header(j)' = u
  BY <1>2, <1>3, <1>4, HeaderSent
<1>6. job'[j] = s
  BY <1>1 DEF Types
<1>7. ASSUME where[j[1]] # "closed" PROVE Answering(j)'
  <2>1. /\ Received(j) = <<>> /\ job[j].chunk = <<>> /\ opened[j] # Missing
        /\ j \notin met => opened[j] = File(j) /\ job[j].size = Len(opened[j])
    BY <1>2, <1>7 DEF WireInv, Answering, At
  <2>2. File(j)' = File(j) /\ offset'[j] = 0
    BY <1>1, <1>4, <1>5, <1>6, <1>7 DEF File
  <2>3. ASSUME j \notin cut' PROVE Sending(j)'
    <3>1. opened[j] \in Seq(Units)
      BY <2>1 DEF WireInv, WireTypes
    <3>2. /\ Len(opened[j]) \in Nat /\ <<>> \o <<>> = <<>>
          /\ SubSeq(opened[j], 1, 0) = <<>>
      BY <3>1, LenProperties, SubSeqEmpty, ConcatEmptySeq
    <3>3. job'[j].chunk = <<>> /\ opened' = opened /\ met' = met
      BY <1>1, <1>2, <1>6, <2>1
    <3>4. Payload(j)' \o job'[j].chunk = SubSeq(opened'[j], 1, offset'[j])
      BY <1>5, <1>7, <2>1, <2>2, <2>3, <3>2, <3>3
    <3>5. j \notin met' => Header(j)' = Answer(200, Len(opened'[j]), 0)
      BY <1>5, <1>7, <2>1, <2>3, <3>3 DEF u
    <3> QED
      BY <1>5, <1>7, <2>1, <2>2, <2>3, <3>2, <3>3, <3>4, <3>5 DEF Sending
  <2> QED
    BY <1>1, <1>2, <1>6, <2>1, <2>2, <2>3 DEF Answering, At, Reader
<1>8. Disturbs(j)
  BY <1>2, <1>3, OneUnit, WriteDisturbs
<1> QED
  BY <1>1, <1>2, <1>5, <1>7, <1>8, DownloadWire

(* A buffer of the file behind what was read before it.                    *)
LEMMA ChunkNext ==
  ASSUME NEW file \in Seq(Units), NEW k \in Nat, k < Len(file),
         NEW chunk, chunk = NextChunk(file, k)
  PROVE  /\ k + Len(chunk) <= Len(file)
         /\ SubSeq(file, 1, k) \o chunk = SubSeq(file, 1, k + Len(chunk))
<1> DEFINE end == Min({k + ReadSize, Len(file)})
<1>1. ReadSize \in Nat \ {0} /\ Len(file) \in Nat
  BY SizesAssumption, LenProperties
<1>2. end \in Nat /\ end <= Len(file) /\ k + 1 <= end
  BY <1>1, MinOf
<1>3. chunk = SubSeq(file, k + 1, end)
  BY DEF NextChunk
<1> HIDE DEF end
<1>4. \A i \in k + 1 .. end : file[i] \in Units
  BY <1>1, <1>2, ElementOfSeq
<1>5. Len(chunk) = end - (k + 1) + 1
  BY <1>2, <1>3, <1>4, SubSeqProperties
<1>6. k + Len(chunk) = end
  BY <1>2, <1>5
<1>7. /\ 1 \in 1 .. Len(file) + 1 /\ k \in 1 - 1 .. Len(file)
      /\ end \in k .. Len(file)
  BY <1>1, <1>2
<1>8. SubSeq(file, 1, k) \o SubSeq(file, k + 1, end) = SubSeq(file, 1, end)
  BY <1>7, ConcatAdjacentSubSeq
<1> QED
  BY <1>2, <1>3, <1>6, <1>8

(* What was read of an answer before is a sequence of its contents.        *)
LEMMA PayloadSeq ==
  ASSUME Types, WireInv, NEW j \in Jobs
  PROVE  /\ Received(j) \in Seq(Pieces) /\ \A u \in Pieces : u[2] \in Units
         /\ Received(j) # <<>> => Payload(j) \in Seq(Units)
<1>1. got[j[1]] \in Seq(Pieces)
  BY JobParts DEF Types, WireInv, WireTypes
<1>2. Received(j) \in Seq(Pieces)
  BY <1>1, KeptItems DEF Received
<1>3. \A u \in Pieces : u[2] \in Units
  BY DEF Pieces
<1> QED
  BY <1>2, <1>3, CarriedSeq, ReceivedFor

LEMMA DownloadReadsWire ==
  ASSUME IInv, WireInv, NEW j \in Jobs, DownloadReads(j)
  PROVE  WireInv'
<1> DEFINE chunk == NextChunk(File(j), offset[j])
           s == [job[j] EXCEPT !.at = "send", !.chunk = chunk]
<1>1. /\ job[j] \in JobState /\ Types /\ job' = [job EXCEPT ![j] = s]
      /\ offset' = [offset EXCEPT ![j] = @ + Len(chunk)]
  BY DEF IInv, Types, DownloadReads
<1>2. chunk = NextChunk(File(j), offset[j])
  OBVIOUS
<1> HIDE DEF chunk
<1>3. s.at = "send" /\ s.id = job[j].id /\ s.chunk = chunk
  BY <1>1 DEF JobState
<1> HIDE DEF s
<1>4. /\ UNCHANGED <<sends, where, photos, spoilt, opened, met, crossed>>
      /\ got' = got /\ cut' = cut /\ struck' = struck
      /\ At(j, "read") /\ Reader(j) /\ offset[j] < Len(File(j))
  BY DEF DownloadReads, wire, disk, At, Reader
<1>5. <<>> \in Seq(Pieces) /\ j[1] \in Clients /\ Sends(j, j[1], <<>>)
        /\ Received(j)' = Received(j)
  BY <1>1, <1>4, NothingSent
<1>6. /\ job'[j] = s /\ File(j)' = File(j)
      /\ offset'[j] = offset[j] + Len(chunk) /\ offset[j] \in Nat
      /\ \A i \in Jobs \ {j} : offset'[i] = offset[i]
  BY <1>1, <1>3, <1>4 DEF Types, File
<1>8. Payload(j)' = Payload(j) /\ Header(j)' = Header(j)
  BY <1>5 DEF Payload, Header
<1>9. ASSUME where[j[1]] # "closed" PROVE Answering(j)'
  <2>0. /\ job[j].chunk = <<>> /\ opened[j] # Missing
        /\ j \notin met => opened[j] = File(j)
        /\ j \notin cut => Sending(j)
    BY <1>4, <1>9 DEF WireInv, Answering, At
  <2>1. ASSUME j \notin cut' PROVE Sending(j)'
    <3>1. Sending(j) /\ Received(j) # <<>>
      BY <1>4, <2>0, <2>1 DEF Sending
    <3>2. ASSUME j \notin met
          PROVE  /\ offset'[j] <= Len(opened[j])
                 /\ Payload(j) \o chunk = SubSeq(opened[j], 1, offset'[j])
      <4>1. opened[j] \in Seq(Units) /\ opened[j] = File(j)
        BY <2>0, <3>2 DEF WireInv, WireTypes
      <4>2. /\ offset[j] + Len(chunk) <= Len(opened[j])
            /\ SubSeq(opened[j], 1, offset[j]) \o chunk
                 = SubSeq(opened[j], 1, offset[j] + Len(chunk))
        BY <1>2, <1>4, <1>6, <4>1, ChunkNext
      <4>3. Payload(j) \o <<>> = SubSeq(opened[j], 1, offset[j])
        BY <2>0, <3>1, <3>2 DEF Sending
      <4>4. Payload(j) \in Seq(Units)
        BY <1>1, <3>1, PayloadSeq
      <4>5. Payload(j) = SubSeq(opened[j], 1, offset[j])
        BY <4>3, <4>4, ConcatEmptySeq
      <4> QED
        BY <1>6, <4>2, <4>5
    <3> QED
      BY <1>3, <1>4, <1>5, <1>6, <1>8, <3>1, <3>2 DEF Sending
  <2> QED
    BY <1>3, <1>4, <1>6, <2>0, <2>1 DEF Answering, At, Reader
<1>10. Disturbs(j)
  BY <1>4, <1>6 DEF Disturbs
<1> QED
  BY <1>1, <1>3, <1>4, <1>5, <1>9, <1>10, DownloadWire

LEMMA DownloadSendsWire ==
  ASSUME IInv, WireInv, NEW j \in Jobs, DownloadSends(j)
  PROVE  WireInv'
<1> DEFINE s == [job[j] EXCEPT !.at = "read", !.chunk = <<>>]
           units == job[j].chunk
<1>1. job[j] \in JobState /\ Types /\ job' = [job EXCEPT ![j] = s]
  BY DEF IInv, Types, DownloadSends
<1>2. s.at = "read" /\ s.id = job[j].id /\ s.chunk = <<>>
  BY <1>1 DEF JobState
<1> HIDE DEF s
<1>3. /\ UNCHANGED <<sends, where, opened, met, crossed>> /\ Write(j, units)
      /\ At(j, "send") /\ Running(j) /\ Reader(j)
  BY DEF DownloadSends, At, Running, Reader
<1>4. units \in Seq(Units) /\ where[j[1]] # "away"
  BY <1>1, <1>3 DEF JobState, IInv, Numbered
<1>5. where[j[1]] # "closed" =>
        /\ opened[j] # Missing
        /\ j \notin met => opened[j] = File(j)
        /\ j \notin cut => /\ Received(j) # <<>>
                           /\ j \notin met =>
                                /\ Header(j) = Answer(200, Len(opened[j]), 0)
                                /\ offset[j] <= Len(opened[j])
                                /\ Payload(j) \o units
                                     = SubSeq(opened[j], 1, offset[j])
  BY <1>3 DEF WireInv, Answering, At, Sending, Reader
<1> HIDE DEF units
<1>6. PICK d \in Clients, t \in Seq(Pieces) :
        /\ Sends(j, d, t) /\ cut \subseteq cut'
        /\ where[j[1]] # "closed" =>
             /\ d = j[1] /\ photos' = photos /\ offset' = offset
             /\ j \notin cut' => j \notin cut /\ Conveys(t, units)
  BY <1>1, <1>3, <1>4, WriteSends
<1>7. d = j[1] => Joined(Received(j)', Received(j), t)
  BY <1>1, <1>3, <1>6, SentReceived DEF WireInv, Joined
<1>8. job'[j] = s
  BY <1>1, <1>2, <1>3 DEF Types
<1>9. ASSUME where[j[1]] # "closed" PROVE Answering(j)'
  <2>1. ASSUME j \notin cut' PROVE Sending(j)'
    <3> DEFINE r == Received(j)
               w == Received(j)'
    <3>1. r \in Seq(Pieces) /\ r # <<>> /\ Joined(w, r, t)
      BY <1>1, <1>5, <1>6, <1>7, <1>9, <2>1, PayloadSeq
    <3>2. Header(j) = r[1][2] /\ Header(j)' = w[1][2]
          /\ Payload(j) = Carried(r) /\ Payload(j)' = Carried(w)
      BY DEF Header, Payload, Carried
    <3>0. w = Received(j)'
      OBVIOUS
    <3> HIDE DEF r, w
    <3>3. Conveys(t, units)
      BY <1>6, <1>9, <2>1
    <3>4. Carried(w) = Carried(r) \o units /\ w[1] = r[1] /\ w # <<>>
      BY <1>4, <3>1, <3>3, CarriedMore
    <3>5. Received(j)' # <<>> /\ Header(j)' = Header(j) /\ Payload(j)' = Payload(j) \o units
      BY <3>0, <3>2, <3>4
    <3>6. ASSUME j \notin met
          PROVE  Payload(j)' \o <<>> = SubSeq(opened[j], 1, offset[j])
      <4>1. Payload(j)' = SubSeq(opened[j], 1, offset[j])
        BY <1>5, <1>6, <1>9, <2>1, <3>5, <3>6
      <4>2. /\ opened[j] \in Seq(Units) /\ offset[j] \in Nat
            /\ offset[j] <= Len(opened[j])
        BY <1>1, <1>5, <1>6, <1>9, <2>1, <3>6 DEF WireInv, WireTypes, Types
      <4>3. \A i \in 1 .. offset[j] : opened[j][i] \in Units
        BY <4>2, ElementOfSeq, LenProperties
      <4>4. Payload(j)' \in Seq(Units)
        BY <4>1, <4>2, <4>3, SubSeqProperties
      <4> QED
        BY <4>1, <4>4, ConcatEmptySeq
    <3> QED
      BY <1>2, <1>3, <1>5, <1>6, <1>8, <1>9, <2>1, <3>5, <3>6 DEF Sending
  <2>2. File(j)' = File(j)
    BY <1>2, <1>6, <1>8, <1>9 DEF File
  <2> QED
    BY <1>2, <1>3, <1>5, <1>8, <1>9, <2>1, <2>2 DEF Answering, At, Reader
<1>10. Disturbs(j)
  BY <1>3, <1>4, WriteDisturbs
<1> QED
  BY <1>1, <1>2, <1>3, <1>6, <1>9, <1>10, DownloadWire

LEMMA DownloadEndsWire ==
  ASSUME IInv, WireInv, NEW j \in Jobs, DownloadEnds(j)
  PROVE  WireInv'
<1> DEFINE s == [job[j] EXCEPT !.at = "ended"]
<1>1. /\ job[j] \in JobState /\ Types /\ job' = [job EXCEPT ![j] = s]
      /\ s.at = "ended" /\ s.id = job[j].id /\ s.chunk = job[j].chunk
  BY DEF IInv, Types, JobState, DownloadEnds, Goto
<1> HIDE DEF s
<1>2. /\ UNCHANGED <<sends, where, photos, spoilt, offset, opened, met, crossed>>
      /\ got' = got /\ struck' = struck
      /\ cut \subseteq cut' /\ At(j, "read") /\ Reader(j)
      /\ j \notin cut' => j \notin cut /\ offset[j] >= Len(File(j))
  BY DEF DownloadEnds, disk, At, Reader
<1>3. <<>> \in Seq(Pieces) /\ j[1] \in Clients /\ Sends(j, j[1], <<>>)
        /\ Received(j)' = Received(j)
  BY <1>1, <1>2, NothingSent
<1>4. job'[j] = s /\ File(j)' = File(j)
  BY <1>1, <1>2 DEF Types, File
<1>5. ASSUME where[j[1]] # "closed" PROVE Answering(j)'
  <2>1. /\ job[j].chunk = <<>> /\ opened[j] # Missing
        /\ j \notin met => opened[j] = File(j)
        /\ j \notin cut => Sending(j)
    BY <1>2, <1>5 DEF WireInv, Answering, At
  <2>2. Payload(j)' = Payload(j) /\ Header(j)' = Header(j)
    BY <1>3 DEF Payload, Header
  <2>3. ASSUME j \notin cut' PROVE Answered(j)'
    <3>1. Sending(j) /\ Received(j) # <<>>
      BY <1>2, <2>1, <2>3 DEF Sending
    <3>2. ASSUME j \notin met
          PROVE  /\ Payload(j) = opened[j]
                 /\ Header(j).announced = Header(j).carried + Len(Payload(j))
      <4>1. /\ opened[j] \in Seq(Units) /\ opened[j] = File(j)
            /\ offset[j] \in Nat /\ offset[j] <= Len(opened[j])
            /\ offset[j] >= Len(opened[j])
        BY <1>1, <1>2, <2>1, <2>3, <3>1, <3>2 DEF WireInv, WireTypes, Types, Sending
      <4>2. offset[j] = Len(opened[j]) /\ Len(opened[j]) \in Nat
        BY <4>1, LenProperties
      <4>3. Payload(j) \o <<>> = SubSeq(opened[j], 1, Len(opened[j]))
        BY <2>1, <3>1, <3>2, <4>2 DEF Sending
      <4>4. Payload(j) \in Seq(Units)
        BY <1>1, <3>1, PayloadSeq
      <4>5. Payload(j) = opened[j]
        BY <4>1, <4>3, <4>4, ConcatEmptySeq, SubSeqFull
      <4>6. Header(j) = Answer(200, Len(opened[j]), 0)
        BY <3>1, <3>2 DEF Sending
      <4> QED
        BY <4>2, <4>5, <4>6 DEF Answer
    <3> QED
      BY <1>2, <1>3, <2>1, <2>2, <3>1, <3>2 DEF Answered, Request
  <2> QED
    BY <1>1, <1>2, <1>4, <2>1, <2>3 DEF Answering, At, Reader
<1>6. Disturbs(j)
  BY <1>2 DEF Disturbs
<1> QED
  BY <1>1, <1>2, <1>3, <1>5, <1>6, DownloadWire

LEMMA DownloadClosesWire ==
  ASSUME IInv, WireInv, NEW j \in Jobs, DownloadCloses(j)
  PROVE  WireInv'
<1> DEFINE s == [job[j] EXCEPT !.at = "done"]
<1>1. /\ job[j] \in JobState /\ Types /\ job' = [job EXCEPT ![j] = s]
      /\ s.at = "done" /\ s.id = job[j].id /\ s.chunk = job[j].chunk
  BY DEF IInv, Types, JobState, DownloadCloses, Goto
<1> HIDE DEF s
<1>2. /\ UNCHANGED <<sends, where, photos, spoilt, offset, opened, met, crossed>>
      /\ got' = got /\ struck' = struck /\ cut' = cut
      /\ At(j, "ended") /\ Reader(j)
  BY DEF DownloadCloses, wire, disk, At, Reader
<1>3. <<>> \in Seq(Pieces) /\ j[1] \in Clients /\ Sends(j, j[1], <<>>)
        /\ Received(j)' = Received(j)
  BY <1>1, <1>2, NothingSent
<1>4. job'[j] = s
  BY <1>1 DEF Types
<1>5. ASSUME where[j[1]] # "closed" PROVE Answering(j)'
  <2>1. job[j].chunk = <<>> /\ (j \notin cut => Answered(j))
    BY <1>2, <1>5 DEF WireInv, Answering, At
  <2>2. Payload(j)' = Payload(j) /\ Header(j)' = Header(j)
    BY <1>3 DEF Payload, Header
  <2>3. Answered(j) => Answered(j)'
    BY <1>2, <1>3, <2>2 DEF Answered, Request
  <2> QED
    BY <1>1, <1>2, <1>4, <2>1, <2>3 DEF Answering, At, Reader
<1>6. Disturbs(j)
  BY <1>2 DEF Disturbs
<1> QED
  BY <1>1, <1>2, <1>3, <1>5, <1>6, DownloadWire

-----------------------------------------------------------------------------
(* The answers on the wire, in every state                                 *)

LEMMA InitWire == Init => WireInv
<1> SUFFICES ASSUME Init PROVE WireInv
  OBVIOUS
<1>1. got \in [Clients -> Seq(Pieces)] /\ \A c \in Clients : got[c] = <<>>
  BY EmptySeq DEF Init
<1>2. ASSUME NEW j \in Jobs
      PROVE  /\ Received(j) = <<>> /\ opened[j] = Missing /\ job[j] = Fresh
             /\ ~Running(j) /\ At(j, "sent") /\ ~Reader(j) /\ ~Writer(j)
  <2>1. j[1] \in Clients
    BY JobParts DEF Init
  <2>2. Received(j) = Kept(<<>>, {u \in ToSet(<<>>) : u[1] = j})
    BY <1>1, <2>1 DEF Received
  <2>3. <<>> \in Seq(Pieces) /\ \A i \in 1 .. Len(<<>>) : FALSE
    BY EmptySeq
  <2>4. Kept(<<>>, {u \in ToSet(<<>>) : u[1] = j}) = <<>>
    BY <2>3, KeptAllOrNone
  <2> QED
    BY <2>2, <2>4 DEF Init, Fresh, Running, At, Reader, Writer
<1>3. \A j \in Jobs : Answering(j)
  BY <1>2 DEF Answering, At, Fresh
<1>4. \A j \in Jobs : InPlace(j)
  BY <1>2 DEF InPlace, At
<1>5. Beside /\ Met
  BY <1>2 DEF Beside, Met, Uploading
<1>6. opened \in [Jobs -> Seq(Units) \cup {Missing}]
  BY DEF Init
<1>7. Owned
  BY <1>1 DEF Owned, ToSet
<1> QED
  BY <1>1, <1>3, <1>4, <1>5, <1>6, <1>7 DEF WireInv, WireTypes

(* Nothing happens to jobs, files and what was sent; connections may be    *)
(* made, or closed.                                                        *)
LEMMA StillWire ==
  ASSUME IInv, WireInv,
         UNCHANGED <<sends, photos, job, offset, got, cut, opened, met, crossed, struck>>,
         \A c \in Clients : where[c] = "closed" => where'[c] = "closed"
  PROVE  WireInv'
<1>1. Jobs' = Jobs /\ Pieces' = Pieces
  BY DEF Jobs, Pieces
<1>2. \A j \in Jobs : j[1] \in Clients
  BY JobParts DEF IInv, Types
<1>3. ASSUME NEW j PROVE Received(j)' = Received(j)
  BY DEF Received
<1>4. WireTypes'
  BY <1>1 DEF WireInv, WireTypes
<1>5. ASSUME NEW j
      PROVE  Payload(j)' = Payload(j) /\ Header(j)' = Header(j)
  BY <1>3 DEF Payload, Header
<1>6. ASSUME NEW j
      PROVE  (Answered(j)' <=> Answered(j)) /\ (Sending(j)' <=> Sending(j))
  BY <1>3, <1>5 DEF Answered, Sending, Request
<1>7. ASSUME NEW j \in Jobs, where'[j[1]] # "closed" PROVE Answering(j)' /\ InPlace(j)'
  <2>1. Answering(j) /\ InPlace(j)
    BY <1>2, <1>7 DEF WireInv
  <2>2. Answering(j)'
    BY <1>3, <1>6, <2>1 DEF Answering, At, File, Reader
  <2>3. (AtEnd(j)' <=> AtEnd(j)) /\ (Whole(j)' <=> Whole(j))
    BY <1>1, <1>3 DEF AtEnd, Whole
  <2> QED
    BY <2>1, <2>2, <2>3 DEF InPlace, At, Running
<1>8. Beside'
  BY <1>1 DEF WireInv, Beside, Running
<1>9. ASSUME NEW n
      PROVE  Uploading(n)' = Uploading(n) /\ Downloading(n)' = Downloading(n)
  BY <1>1 DEF Uploading, Downloading, Writer, Reader
<1>10. Met'
  BY <1>9 DEF WireInv, Met
<1>11. Owned'
  <2> SUFFICES ASSUME NEW c \in Clients, NEW u \in ToSet(got[c])
               PROVE  u[1][1] = c \/ where'[u[1][1]] = "closed"
    BY DEF Owned
  <2>1. u[1] \in Jobs
    <3>1. got[c] \in Seq(Pieces)
      BY DEF WireInv, WireTypes
    <3>2. PICK k \in DOMAIN got[c] : u = got[c][k]
      BY DEF ToSet
    <3>3. u \in Pieces
      BY <3>1, <3>2, ElementOfSeq, LenProperties
    <3> QED
      BY <3>3 DEF Pieces
  <2> QED
    BY <1>2, <2>1 DEF WireInv, Owned
<1> QED
  BY <1>1, <1>4, <1>7, <1>8, <1>10, <1>11 DEF WireInv

LEMMA StepWireInv == IInv /\ WireInv /\ [Next]_vars => WireInv'
<1> SUFFICES ASSUME IInv, WireInv, [Next]_vars PROVE WireInv'
  OBVIOUS
<1>1. ASSUME NEW j \in Jobs, Overrun(j) \/ HandleAtOnce(j) \/ Upload(j) \/ Download(j)
      PROVE  WireInv'
  BY <1>1, OverrunWire, AtOnceWire, RefusedWire, UploadOpensWire, UploadGoesOnWire,
     DownloadOpensWire, DownloadStatsWire, DownloadAnnouncesWire, DownloadReadsWire,
     DownloadSendsWire, DownloadEndsWire, DownloadClosesWire DEF Upload, Download
<1>2. ASSUME \/ \E c \in Clients : Connect(c) \/ Disconnect(c) \/ ClientReads(c)
             \/ UNCHANGED vars
      PROVE  WireInv'
  <2>1. UNCHANGED <<sends, photos, job, offset, got, cut, opened, met, crossed, struck>>
    BY <1>2 DEF Connect, Disconnect, ClientReads, vars, wire, disk
  <2>2. \A c \in Clients : where[c] = "closed" => where'[c] = "closed"
    BY <1>2 DEF Connect, Disconnect, ClientReads, vars, IInv, Types
  <2> QED
    BY <2>1, <2>2, StillWire
<1> QED
  BY <1>1, <1>2 DEF Next

LEMMA WireCorrect == Spec => [](IInv /\ WireInv)
BY InvCorrect, InitWire, StepWireInv, PTL DEF Spec

(* An answer with others before and behind it is in one piece.             *)
LEMMA WholeInOnePiece ==
  ASSUME Types, WireInv, NEW j \in Jobs, Whole(j)
  PROVE  InOnePiece(j)
<1> DEFINE r == Received(j)
           g == got[j[1]]
<1>1. PICK p \in Seq(Pieces), q \in Seq(Pieces) : g = (p \o r) \o q
  BY DEF Whole
<1>2. r \in Seq(Pieces)
  BY PayloadSeq
<1>0. r = Received(j) /\ g = got[j[1]]
  OBVIOUS
<1> HIDE DEF r, g
<1>3. PICK h, a, l : h = p \o r /\ g = h \o q /\ a = Len(p) /\ l = Len(r)
  BY <1>1
<1>4. /\ h \in Seq(Pieces) /\ Len(h) = a + l /\ a \in Nat /\ l \in Nat
      /\ \A i \in 1 .. l : h[a + i] = r[i]
  BY <1>2, <1>3, ConcatItems
<1>5. /\ g \in Seq(Pieces) /\ Len(g) = (a + l) + Len(q) /\ Len(q) \in Nat
      /\ \A i \in 1 .. a + l : g[i] = h[i]
  <2>1. /\ g \in Seq(Pieces) /\ Len(g) = Len(h) + Len(q) /\ Len(q) \in Nat
        /\ \A i \in 1 .. Len(h) : g[i] = h[i]
    BY <1>4, <1>3, ConcatItems
  <2> QED
    BY <1>4, <2>1
<1> DEFINE piece == SubSeq(g, a + 1, a + l)
<1>6. \A i \in a + 1 .. a + l : g[i] \in Pieces
  BY <1>4, <1>5, ElementOfSeq
<1>7. /\ piece \in Seq(Pieces)
      /\ Len(piece) = IF a + 1 <= a + l THEN (a + l) - (a + 1) + 1 ELSE 0
      /\ \A i \in 1 .. (a + l) - (a + 1) + 1 : piece[i] = g[(a + 1) + i - 1]
  BY <1>4, <1>6, SubSeqProperties
<1> HIDE DEF piece
<1>8. Len(piece) = l /\ \A i \in 1 .. l : piece[i] = g[a + i]
  <2>1. (a + l) - (a + 1) + 1 = l /\ \A i \in 1 .. l : (a + 1) + i - 1 = a + i
    BY <1>4
  <2>2. a + 1 <= a + l \/ l = 0
    BY <1>4
  <2> QED
    BY <1>7, <2>1, <2>2
<1>9. \A i \in 1 .. l : piece[i] = r[i]
  <2>1. \A i \in 1 .. l : a + i \in 1 .. a + l
    BY <1>4
  <2>2. \A i \in 1 .. l : g[a + i] = h[a + i]
    BY <1>5, <2>1
  <2> QED
    BY <1>4, <1>8, <2>2
<1>10. piece = r
  BY <1>2, <1>3, <1>7, <1>8, <1>9, SeqEqual
<1>11. a \in 0 .. Len(g) - l
  BY <1>4, <1>5
<1> QED
  BY <1>0, <1>3, <1>10, <1>11 DEF InOnePiece, piece

LEMMA WireAnswers == IInv /\ WireInv => AnswersExact
<1> SUFFICES ASSUME IInv, WireInv PROVE AnswersExact
  OBVIOUS
<1>1. ASSUME NEW j \in Jobs, At(j, "done"), j \notin cut, where[j[1]] = "open"
      PROVE  /\ Received(j) # <<>>
             /\ j \notin crossed \cup struck => InOnePiece(j)
             /\ opened[j] # Missing /\ j \notin met => Payload(j) = opened[j]
             /\ j \notin met /\ Request(j).path # "employee" =>
                  Header(j).announced = Header(j).carried + Len(Payload(j))
  <2>1. Answering(j) /\ InPlace(j)
    BY <1>1 DEF WireInv
  <2>2. Answered(j)
    BY <1>1, <2>1 DEF Answering, At
  <2>3. j \notin crossed \cup struck => Whole(j)
    BY <1>1, <2>1 DEF InPlace
  <2>4. Types
    BY DEF IInv
  <2> QED
    BY <2>2, <2>3, <2>4, WholeInOnePiece DEF Answered
<1> QED
  BY <1>1 DEF AnswersExact, WireInv, Owned

(***************************************************************************)
(* A request of a client that is still connected, answered without a       *)
(* shortage of room or disk, has one answer on the wire, in one piece if   *)
(* no other job of its connection ran beside it and no answer of somebody  *)
(* else came between; a photo is what the file held when it was opened,    *)
(* and an answer is as long as it says.  Nobody is sent what is not its    *)
(* own, but for answers to connections that were closed.                   *)
(***************************************************************************)
THEOREM AnswersCorrect == Spec => []AnswersExact
BY WireCorrect, WireAnswers, PTL

-----------------------------------------------------------------------------
(***************************************************************************)
(* Where a request ends (HttpFraming).  The search for the blank line, in  *)
(* the table of its recursive function from place i on.                    *)
(***************************************************************************)
Scan(f, s, i) ==
  IF i > Len(s) THEN 0
  ELSE IF s[i] = Eos \/ (s[i] = Cr /\ Len(s) - i < 3) THEN 0
  ELSE IF s[i] = Cr /\ SubSeq(s, i, i + 3) = Blank THEN i
  ELSE f[i + 1]

Scanned(f, s, low) == f = [i \in low .. Len(s) + 1 |-> Scan(f, s, i)]

LEMMA ScanExists ==
  ASSUME NEW s, Len(s) \in Nat
  PROVE  \E f : Scanned(f, s, 1)
<1> DEFINE n == Len(s)
           T == {m \in Nat : m <= n => \E f : Scanned(f, s, n + 1 - m)}
<1>1. 0 \in T
  <2> DEFINE f == [i \in n + 1 - 0 .. n + 1 |-> 0]
  <2>1. \A i \in n + 1 - 0 .. n + 1 : i > n
    OBVIOUS
  <2>2. f = [i \in n + 1 - 0 .. n + 1 |-> Scan(f, s, i)]
    BY <2>1 DEF Scan
  <2> QED
    BY <2>2 DEF Scanned
<1>2. ASSUME NEW m \in Nat, m \in T PROVE m + 1 \in T
  <2> SUFFICES ASSUME m + 1 <= n PROVE \E f : Scanned(f, s, n + 1 - (m + 1))
    OBVIOUS
  <2> DEFINE low == n - m
  <2>1. low \in 1 .. n /\ n + 1 - m = low + 1 /\ n + 1 - (m + 1) = low
    OBVIOUS
  <2>2. PICK f : f = [i \in low + 1 .. n + 1 |-> Scan(f, s, i)]
    BY <1>2, <2>1 DEF Scanned
  <2> HIDE DEF low
  <2> DEFINE h == [i \in low .. n + 1 |-> IF i = low THEN Scan(f, s, low) ELSE f[i]]
  <2>3. ASSUME NEW i \in low .. n + 1 PROVE h[i] = Scan(h, s, i)
    <3>1. Scan(h, s, i) = Scan(f, s, i)
      <4>1. CASE i > n
        BY <4>1 DEF Scan
      <4>2. CASE ~(i > n)
        <5>1. i + 1 \in low .. n + 1 /\ i + 1 # low
          BY <2>1, <4>2
        <5>2. h[i + 1] = f[i + 1]
          BY <5>1
        <5> HIDE DEF h
        <5> QED
          BY <5>2 DEF Scan
      <4> QED
        BY <4>1, <4>2
    <3>2. h[i] = Scan(f, s, i)
      <4>1. CASE i = low
        BY <4>1
      <4>2. CASE i # low
        <5>1. i \in low + 1 .. n + 1
          BY <2>1, <4>2
        <5>2. h[i] = f[i]
          BY <4>2
        <5>3. f[i] = Scan(f, s, i)
          BY <5>1, <2>2
        <5> QED
          BY <5>2, <5>3
      <4> QED
        BY <4>1, <4>2
    <3> QED
      BY <3>1, <3>2
  <2>4. h = [i \in low .. n + 1 |-> h[i]]
    OBVIOUS
  <2> HIDE DEF h
  <2>5. h = [i \in low .. n + 1 |-> Scan(h, s, i)]
    BY <2>3, <2>4
  <2> QED
    BY <2>1, <2>5 DEF Scanned
<1> HIDE DEF T
<1>3. n \in T
  BY <1>1, <1>2, NatSet
<1>4. n + 1 - n = 1
  OBVIOUS
<1> QED
  BY <1>3, <1>4 DEF T

LEMMA HeaderScanned ==
  ASSUME NEW s, Len(s) \in Nat
  PROVE  \E f : Scanned(f, s, 1) /\ HeaderEnd(s) = f[1]
<1> DEFINE f == CHOOSE h : Scanned(h, s, 1)
<1>1. Scanned(f, s, 1)
  BY ScanExists
<1>2. HeaderEnd(s) = f[1]
  BY DEF HeaderEnd, Scanned, Scan
<1> HIDE DEF f
<1> QED
  BY <1>1, <1>2

\* The first blank line from place i on, with no '\0' before it, or 0.
FirstBlank(e, s, i) ==
  \/ e = 0 /\ \A j \in Ends(s) : j >= i => \E k \in i .. j : s[k] = Eos
  \/ /\ e \in Ends(s) /\ e >= i
     /\ \A k \in i .. e : s[k] # Eos
     /\ \A j \in Ends(s) : j >= i => e <= j

LEMMA BlankFound ==
  ASSUME NEW s \in Seq(Tokens), NEW f, Scanned(f, s, 1)
  PROVE  FirstBlank(f[1], s, 1)
<1> DEFINE n == Len(s)
           T == {m \in Nat : m <= n => FirstBlank(f[n + 1 - m], s, n + 1 - m)}
<1>0. n \in Nat /\ Ends(s) \subseteq Nat /\ \A j \in Ends(s) : j <= n - 3 /\ j >= 1
  BY LenProperties DEF Ends
<1>1. 0 \in T
  <2>1. f[n + 1] = 0
    BY <1>0 DEF Scanned, Scan
  <2>2. \A j \in Ends(s) : ~(j >= n + 1)
    BY <1>0
  <2>3. FirstBlank(f[n + 1], s, n + 1)
    BY <2>1, <2>2 DEF FirstBlank
  <2> QED
    BY <1>0, <2>3
<1>2. ASSUME NEW m \in Nat, m \in T PROVE m + 1 \in T
  <2> SUFFICES ASSUME m + 1 <= n
               PROVE  FirstBlank(f[n + 1 - (m + 1)], s, n + 1 - (m + 1))
    OBVIOUS
  <2>1. PICK i \in 1 .. n : n + 1 - m = i + 1 /\ n + 1 - (m + 1) = i
    <3>1. n - m \in 1 .. n /\ n + 1 - m = (n - m) + 1 /\ n + 1 - (m + 1) = n - m
      BY <1>0
    <3> QED
      BY <3>1
  <2> DEFINE b == f[i + 1]
  <2>2. FirstBlank(b, s, i + 1)
    BY <1>0, <1>2, <2>1
  <2>3. f[i] = Scan(f, s, i)
    <3>1. i \in 1 .. Len(s) + 1
      BY <1>0
    <3> QED
      BY <3>1 DEF Scanned
  <2>4. f[i] = IF s[i] = Eos \/ (s[i] = Cr /\ n - i < 3) THEN 0
               ELSE IF s[i] = Cr /\ SubSeq(s, i, i + 3) = Blank THEN i ELSE b
    BY <1>0, <2>1, <2>3 DEF Scan
  <2> HIDE DEF b
  <2>5. FirstBlank(f[i], s, i)
    <3>1. CASE s[i] = Eos
      <4>1. f[i] = 0
        BY <2>4, <3>1
      <4>2. \A j \in Ends(s) : j >= i => i \in i .. j
        BY <1>0, <2>1
      <4> QED
        BY <3>1, <4>1, <4>2 DEF FirstBlank
    <3>2. CASE s[i] = Cr /\ n - i < 3
      <4>1. f[i] = 0
        BY <2>4, <3>2
      <4>2. \A j \in Ends(s) : ~(j >= i)
        BY <1>0, <2>1, <3>2
      <4> QED
        BY <4>1, <4>2 DEF FirstBlank
    <3>3. CASE s[i] = Cr /\ ~(n - i < 3) /\ SubSeq(s, i, i + 3) = Blank
      <4>1. s[i] # Eos
        BY <3>3, TokensAssumption
      <4>2. f[i] = i
        BY <2>4, <3>3, <4>1
      <4>3. i \in Ends(s)
        BY <1>0, <2>1, <3>3 DEF Ends
      <4>4. i >= i /\ \A k \in i .. i : k = i
        BY <2>1
      <4> QED
        BY <4>1, <4>2, <4>3, <4>4 DEF FirstBlank
    <3>4. CASE s[i] # Eos /\ ~(s[i] = Cr /\ (n - i < 3 \/ SubSeq(s, i, i + 3) = Blank))
      <4>1. f[i] = b
        BY <2>4, <3>4
      <4>2. i \notin Ends(s)
        <5> SUFFICES ASSUME i \in Ends(s) PROVE FALSE
          OBVIOUS
        <5>1. SubSeq(s, i, i + 3) = Blank /\ i <= n - 3
          BY <1>0 DEF Ends
        <5>2. \A k \in i .. i + 3 : s[k] \in Tokens
          BY <1>0, <2>1, <5>1, ElementOfSeq
        <5>3. 1 \in 1 .. (i + 3) - i + 1 /\ i + 1 - 1 = i
          BY <2>1
        <5>4. SubSeq(s, i, i + 3)[1] = s[i]
          BY <2>1, <5>2, <5>3, SubSeqProperties
        <5>5. Blank[1] = Cr
          BY DEF Blank
        <5>6. ~(n - i < 3)
          BY <1>0, <2>1, <5>1
        <5> QED
          BY <3>4, <5>1, <5>4, <5>5, <5>6
      <4>3. \A j \in Ends(s) : j >= i => j >= i + 1
        BY <1>0, <2>1, <4>2
      <4>4. CASE b = 0 /\ \A j \in Ends(s) : j >= i + 1 => \E k \in i + 1 .. j : s[k] = Eos
        <5>1. \A j \in Ends(s) : i + 1 .. j \subseteq i .. j
          BY <1>0, <2>1
        <5> QED
          BY <4>1, <4>3, <4>4, <5>1 DEF FirstBlank
      <4>5. CASE /\ b \in Ends(s) /\ b >= i + 1
                 /\ \A k \in i + 1 .. b : s[k] # Eos
                 /\ \A j \in Ends(s) : j >= i + 1 => b <= j
        <5>1. b >= i /\ \A k \in i .. b : k = i \/ k \in i + 1 .. b
          BY <1>0, <2>1, <4>5
        <5> QED
          BY <3>4, <4>1, <4>3, <4>5, <5>1 DEF FirstBlank
      <4> QED
        BY <2>2, <4>4, <4>5 DEF FirstBlank
    <3> QED
      BY <3>1, <3>2, <3>3, <3>4
  <2> QED
    BY <2>1, <2>5
<1> HIDE DEF T
<1>3. n \in T
  BY <1>0, <1>1, <1>2, NatSet
<1>4. n + 1 - n = 1
  BY <1>0
<1> QED
  BY <1>3, <1>4 DEF T

\* The least of a set of numbers is that, as FiniteSetsExt has it.
LEMMA MinIs ==
  ASSUME NEW S \in SUBSET Int, NEW a \in S, \A y \in S : a <= y
  PROVE  Min(S) = a
<1> DEFINE P(b) == b \in S /\ \A y \in S : b <= y
<1>1. P(a)
  OBVIOUS
<1>2. P(Min(S))
  BY <1>1 DEF Min
<1>3. a <= Min(S) /\ Min(S) <= a /\ a \in Int /\ Min(S) \in Int
  BY <1>2
<1> QED
  BY <1>3

(* The search finds the first blank line if nothing before it is '\0'.     *)
LEMMA HeaderFound ==
  ASSUME NEW s \in Seq(Tokens)
  PROVE  /\ HeaderEnd(s) \in 0 .. Len(s)
         /\ HeaderEnd(s) # 0 <=> WholeHeader(s)
         /\ WholeHeader(s) =>
              /\ HeaderEnd(s) = Min(Ends(s))
              /\ HeaderEnd(s) \in 1 .. Len(s) - 3
<1>0. Len(s) \in Nat
  BY LenProperties
<1>1. PICK f : Scanned(f, s, 1) /\ HeaderEnd(s) = f[1]
  BY <1>0, HeaderScanned
<1> DEFINE e == HeaderEnd(s)
<1>2. FirstBlank(e, s, 1)
  BY <1>1, BlankFound
<1>3. /\ Ends(s) \subseteq Int /\ \A j \in Ends(s) : j \in 1 .. Len(s) - 3 /\ j >= 1
      /\ 1 .. Len(s) - 3 \subseteq 1 .. Len(s)
  BY <1>0 DEF Ends
<1>4. CASE e = 0 /\ \A j \in Ends(s) : j >= 1 => \E k \in 1 .. j : s[k] = Eos
  <2>1. ~WholeHeader(s)
    BY <1>3, <1>4 DEF WholeHeader
  <2> QED
    BY <1>0, <1>4, <2>1
<1>5. CASE /\ e \in Ends(s) /\ e >= 1
           /\ \A k \in 1 .. e : s[k] # Eos
           /\ \A j \in Ends(s) : j >= 1 => e <= j
  <2>1. WholeHeader(s)
    BY <1>5 DEF WholeHeader
  <2> HIDE DEF e
  <2>2. e = Min(Ends(s))
    BY <1>3, <1>5, MinIs
  <2>3. e \in 1 .. Len(s) - 3 /\ e \in 0 .. Len(s) /\ e # 0
    BY <1>0, <1>3, <1>5
  <2> QED
    BY <2>1, <2>2, <2>3 DEF e
<1> QED
  BY <1>2, <1>4, <1>5 DEF FirstBlank

(* The length of the body is what the one field says, if the words stand   *)
(* nowhere before it.                                                      *)
LEMMA LengthRead ==
  ASSUME NEW s \in Seq(Tokens), WholeHeader(s), Proper(s), ~Shadowed(s)
  PROVE  BodyLength(s) \in Nat /\ ContentLength(s) = BodyLength(s) % SizeLimit
<1>1. PICK e \in 1 .. Len(s) - 3 :
        e = HeaderEnd(s) /\ e = Min(Ends(s)) /\ Len(s) \in Nat
  BY HeaderFound, LenProperties
<1>2. /\ Fields(s) = {i \in 3 .. e - 1 : s[i] = FieldName /\ s[i - 2] = Cr /\ s[i - 1] = Lf}
      /\ FieldsIn(s) = {i \in 1 .. e - 1 : s[i] = FieldName}
      /\ \A i \in 1 .. e - 1 : s[i] = FieldName => \E g \in Fields(s) : ~(i < g)
  BY <1>1 DEF Fields, FieldsIn, Shadowed
<1>3. CASE Fields(s) = {}
  <2>1. FieldsIn(s) = {}
    BY <1>2, <1>3
  <2>2. 0 % SizeLimit = 0
    BY SizeAssumption
  <2> QED
    BY <1>3, <2>1, <2>2 DEF ContentLength, BodyLength
<1>4. CASE Fields(s) # {}
  <2>1. PICK g : g \in Fields(s)
    BY <1>4
  <2>2. Fields(s) = {g}
    <3>1. IsFiniteSet(Fields(s))
      <4>1. Fields(s) \subseteq 3 .. e - 1 /\ e - 1 \in Int
        BY <1>1, <1>2
      <4>2. IsFiniteSet(3 .. e - 1)
        BY <4>1, FS_Interval
      <4> QED
        BY <4>1, <4>2, FS_Subset
    <3>2. Cardinality(Fields(s)) <= 1 /\ Cardinality(Fields(s)) \in Nat
      BY <3>1, FS_CardinalityType DEF Proper
    <3>3. ASSUME NEW h \in Fields(s), h # g PROVE FALSE
      <4> DEFINE both == {g} \cup {h}
      <4>1. both \subseteq Fields(s)
        BY <2>1
      <4>2. Cardinality({g}) = 1 /\ IsFiniteSet({g})
        BY FS_Singleton
      <4>3. Cardinality(both) = Cardinality({g}) + 1
        BY <3>3, <4>2, FS_AddElement
      <4> HIDE DEF both
      <4>4. Cardinality(both) <= Cardinality(Fields(s))
        BY <3>1, <4>1, FS_Subset
      <4>5. Cardinality(both) = 1 + 1
        BY <4>2, <4>3
      <4> QED
        BY <3>2, <4>4, <4>5
    <3> QED
      BY <2>1, <3>3
  <2>3. g \in 3 .. e - 1 /\ g \in Int /\ s[g] = FieldName /\ g \in FieldsIn(s)
    BY <1>1, <1>2, <2>1
  <2>4. FieldAt(s) = g
    <3>1. FieldsIn(s) \in SUBSET Int
      BY <1>1, <1>2
    <3>2. ASSUME NEW i \in FieldsIn(s) PROVE g <= i
      <4>1. i \in 1 .. e - 1 /\ s[i] = FieldName
        BY <1>2
      <4>2. ~(i < g)
        BY <1>2, <2>2, <4>1
      <4> QED
        BY <2>3, <4>1, <4>2
    <3> QED
      BY <2>3, <3>1, <3>2, MinIs DEF FieldAt
  <2>5. s[g + 1] \in Nat
    BY <2>1 DEF Proper
  <2>6. Atoi(s, g + 1) = s[g + 1]
    <3> DEFINE after == {k \in g + 1 .. Len(s) : s[k] \notin {Cr, Lf}}
    <3>1. s[g + 1] \notin {Cr, Lf} /\ s[g + 1] \in Int
      BY <2>5, TokensAssumption
    <3>2. g + 1 \in after /\ after \in SUBSET Int /\ \A y \in after : g + 1 <= y
      BY <1>1, <2>3, <3>1
    <3>3. Min(after) = g + 1
      <4> HIDE DEF after
      <4> QED
        BY <3>2, MinIs
    <3>4. Atoi(s, g + 1) = IF after # {} /\ s[Min(after)] \in Int THEN s[Min(after)] ELSE 0
      BY DEF Atoi
    <3> HIDE DEF after
    <3> QED
      BY <3>1, <3>2, <3>3, <3>4
  <2>7. BodyLength(s) = s[g + 1]
    <3>1. (CHOOSE i \in Fields(s) : TRUE) = g
      BY <2>2
    <3> QED
      BY <1>4, <3>1 DEF BodyLength
  <2> QED
    BY <2>3, <2>4, <2>5, <2>6, <2>7 DEF ContentLength
<1> QED
  BY <1>3, <1>4

(* What the code makes of a text is what the text says.                    *)
LEMMA TextFramed ==
  held \in Seq(Tokens) => FramingExact
<1> SUFFICES ASSUME held \in Seq(Tokens) PROVE FramingExact
  OBVIOUS
<1> DEFINE total == Min(Ends(held)) + 3 + BodyLength(held)
<1>1. ASSUME WholeHeader(held), Proper(held), ~Shadowed(held), total < SizeLimit
      PROVE  /\ TotalExpected(held) = total
             /\ Complete(held) <=> Len(held) >= total
  <2> DEFINE e == HeaderEnd(held)
             b == BodyLength(held)
  <2>1. e = Min(Ends(held)) /\ e \in Nat /\ e # 0
    BY <1>1, HeaderFound
  <2>2. b \in Nat /\ ContentLength(held) = b % SizeLimit
    BY <1>1, LengthRead
  <2>3. total = e + 3 + b
    BY <2>1
  <2>4. TotalExpected(held) = ((e + 3) + ContentLength(held)) % SizeLimit
    BY DEF TotalExpected, HeaderLength
  <2> HIDE DEF e, b, total
  <2>5. SizeLimit \in Nat \ {0} /\ b < SizeLimit /\ total \in Nat
    BY <1>1, <2>1, <2>2, <2>3, SizeAssumption
  <2>6. \A a \in Nat : a < SizeLimit => a % SizeLimit = a
    BY <2>5
  <2>7. ContentLength(held) = b /\ (e + 3) + b = total
    BY <2>1, <2>2, <2>3, <2>5, <2>6
  <2>8. TotalExpected(held) = total
    BY <1>1, <2>4, <2>5, <2>6, <2>7
  <2> QED
    BY <2>1, <2>8 DEF Complete, e
<1> QED
  BY <1>1, HeaderFound DEF FramingExact

FramingTyped == held \in Seq(Tokens) /\ coming \in Seq(Tokens)

LEMMA StepFramingTyped == FramingTyped /\ [FramingNext]_framingVars => FramingTyped'
<1> SUFFICES ASSUME FramingTyped, [FramingNext]_framingVars PROVE FramingTyped'
  OBVIOUS
<1>1. CASE Receive
  <2>1. Head(coming) \in Tokens /\ Tail(coming) \in Seq(Tokens)
    BY <1>1, HeadTailProperties DEF FramingTyped, Receive
  <2> QED
    BY <1>1, <2>1, AppendProperties DEF FramingTyped, Receive
<1>2. CASE CutOff
  <2> DEFINE n == TotalExpected(held)
  <2>1. ContentLength(held) \in Nat
    <3>1. \A i : Atoi(held, i) \in Int
      BY DEF Atoi
    <3>2. \A a \in Int : a % SizeLimit \in Nat
      BY SizeAssumption
    <3> QED
      BY <3>1, <3>2 DEF ContentLength
  <2>2. HeaderLength(held) \in Nat
    BY HeaderFound DEF FramingTyped, HeaderLength
  <2>3. n \in Nat
    BY <2>1, <2>2, SizeAssumption DEF TotalExpected
  <2>4. held' = SubSeq(held, n + 1, Len(held)) /\ coming' = coming
    BY <1>2 DEF CutOff
  <2> HIDE DEF n
  <2>5. Len(held) \in Nat /\ \A i \in n + 1 .. Len(held) : held[i] \in Tokens
    BY <2>3, ElementOfSeq, LenProperties DEF FramingTyped
  <2>6. held' \in Seq(Tokens)
    BY <2>3, <2>4, <2>5, SubSeqProperties
  <2> QED
    BY <2>4, <2>6 DEF FramingTyped
<1>3. CASE UNCHANGED framingVars
  BY <1>3 DEF framingVars, FramingTyped
<1> QED
  BY <1>1, <1>2, <1>3 DEF FramingNext

(***************************************************************************)
(* Whatever comes, in whatever pieces, and whatever was cut off before:    *)
(* handle_client_data waits for a header that is not all there, and takes  *)
(* a request to be as long as its one Content-Length field says.           *)
(***************************************************************************)
THEOREM FramingCorrect == FramingSpec => []FramingExact
<1>1. FramingInit => FramingTyped
  BY TokensAssumption, EmptySeq DEF FramingInit, FramingTyped
<1>2. FramingTyped => FramingExact
  BY TextFramed DEF FramingTyped
<1> QED
  BY <1>1, <1>2, StepFramingTyped, PTL DEF FramingSpec
=============================================================================
