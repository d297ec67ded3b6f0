--------------------------- MODULE EmployeeService ---------------------------
(***************************************************************************)
(* The example service (service/src/server.c, employee.c): what its        *)
(* net_handler does with a request that lib/net has framed, in the worker  *)
(* or reactor thread that runs it, and the photos it keeps as files.       *)
(*                                                                         *)
(* A job is a request in the hands of a thread.  Any number of them run at *)
(* once and in any order, those of one connection too (a request the pool  *)
(* refuses is run at once by the reactor thread).  An action is a job up   *)
(* to and with its next system call.  Client sockets are non-blocking.     *)
(*                                                                         *)
(* A job has a number for its client, and nothing tells it when the        *)
(* reactor has closed that connection: the number may be free by then, or  *)
(* another connection, or a photo that is open, and what the job writes    *)
(* goes there.  (Until it is closed, a write to a client that has left may *)
(* raise SIGPIPE, which nothing ignores: the service ends, with no step.)  *)
(*                                                                         *)
(* A path stands for how handle_employee_request sees it: "photo" contains *)
(* /employee/photo/, else "employee" contains /employee/, "list" is        *)
(* /employee, "other" is any other.  An id is one digit.                   *)
(***************************************************************************)
EXTENDS Integers, Sequences, SequencesExt, FiniteSetsExt, ReadyList

CONSTANTS
  Clients,       \* the clients, each with one connection
  Leavers,       \* the clients that may leave: a bound on the run
  FdLimit,       \* the descriptors for them and for photos: 0 .. FdLimit - 1
  Workloads,     \* what they may send: each a sequence of requests
                 \* [method, path, id, body]
  Ids,           \* the ids in use
  NoId,          \* sscanf finds no id; also a name that is nobody's
  Bytes, Nul,    \* the bytes of a body, and '\0' among them
  Missing,       \* no such file
  Photos,        \* the files in photos/ when the service starts
  MaxBuffer,     \* MAX_BUFFER
  MaxPhotoSize,  \* MAX_PHOTO_SIZE
  ReadSize,      \* the size of employee_photo_get's buffer
  SendSize,      \* the send buffer of a socket
  Nobody,        \* no job
  MaxFailures,   \* failing calls on files: the bound on the run
  MaxSpoilt      \* how far they may be written into a photo: a bound as well

Names == Ids \cup {NoId}

\* What an answer is made of, and a photo once one has been written to it.
Answers ==
  [status : {200, 201, 404, 405, 413, 500}, announced : Nat, carried : Nat]
Units == Bytes \cup Answers

ASSUME IdsAssumption ==
  Ids \subseteq 0 .. 9 /\ NoId \notin Ids /\ Nul \in Bytes
ASSUME PhotosAssumption ==
  Photos \in [Names -> Seq(Bytes) \cup {Missing}] /\ Missing \notin Seq(Units)
ASSUME SizesAssumption ==
  /\ {FdLimit, ReadSize, SendSize} \subseteq Nat \ {0}
  /\ {MaxBuffer, MaxPhotoSize, MaxFailures, MaxSpoilt} \subseteq Nat
ASSUME WorkloadsAssumption ==
  \A w \in Workloads, c \in Clients : \A k \in DOMAIN w[c] :
    /\ w[c][k].id \in Names /\ w[c][k].body \in Seq(Bytes)
    /\ Nobody # <<c, k>>

VARIABLES
  sends,      \* what each client sends, in order
  where,      \* its connection: "away", "open", or "closed" by the reactor
  fd,         \* the descriptor of its connection (kept when it is closed)
  photos,     \* the files
  job,        \* each job: where it is, its id, the file it has open, the size
              \* of that file, and what it has read
  offset,     \* the position in that file
  room,       \* free space in each client's socket
  got,        \* what each client was sent, unit by unit
  failures,   \* how many calls on files have failed
  overrun,    \* a body was longer than net_handler's buffer
  last,       \* history: the job that wrote each file last
  mixed,      \* history: the files whose last uploads overlapped
  torn,       \* history: the files whose last write fell short
  spoilt,     \* history: the files an answer was written to
  opened,     \* history: what each download found when it opened its file
  met,        \* history: downloads that met an upload of their photo
  cut,        \* history: answers that the socket or the file cut short
  crossed,    \* history: jobs that ran beside another of their connection
  struck      \* history: jobs that ran when somebody else's answer came

Jobs == UNION {{c} \X DOMAIN sends[c] : c \in Clients}
Request(j) == sends[j[1]][j[2]]
Body(j) == Request(j).body

disk == <<photos, last, mixed, torn, spoilt>>
wire == <<room, got, cut, struck>>
vars == <<sends, where, fd, disk, job, offset, wire, failures, overrun, opened,
          met, crossed>>

Fds == 0 .. FdLimit - 1

Fresh == [at |-> "sent", id |-> NoId, file |-> 0, size |-> 0, chunk |-> <<>>]

\* The service runs, and some of the clients are connected already.
Init ==
  /\ sends \in Workloads
  /\ where \in [Clients -> {"away", "open"}] /\ fd \in [Clients -> Fds]
  /\ \A c, d \in Clients :
       where[c] = "open" /\ where[d] = "open" /\ fd[c] = fd[d] => c = d
  /\ photos = Photos
  /\ job = [j \in Jobs |-> Fresh] /\ offset = [j \in Jobs |-> 0]
  /\ room = [c \in Clients |-> SendSize]
  /\ got = [c \in Clients |-> <<>>]
  /\ failures = 0 /\ overrun = FALSE
  /\ last = [n \in Names |-> Nobody]
  /\ mixed = {} /\ torn = {} /\ spoilt = {}
  /\ met = {} /\ cut = {} /\ crossed = {} /\ struck = {}
  /\ opened = [j \in Jobs |-> Missing]

Running(j) == job[j].at \notin {"sent", "done"}
Fails == failures < MaxFailures /\ failures' = failures + 1

At(j, place) == job[j].at = place
Goto(j, place) == job' = [job EXCEPT ![j].at = place]

-----------------------------------------------------------------------------
(* Descriptors: connections, and the files that jobs have open *)

Writer(j) == job[j].at \in {"write", "written"}
Reader(j) == job[j].at \in {"fstat", "head", "read", "send", "ended"}
Connection(f) == {c \in Clients : where[c] = "open" /\ fd[c] = f}
Written(f) == {j \in Jobs : Writer(j) /\ job[j].file = f}
Free ==
  {f \in Fds : Connection(f) = {} /\ Written(f) = {}
                /\ \A j \in Jobs : Reader(j) => job[j].file # f}
Lowest == Min(Free)

\* The reactor accepts the connection of a client.
Connect(c) ==
  /\ where[c] = "away" /\ Free # {}
  /\ where' = [where EXCEPT ![c] = "open"]
  /\ fd' = [fd EXCEPT ![c] = Lowest]
  /\ UNCHANGED <<sends, disk, job, offset, wire, failures, overrun, opened,
                 met, crossed>>

\* The client has left, and the reactor closes its connection.
Disconnect(c) ==
  /\ where[c] = "open" /\ c \in Leavers
  /\ where' = [where EXCEPT ![c] = "closed"]
  /\ UNCHANGED <<sends, fd, disk, job, offset, wire, failures, overrun, opened,
                 met, crossed>>

\* A file of which the units from position k on are written anew, with a hole
\* before them if the file has been made shorter.
Overwritten(file, k, data) ==
  IF data = <<>> THEN file
  ELSE [i \in 1 .. Max({Len(file), k + Len(data)}) |->
          IF i \in k + 1 .. k + Len(data) THEN data[i - k]
          ELSE IF i <= Len(file) THEN file[i] ELSE Nul]

\* The socket takes what there is room for, and nobody looks at it.
Deliver(j, d, units) ==
  LET n == Min({Len(units), room[d]})
  IN /\ got' = [got EXCEPT ![d] = @ \o [i \in 1 .. n |-> <<j, units[i]>>]]
     /\ room' = [room EXCEPT ![d] = @ - n]
     /\ cut' = IF n < Len(units) THEN cut \cup {j} ELSE cut
     /\ struck' = IF d = j[1] THEN struck
                  ELSE struck \cup {i \in Jobs : i[1] = d /\ Running(i)}
     /\ UNCHANGED <<photos, spoilt, offset>>

Spoil(i, units) ==
  LET n == job[i].id
  IN /\ offset[i] + Len(units) <= MaxSpoilt
     /\ photos' = [photos EXCEPT ![n] = Overwritten(@, offset[i], units)]
     /\ offset' = [offset EXCEPT ![i] = @ + Len(units)]
     /\ spoilt' = spoilt \cup {n}
     /\ UNCHANGED wire

\* write(client_fd): whatever has the number now.
Write(j, units) ==
  LET f == fd[j[1]] IN
  \/ \E d \in Connection(f) : Deliver(j, d, units)
  \/ \E i \in Written(f) : Spoil(i, units)
  \/ /\ Connection(f) = {} /\ Written(f) = {}
     /\ UNCHANGED <<wire, photos, spoilt, offset>>

\* A client reads what has come, when it likes.
ClientReads(c) ==
  /\ room[c] < SendSize
  /\ room' = [room EXCEPT ![c] = SendSize]
  /\ UNCHANGED <<sends, where, fd, disk, job, offset, got, cut, struck,
                 failures, overrun, opened, met, crossed>>

-----------------------------------------------------------------------------
(* net_handler *)

\* A job begins: the request was framed on its connection.
Begin(j) ==
  LET beside == {i \in Jobs \ {j} : i[1] = j[1] /\ Running(i)}
  IN /\ At(j, "sent") /\ where[j[1]] # "away"
     /\ crossed' = crossed \cup beside \cup {i \in {j} : beside # {}}

\* net_handler's body has room for the body and the '\0' behind it.
Fits(r) == Len(r.body) < MaxBuffer

\* Without it, what follows is undefined, and the model ends.  (So it is for a
\* method, a path or an id that is too long: no workload has one.)
Overrun(j) ==
  /\ Begin(j) /\ ~Fits(Request(j))
  /\ overrun' = TRUE
  /\ UNCHANGED <<sends, where, fd, disk, job, offset, wire, failures, opened,
                 met>>

\* sscanf leaves emp_id as it was on the stack if the path has no id where it
\* expects one.
EmpId(j) == IF Request(j).id = NoId THEN Names ELSE {Request(j).id}

-----------------------------------------------------------------------------
(* handle_employee_request, and the answers that need no file *)

\* strlen of the fields employee_init gives the two employees.
employees ==
  << [id |-> 1, name |-> 6, age |-> 2, department |-> 9, position |-> 9],
     [id |-> 2, name |-> 6, age |-> 2, department |-> 9, position |-> 6] >>

Known(id) == \E e \in ToSet(employees) : e.id = id
Employee(id) == CHOOSE e \in ToSet(employees) : e.id = id

\* An employee as JSON, and the estimate employee_info_get announces.
JsonLength(e) == 56 + 1 + e.name + e.age + e.department + e.position
Estimate(e) == 1 + e.name + 40

\* employee_list_get: brackets, employees, commas.
ListLength ==
  LET length[n \in 0 .. Len(employees)] ==
        IF n = 0 THEN 2 ELSE length[n - 1] + JsonLength(employees[n])
  IN length[Len(employees)] + Len(employees) - 1

Answer(status, announced, carried) ==
  [status |-> status, announced |-> announced, carried |-> carried]
Empty(status) == Answer(status, 0, 0)

IsDownload(r) == r.method = "GET" /\ r.path = "photo"
IsUpload(r) == r.method = "POST" /\ r.path = "photo"
TooLarge(r) == Len(r.body) > MaxPhotoSize

Reply(r, id) ==
  CASE r.method = "GET" ->
         IF r.path # "employee" THEN Answer(200, ListLength, ListLength)
         ELSE IF Known(id)
         THEN Answer(200, Estimate(Employee(id)), JsonLength(Employee(id)))
         ELSE Empty(404)
    [] r.method = "POST" ->
         Empty(CASE r.path = "photo" -> 413
                 [] r.path = "list" -> 201
                 [] OTHER -> 404)
    [] OTHER -> Empty(405)

HandleAtOnce(j) ==
  /\ Begin(j)
  /\ LET r == Request(j) IN
       /\ Fits(r) /\ ~IsDownload(r) /\ (IsUpload(r) => TooLarge(r))
       /\ \E id \in EmpId(j) : Write(j, <<Reply(r, id)>>)
  /\ Goto(j, "done")
  /\ UNCHANGED <<sends, where, fd, last, mixed, torn, failures, overrun,
                 opened, met>>

-----------------------------------------------------------------------------
(* employee_photo_post *)

\* What parse_http_request copies: strncpy stops at a '\0' and pads with it.
Copied(b) ==
  [i \in DOMAIN b |-> IF \E h \in 1 .. i : b[h] = Nul THEN Nul ELSE b[i]]

Uploading(n) ==
  {j \in Jobs : Writer(j) /\ job[j].id = n}
Downloading(n) ==
  {j \in Jobs : Reader(j) /\ job[j].id = n}

\* Mutation: the file is opened without O_TRUNC.
Created(n) == IF photos[n] = Missing THEN <<>> ELSE photos[n]
Truncated(n) == <<>>

UploadBegins(j) ==
  /\ Begin(j)
  /\ LET r == Request(j) IN Fits(r) /\ IsUpload(r) /\ ~TooLarge(r)

UploadOpens(j) ==
  /\ UploadBegins(j) /\ Free # {}
  /\ \E n \in EmpId(j) :
       /\ photos' = [photos EXCEPT ![n] = Truncated(n)]
       /\ job' = [job EXCEPT ![j].at = "write", ![j].id = n,
                          ![j].file = Lowest]
       /\ mixed' = IF Uploading(n) = {} THEN mixed \ {n} ELSE mixed \cup {n}
       /\ spoilt' = IF Uploading(n) = {} THEN spoilt \ {n} ELSE spoilt
       /\ met' = met \cup Downloading(n)
  /\ UNCHANGED <<sends, where, fd, last, torn, offset, wire, failures, overrun,
                 opened>>

UploadRefused(j) ==
  /\ UploadBegins(j)
  /\ Fails \/ (Free = {} /\ UNCHANGED failures)
  /\ Write(j, <<Empty(500)>>)
  /\ Goto(j, "done")
  /\ UNCHANGED <<sends, where, fd, last, mixed, torn, overrun, opened, met>>

\* write: all of the body, or less if the disk is full; nobody looks.
UploadWrites(j) ==
  /\ At(j, "write")
  /\ LET n == job[j].id
         data == Copied(Body(j))
     IN /\ \E k \in 0 .. Len(data) :
             /\ photos' = [photos EXCEPT ![n] =
                             Overwritten(@, offset[j], SubSeq(data, 1, k))]
             /\ offset' = [offset EXCEPT ![j] = @ + k]
             /\ \/ k = Len(data) /\ torn' = torn \ {n} /\ UNCHANGED failures
                \/ k < Len(data) /\ torn' = torn \cup {n} /\ Fails
        /\ last' = [last EXCEPT ![n] = j]
  /\ Goto(j, "written")
  /\ UNCHANGED <<sends, where, fd, mixed, spoilt, wire, overrun, opened, met,
                 crossed>>

UploadCloses(j) ==
  /\ At(j, "written")
  /\ Goto(j, "created")
  /\ UNCHANGED <<sends, where, fd, disk, offset, wire, failures, overrun,
                 opened, met, crossed>>

UploadDone(j) ==
  /\ At(j, "created")
  /\ Write(j, <<Empty(201)>>)
  /\ Goto(j, "done")
  /\ UNCHANGED <<sends, where, fd, last, mixed, torn, failures, overrun,
                 opened, met, crossed>>

-----------------------------------------------------------------------------
(* employee_photo_get *)

DownloadOpens(j) ==
  /\ Begin(j) /\ IsDownload(Request(j)) /\ Fits(Request(j)) /\ Free # {}
  /\ \E n \in EmpId(j) :
       /\ photos[n] # Missing
       /\ job' = [job EXCEPT ![j].at = "fstat", ![j].id = n,
                          ![j].file = Lowest]
       /\ opened' = [opened EXCEPT ![j] = photos[n]]
       /\ met' = IF Uploading(n) = {} THEN met ELSE met \cup {j}
  /\ UNCHANGED <<sends, where, fd, disk, offset, wire, failures, overrun>>

DownloadRefused(j) ==
  /\ Begin(j) /\ IsDownload(Request(j)) /\ Fits(Request(j))
  /\ \/ /\ Free = {} \/ \E n \in EmpId(j) : photos[n] = Missing
        /\ UNCHANGED failures
     \/ Fails
  /\ Write(j, <<Empty(404)>>)
  /\ Goto(j, "done")
  /\ UNCHANGED <<sends, where, fd, last, mixed, torn, overrun, opened, met>>

File(j) == photos[job[j].id]

DownloadStats(j) ==
  /\ At(j, "fstat")
  /\ job' = [job EXCEPT ![j].at = "head", ![j].size = Len(File(j))]
  /\ UNCHANGED <<sends, where, fd, disk, offset, wire, failures, overrun,
                 opened, met, crossed>>

DownloadAnnounces(j) ==
  /\ At(j, "head")
  /\ Write(j, <<Answer(200, job[j].size, 0)>>)
  /\ Goto(j, "read")
  /\ UNCHANGED <<sends, where, fd, last, mixed, torn, failures, overrun,
                 opened, met, crossed>>

\* Mutation: the read is not bounded by the buffer.
WholeRest(file, k) == SubSeq(file, k + 1, Len(file))
\* Mutation: the whole buffer is sent, and not what was read.
FullBuffer(file, k) ==
  [i \in 1 .. ReadSize |-> IF k + i <= Len(file) THEN file[k + i] ELSE Nul]
NextChunk(file, k) == SubSeq(file, k + 1, Min({k + ReadSize, Len(file)}))

DownloadReads(j) ==
  /\ At(j, "read") /\ offset[j] < Len(File(j))
  /\ LET chunk == NextChunk(File(j), offset[j]) IN
       /\ job' = [job EXCEPT ![j].at = "send", ![j].chunk = chunk]
       /\ offset' = [offset EXCEPT ![j] = @ + Len(chunk)]
  /\ UNCHANGED <<sends, where, fd, disk, wire, failures, overrun, opened, met,
                 crossed>>

DownloadSends(j) ==
  /\ At(j, "send")
  /\ Write(j, job[j].chunk)
  /\ job' = [job EXCEPT ![j].at = "read", ![j].chunk = <<>>]
  /\ UNCHANGED <<sends, where, fd, last, mixed, torn, failures, overrun,
                 opened, met, crossed>>

\* read returns 0, or -1.
DownloadEnds(j) ==
  /\ At(j, "read")
  /\ \/ offset[j] >= Len(File(j)) /\ UNCHANGED <<cut, failures>>
     \/ offset[j] < Len(File(j)) /\ Fails /\ cut' = cut \cup {j}
  /\ Goto(j, "ended")
  /\ UNCHANGED <<sends, where, fd, disk, offset, room, got, struck, overrun,
                 opened, met, crossed>>

DownloadCloses(j) ==
  /\ At(j, "ended")
  /\ Goto(j, "done")
  /\ UNCHANGED <<sends, where, fd, disk, offset, wire, failures, overrun,
                 opened, met, crossed>>

Upload(j) ==
  \/ UploadOpens(j) \/ UploadRefused(j)
  \/ UploadWrites(j) \/ UploadCloses(j) \/ UploadDone(j)
Download(j) ==
  \/ DownloadOpens(j) \/ DownloadRefused(j)
  \/ DownloadStats(j) \/ DownloadAnnounces(j)
  \/ DownloadReads(j) \/ DownloadSends(j)
  \/ DownloadEnds(j) \/ DownloadCloses(j)

Next ==
  /\ ~overrun
  /\ \/ \E j \in Jobs :
          Overrun(j) \/ HandleAtOnce(j) \/ Upload(j) \/ Download(j)
     \/ \E c \in Clients : Connect(c) \/ Disconnect(c) \/ ClientReads(c)

Spec == Init /\ [][Next]_vars

-----------------------------------------------------------------------------
(* Properties *)

TypeOK ==
  /\ where \in [Clients -> {"away", "open", "closed"}]
  /\ fd \in [Clients -> Fds]
  /\ photos \in [Names -> Seq(Units) \cup {Missing}]
  /\ \A j \in Jobs :
       /\ job[j].at \in {"sent", "write", "written", "created", "fstat",
                         "head", "read", "send", "ended", "done"}
       /\ job[j].id \in Names /\ job[j].file \in Fds
       /\ job[j].size \in Nat /\ offset[j] \in Nat
       /\ job[j].chunk \in Seq(Units) /\ Len(job[j].chunk) <= ReadSize
  /\ room \in [Clients -> 0 .. SendSize]
  /\ failures \in 0 .. MaxFailures

(***************************************************************************)
(* When no upload of it is under way, a photo is the body of the upload    *)
(* that wrote last, as parse_http_request copied it: all of the file,      *)
(* unless uploads of it overlapped (a longer one may leave its end behind) *)
(* or the disk did not take the whole of it.  Not so for a photo that was  *)
(* open under the number of a connection the reactor had closed, when the  *)
(* answer of that connection was written.                                  *)
(***************************************************************************)
Settled(n) ==
  Uploading(n) = {} /\ last[n] # Nobody /\ n \notin torn \cup spoilt

UploadStored ==
  \A n \in Names :
    /\ Settled(n) =>
         /\ IsPrefix(Copied(Body(last[n])), photos[n])
         /\ n \notin mixed => Len(photos[n]) = Len(Body(last[n]))
    /\ last[n] = Nobody /\ Uploading(n) = {} => photos[n] = Photos[n]

(***************************************************************************)
(* A client that stays is sent one answer for a request, in one piece, and *)
(* it announces the length it has, however jobs, uploads, reads of the     *)
(* client and descriptors of others fall together.  A photo is what its    *)
(* file held when it was opened.  Not so for a photo that was uploaded     *)
(* meanwhile, when the socket or the disk gave out, and for jobs of one    *)
(* connection side by side; and the length announced for one employee is   *)
(* an estimate.  What else a client is sent, between answers or inside of  *)
(* one, was for a client that has left.                                    *)
(***************************************************************************)
Received(j) == Kept(got[j[1]], {u \in ToSet(got[j[1]]) : u[1] = j})
Header(j) == Received(j)[1][2]
Payload(j) == [i \in 1 .. Len(Received(j)) - 1 |-> Received(j)[i + 1][2]]
InOnePiece(j) ==
  \E a \in 0 .. Len(got[j[1]]) - Len(Received(j)) :
    SubSeq(got[j[1]], a + 1, a + Len(Received(j))) = Received(j)

AnswersExact ==
  /\ \A j \in Jobs : At(j, "done") /\ j \notin cut /\ where[j[1]] = "open" =>
       /\ Received(j) # <<>>
       /\ j \notin crossed \cup struck => InOnePiece(j)
       /\ opened[j] # Missing /\ j \notin met => Payload(j) = opened[j]
       /\ j \notin met /\ Request(j).path # "employee" =>
            Header(j).announced = Header(j).carried + Len(Payload(j))
  /\ \A c \in Clients : \A u \in ToSet(got[c]) :
       u[1][1] = c \/ where[u[1][1]] = "closed"

(***************************************************************************)
(* "Upload and download of employees' photos" (README.md, with curl        *)
(* --data-binary): a photo that was uploaded whole and undisturbed is what *)
(* the client sent.  strncpy cuts it at the first '\0'.                    *)
(***************************************************************************)
StoredAsSent ==
  \A n \in Names : Settled(n) /\ n \notin mixed => photos[n] = Body(last[n])
=============================================================================
