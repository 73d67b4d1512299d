------------------------------ MODULE TKeyVFS -------------------------------
(***************************************************************************)
(* tkeyvfs.cc: the files SQLite keeps in memory and, for a database, under *)
(* a key of the ROOT file that RootOutputFile or RootInputFile has open.   *)
(*                                                                         *)
(* SQLite has several files open (a database, its journal) that share      *)
(* nothing; this is one of them.  Bytes are numbered from 0 as in the code *)
(* and Junk stands for a byte of memory that was never initialised.        *)
(*                                                                         *)
(* The change counter (dbUpdate, transCntrChng) is not modelled: it is     *)
(* kept only while inNormalWrite is set, and nothing sets it.              *)
(***************************************************************************)
EXTENDS Integers

CONSTANTS
  Byte, Zero, Junk, NoKey,
  Data,                       \* the bytes SQLite writes, a subset of Byte
  mem_page,                   \* the unit of allocation, 2048 in the code
  Offsets, Amounts, Sizes,    \* what SQLite asks for
  Chunks,                     \* the values of SQLITE_FCNTL_CHUNK_SIZE
  PartialReads                \* SQLite reads across the end of the file

ASSUME BytesAssumption  == Zero \in Byte /\ Junk \in Byte /\ Data \subseteq Byte
ASSUME SizesAssumption  ==
  /\ mem_page \in Nat \ {0}
  /\ Offsets \subseteq Nat /\ Amounts \subseteq Nat \ {0} /\ Sizes \subseteq Nat
  /\ Chunks \subseteq Nat /\ PartialReads \in BOOLEAN

VARIABLES
  writable,                   \* the ROOT file is open for writing
  saved,                      \* the highest cycle of the key, or NoKey
  open,                       \* pMethod is set
  readWrite,                  \* SQLite may write: opened READWRITE
  saveToRootFile, pBuf, bufAllocated, fileSize, szChunk,
  reply                       \* what the last call returned

memory == <<pBuf, bufAllocated, fileSize>>
handle == <<writable, open, readWrite, saveToRootFile>>
vars   == <<handle, saved, memory, szChunk, reply>>

NoBytes == [i \in {} |-> Zero]

(* The file itself: the first fileSize bytes of the buffer. *)
contents == [i \in 0..(fileSize - 1) |-> pBuf[i]]

RoundUp(n, unit) == ((n + (unit - 1)) \div unit) * unit
Chunked(n)       == IF szChunk # 0 THEN RoundUp(n, szChunk) ELSE n

(* realloc() to n bytes, with memset() to 0 from byte z on. *)
Realloc(n, z) ==
  [i \in 0..(n - 1) |-> IF i >= z THEN Zero ELSE IF i < bufAllocated THEN pBuf[i] ELSE Junk]

-----------------------------------------------------------------------------
(* The ROOT file is closed, and opened again to be read or updated. *)
OpenRootFile(w) ==
  /\ ~ open
  /\ writable' = w
  /\ UNCHANGED <<saved, open, readWrite, saveToRootFile, memory, szChunk, reply>>

(* unixOpen() of a new database or journal: it starts empty. *)
OpenNew(main) ==
  /\ ~ open /\ open' = TRUE /\ readWrite' = TRUE
  /\ saveToRootFile' = (main /\ writable)
  /\ pBuf' = [i \in 0..(mem_page - 1) |-> Zero]
  /\ bufAllocated' = mem_page /\ fileSize' = 0 /\ szChunk' = 0
  /\ reply' = [op |-> "open"]
  /\ UNCHANGED <<writable, saved>>

(* unixOpen() of the database under the key; its callers see to it that    *)
(* there is one.  The last page comes from malloc().                       *)
OpenExisting(rw) ==
  /\ ~ open /\ open' = TRUE /\ readWrite' = rw
  /\ saved # NoKey
  /\ saveToRootFile' = (rw /\ writable)
  /\ bufAllocated' = RoundUp(saved.size, mem_page)
  /\ pBuf' = [i \in 0..(bufAllocated' - 1) |->
                IF i < saved.size THEN saved.byte[i] ELSE Junk]
  /\ fileSize' = saved.size /\ szChunk' = 0
  /\ reply' = [op |-> "open"]
  /\ UNCHANGED <<writable, saved>>

(* Mutant: the whole buffer is kept. *)
Close_WholeBuffer ==
  /\ open /\ open' = FALSE /\ readWrite' = FALSE
  /\ saved' = IF saveToRootFile THEN [size |-> bufAllocated, byte |-> pBuf] ELSE saved
  /\ saveToRootFile' = FALSE
  /\ pBuf' = NoBytes /\ bufAllocated' = 0 /\ fileSize' = 0 /\ szChunk' = 0
  /\ reply' = [op |-> "close"]
  /\ UNCHANGED writable

(* closeUnixFile() *)
Close ==
  /\ open /\ open' = FALSE /\ readWrite' = FALSE
  /\ saved' = IF saveToRootFile THEN [size |-> fileSize, byte |-> contents] ELSE saved
  /\ saveToRootFile' = FALSE
  /\ pBuf' = NoBytes /\ bufAllocated' = 0 /\ fileSize' = 0 /\ szChunk' = 0
  /\ reply' = [op |-> "close"]
  /\ UNCHANGED writable

-----------------------------------------------------------------------------
(* The number of bytes seekAndRead() copies and reports. *)
Got(o, n) ==
  IF o >= fileSize THEN 0
  ELSE IF o + n > fileSize THEN (o + n) - fileSize
  ELSE n

(* unixRead(): what was not read is zero-filled.  A byte past the buffer   *)
(* is not the program's to read.                                           *)
Read(o, n) ==
  /\ open
  /\ PartialReads \/ o >= fileSize \/ o + n <= fileSize
  /\ reply' = [op |-> "read", offset |-> o, whole |-> Got(o, n) = n,
               data |-> [i \in 0..(n - 1) |->
                           IF i >= Got(o, n) THEN Zero
                           ELSE IF o + i < bufAllocated THEN pBuf[o + i] ELSE Junk]]
  /\ UNCHANGED <<handle, saved, memory, szChunk>>

(* seekAndWrite() into buffer b, of n bytes, all of value v. *)
Written(b, o, n, v) == [i \in DOMAIN b |-> IF i \in o..(o + n - 1) THEN v ELSE b[i]]

(* Mutant: the buffer grows by what is written, wherever it is written. *)
NewBufSize_FromSize(o, n) == RoundUp(Chunked(fileSize + n), mem_page)

NewBufSize(o, n) == RoundUp(Chunked(o + n), mem_page)

(* unixWrite().  seekAndWrite() writes all or nothing. *)
Write(o, n, v) ==
  /\ open /\ readWrite
  /\ IF o + n > bufAllocated
     THEN /\ pBuf' = Written(Realloc(NewBufSize(o, n), o + n), o, n, v)
          /\ bufAllocated' = NewBufSize(o, n)
     ELSE pBuf' = Written(pBuf, o, n, v) /\ UNCHANGED bufAllocated
  /\ fileSize' = IF o + n > fileSize THEN o + n ELSE fileSize
  /\ reply' = [op |-> "write"]
  /\ UNCHANGED <<handle, saved, szChunk>>

(* unixTruncate() *)
Truncate(n) ==
  LET nByte == Chunked(n) IN
  /\ open /\ readWrite
  /\ IF nByte = 0
     THEN pBuf' = [i \in 0..(mem_page - 1) |-> Zero] /\ bufAllocated' = mem_page
     ELSE /\ pBuf' = Realloc(RoundUp(nByte, mem_page), nByte)
          /\ bufAllocated' = RoundUp(nByte, mem_page)
  /\ fileSize' = nByte
  /\ reply' = [op |-> "truncate"]
  /\ UNCHANGED <<handle, saved, szChunk>>

(* SQLITE_FCNTL_CHUNK_SIZE *)
ChunkSize(c) ==
  /\ open
  /\ szChunk' = c
  /\ UNCHANGED <<handle, saved, memory, reply>>

(* fcntlSizeHint() extends the file only together with its buffer. *)
SizeHint(n) ==
  LET nSize == Chunked(n) IN
  /\ open /\ readWrite
  /\ IF szChunk # 0 /\ nSize > fileSize /\ RoundUp(nSize, mem_page) > bufAllocated
     THEN /\ pBuf' = Realloc(RoundUp(nSize, mem_page), fileSize)
          /\ bufAllocated' = RoundUp(nSize, mem_page)
          /\ fileSize' = nSize
     ELSE UNCHANGED memory
  /\ reply' = [op |-> "hint"]
  /\ UNCHANGED <<handle, saved, szChunk>>

(* There is no memory for a larger buffer (SQLITE_FULL, SQLITE_IOERR_...). *)
(* unixTruncate() to 0 has freed the old one by then.                      *)
NoMemory ==
  /\ open /\ readWrite
  /\ \/ UNCHANGED memory
     \/ 0 \in Sizes /\ pBuf' = NoBytes /\ bufAllocated' = 0 /\ fileSize' = 0
  /\ reply' = [op |-> "error"]
  /\ UNCHANGED <<handle, saved, szChunk>>

-----------------------------------------------------------------------------
Init ==
  /\ writable = TRUE
  /\ saved = NoKey
  /\ open = FALSE /\ readWrite = FALSE /\ saveToRootFile = FALSE
  /\ pBuf = NoBytes /\ bufAllocated = 0 /\ fileSize = 0 /\ szChunk = 0
  /\ reply = [op |-> "none"]

Next ==
  \/ \E w \in BOOLEAN : OpenRootFile(w)
  \/ \E main \in BOOLEAN : OpenNew(main)
  \/ \E rw \in BOOLEAN : OpenExisting(rw)
  \/ \E o \in Offsets, n \in Amounts : Read(o, n)
  \/ \E o \in Offsets, n \in Amounts, v \in Data : Write(o, n, v)
  \/ \E n \in Sizes : Truncate(n) \/ SizeHint(n)
  \/ \E c \in Chunks : ChunkSize(c)
  \/ NoMemory \/ Close

Spec == Init /\ [][Next]_vars

-----------------------------------------------------------------------------
(***************************************************************************)
(* Properties                                                              *)
(***************************************************************************)
File == UNION {[size : {n}, byte : [0..(n - 1) -> Byte]] : n \in Nat}

(* The file lies in its buffer, which is a whole number of memory pages.   *)
TypeOK ==
  /\ writable \in BOOLEAN /\ open \in BOOLEAN /\ readWrite \in BOOLEAN
  /\ saveToRootFile \in BOOLEAN
  /\ saved # NoKey => saved.size \in Nat /\ saved.byte \in [0..(saved.size - 1) -> Byte]
  /\ bufAllocated \in Nat /\ fileSize \in Nat /\ szChunk \in Nat
  /\ pBuf \in [0..(bufAllocated - 1) -> Byte]
  /\ fileSize <= bufAllocated
  /\ bufAllocated % mem_page = 0

(* SQLite finds in its files what it wrote there, and in a database that   *)
(* is opened again what was there when it was closed.                      *)
Stored == INSTANCE StoredFile WITH
  keep <- saveToRootFile, size <- fileSize, byte <- contents
StoredSpec == Stored!Spec

(* seekAndRead(): "Return the number of bytes actually read."  So a read   *)
(* gives each byte of the file that was asked for, and zeros after them.   *)
ReadGivesTheFile ==
  reply.op = "read" =>
    \A i \in DOMAIN reply.data :
      LET at == reply.offset + i IN
      reply.data[i] = IF at < fileSize THEN contents[at] ELSE Zero
=============================================================================
