--------------------------- MODULE TKeyVFS_proofs ---------------------------
(***************************************************************************)
(* For all byte values, page sizes, chunk sizes and requests: the file     *)
(* lies in its buffer, and tkeyvfs gives SQLite the files it expects.      *)
(***************************************************************************)
EXTENDS TKeyVFS, TLAPS

(* The rounding in fcntlSizeHint(), seekAndWrite(), unixTruncate() and     *)
(* unixOpen() gives a multiple of the unit that is not less.               *)
LEMMA RoundsUp ==
  ASSUME NEW n \in Nat, NEW unit \in Nat \ {0}
  PROVE  /\ RoundUp(n, unit) \in Nat
         /\ RoundUp(n, unit) >= n
         /\ RoundUp(n, unit) % unit = 0
<1> DEFINE q == (n + (unit - 1)) \div unit
           r == (n + (unit - 1)) % unit
<1>1. n + (unit - 1) \in Nat
  OBVIOUS
<1>2. q \in Nat /\ r \in 0..(unit - 1)
  BY <1>1
<1>3. n + (unit - 1) = q * unit + r
  BY <1>1
<1>4. RoundUp(n, unit) = q * unit
  BY DEF RoundUp
<1>5. (q * unit) % unit = 0
  BY <1>2
<1>6. q * unit \in Nat /\ q * unit >= n
  BY <1>2, <1>3
<1> QED
  BY <1>4, <1>5, <1>6

LEMMA ChunksUp ==
  ASSUME TypeOK, NEW n \in Nat
  PROVE  Chunked(n) \in Nat /\ Chunked(n) >= n
BY RoundsUp DEF Chunked, TypeOK

LEMMA ReallocType ==
  ASSUME TypeOK, NEW n \in Nat, NEW z \in Nat
  PROVE  Realloc(n, z) \in [0..(n - 1) -> Byte]
BY BytesAssumption DEF Realloc, TypeOK

LEMMA WrittenType ==
  ASSUME NEW m \in Nat, NEW b \in [0..(m - 1) -> Byte],
         NEW o \in Nat, NEW n \in Nat, NEW v \in Byte
  PROVE  Written(b, o, n, v) \in [0..(m - 1) -> Byte]
BY DEF Written

LEMMA EmptyFile ==
  /\ 0 % mem_page = 0
  /\ \A b : b = NoBytes => b \in [0..(0 - 1) -> Byte]
<1>1. 0..(0 - 1) = {}
  OBVIOUS
<1>2. 0 % mem_page = 0
  BY SizesAssumption
<1> QED
  BY <1>1, <1>2 DEF NoBytes

-----------------------------------------------------------------------------
LEMMA OpenNewType == TypeOK /\ (\E main \in BOOLEAN : OpenNew(main)) => TypeOK'
<1> SUFFICES ASSUME TypeOK, NEW main \in BOOLEAN, OpenNew(main) PROVE TypeOK'
  OBVIOUS
<1>1. mem_page % mem_page = 0
  BY SizesAssumption
<1> QED
  BY <1>1, SizesAssumption, BytesAssumption DEF TypeOK, OpenNew

LEMMA OpenExistingType == TypeOK /\ (\E rw \in BOOLEAN : OpenExisting(rw)) => TypeOK'
<1> SUFFICES ASSUME TypeOK, NEW rw \in BOOLEAN, OpenExisting(rw) PROVE TypeOK'
  OBVIOUS
<1>1. saved.size \in Nat /\ saved.byte \in [0..(saved.size - 1) -> Byte]
  BY DEF TypeOK, OpenExisting
<1>2. /\ bufAllocated' \in Nat /\ bufAllocated' >= saved.size
      /\ bufAllocated' % mem_page = 0
  BY <1>1, RoundsUp, SizesAssumption DEF OpenExisting
<1>3. pBuf' \in [0..(bufAllocated' - 1) -> Byte]
  BY <1>1, <1>2, BytesAssumption DEF OpenExisting
<1> QED
  BY <1>1, <1>2, <1>3 DEF TypeOK, OpenExisting

LEMMA WriteType ==
  ASSUME TypeOK, NEW o \in Nat, NEW n \in Nat \ {0}, NEW v \in Byte, Write(o, n, v)
  PROVE  TypeOK'
<1>1. /\ NewBufSize(o, n) \in Nat /\ NewBufSize(o, n) >= o + n
      /\ NewBufSize(o, n) % mem_page = 0
  <2>1. Chunked(o + n) \in Nat /\ Chunked(o + n) >= o + n
    BY ChunksUp
  <2> QED
    BY <2>1, RoundsUp, SizesAssumption DEF NewBufSize
<1>2. CASE o + n > bufAllocated
  <2> DEFINE new == Realloc(NewBufSize(o, n), o + n)
  <2>1. new \in [0..(NewBufSize(o, n) - 1) -> Byte]
    <3>1. NewBufSize(o, n) \in Nat /\ o + n \in Nat
      BY <1>1
    <3> QED
      BY <3>1, ReallocType
  <2>2. Written(new, o, n, v) \in [0..(NewBufSize(o, n) - 1) -> Byte]
    BY <1>1, <2>1, WrittenType
  <2>3. pBuf' \in [0..(bufAllocated' - 1) -> Byte]
    BY <1>2, <2>2 DEF Write
  <2> QED
    BY <1>1, <1>2, <2>3 DEF TypeOK, Write, handle
<1>3. CASE ~ (o + n > bufAllocated)
  <2>1. pBuf' \in [0..(bufAllocated - 1) -> Byte]
    <3>1. Written(pBuf, o, n, v) \in [0..(bufAllocated - 1) -> Byte]
      BY WrittenType DEF TypeOK
    <3> QED
      BY <1>3, <3>1 DEF Write
  <2> QED
    BY <1>3, <2>1 DEF TypeOK, Write, handle
<1> QED
  BY <1>2, <1>3

LEMMA TruncateType ==
  ASSUME TypeOK, NEW n \in Nat, Truncate(n)
  PROVE  TypeOK'
<1> DEFINE nByte == Chunked(n)
<1>1. nByte \in Nat
  BY ChunksUp
<1>2. CASE nByte = 0
  <2>1. mem_page % mem_page = 0
    BY SizesAssumption
  <2> QED
    BY <1>2, <2>1, SizesAssumption, BytesAssumption DEF TypeOK, Truncate, handle
<1>3. CASE nByte # 0
  <2> DEFINE new == RoundUp(nByte, mem_page)
  <2>1. new \in Nat /\ new >= nByte /\ new % mem_page = 0
    BY <1>1, RoundsUp, SizesAssumption
  <2>2. Realloc(new, nByte) \in [0..(new - 1) -> Byte]
    BY <1>1, <2>1, ReallocType
  <2> HIDE DEF new, nByte
  <2>3. pBuf' = Realloc(new, nByte) /\ bufAllocated' = new /\ fileSize' = nByte
    BY <1>3 DEF Truncate, new, nByte
  <2> QED
    BY <1>1, <2>1, <2>2, <2>3 DEF TypeOK, Truncate, handle
<1> QED
  BY <1>2, <1>3

LEMMA SizeHintType ==
  ASSUME TypeOK, NEW n \in Nat, SizeHint(n)
  PROVE  TypeOK'
<1> DEFINE nSize == Chunked(n)
           new   == RoundUp(nSize, mem_page)
<1>1. nSize \in Nat
  BY ChunksUp
<1>2. new \in Nat /\ new >= nSize /\ new % mem_page = 0
  BY <1>1, RoundsUp, SizesAssumption
<1>3. Realloc(new, fileSize) \in [0..(new - 1) -> Byte]
  BY <1>2, ReallocType DEF TypeOK
<1> HIDE DEF new, nSize
<1>4. \/ pBuf' = Realloc(new, fileSize) /\ bufAllocated' = new /\ fileSize' = nSize
      \/ UNCHANGED memory
  BY DEF SizeHint, new, nSize
<1> QED
  BY <1>1, <1>2, <1>3, <1>4 DEF TypeOK, SizeHint, handle, memory

LEMMA NoMemoryType == TypeOK /\ NoMemory => TypeOK'
<1> SUFFICES ASSUME TypeOK, NoMemory PROVE TypeOK'
  OBVIOUS
<1>1. CASE pBuf' = NoBytes /\ bufAllocated' = 0 /\ fileSize' = 0
  <2>1. pBuf' \in [0..(bufAllocated' - 1) -> Byte] /\ bufAllocated' % mem_page = 0
    BY <1>1, EmptyFile
  <2> QED
    BY <1>1, <2>1 DEF TypeOK, NoMemory, handle
<1>2. CASE UNCHANGED memory
  BY <1>2 DEF TypeOK, NoMemory, handle, memory
<1> QED
  BY <1>1, <1>2 DEF NoMemory

LEMMA CloseType == TypeOK /\ Close => TypeOK'
<1> SUFFICES ASSUME TypeOK, Close PROVE TypeOK'
  OBVIOUS
<1>1. pBuf' \in [0..(bufAllocated' - 1) -> Byte] /\ bufAllocated' % mem_page = 0
  BY EmptyFile DEF Close
<1>2. contents \in [0..(fileSize - 1) -> Byte]
  BY DEF contents, TypeOK
<1>3. saved' # NoKey => saved'.size \in Nat /\ saved'.byte \in [0..(saved'.size - 1) -> Byte]
  BY <1>2 DEF TypeOK, Close
<1>4. /\ writable' \in BOOLEAN /\ open' \in BOOLEAN /\ readWrite' \in BOOLEAN
      /\ saveToRootFile' \in BOOLEAN
  BY DEF TypeOK, Close
<1>5. /\ bufAllocated' \in Nat /\ fileSize' \in Nat /\ szChunk' \in Nat
      /\ fileSize' <= bufAllocated'
  BY DEF TypeOK, Close
<1> QED
  BY <1>1, <1>3, <1>4, <1>5 DEF TypeOK

LEMMA TypeCorrectStep == TypeOK /\ [Next]_vars => TypeOK'
<1> SUFFICES ASSUME TypeOK, [Next]_vars PROVE TypeOK'
  OBVIOUS
<1>1. CASE \E w \in BOOLEAN : OpenRootFile(w)
  BY <1>1 DEF TypeOK, OpenRootFile, memory
<1>2. CASE \E main \in BOOLEAN : OpenNew(main)
  BY <1>2, OpenNewType
<1>3. CASE \E rw \in BOOLEAN : OpenExisting(rw)
  BY <1>3, OpenExistingType
<1>4. CASE \E o \in Offsets, n \in Amounts : Read(o, n)
  BY <1>4 DEF TypeOK, Read, handle, memory
<1>5. CASE \E o \in Offsets, n \in Amounts, v \in Data : Write(o, n, v)
  BY <1>5, WriteType, SizesAssumption, BytesAssumption
<1>6. CASE \E n \in Sizes : Truncate(n) \/ SizeHint(n)
  BY <1>6, TruncateType, SizeHintType, SizesAssumption
<1>7. CASE \E c \in Chunks : ChunkSize(c)
  BY <1>7, SizesAssumption DEF TypeOK, ChunkSize, handle, memory
<1>8. CASE NoMemory
  BY <1>8, NoMemoryType
<1>9. CASE Close
  BY <1>9, CloseType
<1>10. CASE UNCHANGED vars
  BY <1>10 DEF TypeOK, vars, handle, memory
<1> QED
  BY <1>1, <1>2, <1>3, <1>4, <1>5, <1>6, <1>7, <1>8, <1>9, <1>10 DEF Next

(* Whatever SQLite asks for, the file lies in its buffer and the buffer is *)
(* a whole number of memory pages.                                         *)
THEOREM TypeCorrect == Spec => []TypeOK
<1>1. Init => TypeOK
  <2> SUFFICES ASSUME Init PROVE TypeOK
    OBVIOUS
  <2>1. pBuf \in [0..(bufAllocated - 1) -> Byte] /\ bufAllocated % mem_page = 0
    BY EmptyFile DEF Init
  <2>2. /\ writable \in BOOLEAN /\ open \in BOOLEAN /\ readWrite \in BOOLEAN
        /\ saveToRootFile \in BOOLEAN /\ saved = NoKey
    BY DEF Init
  <2>3. /\ bufAllocated \in Nat /\ fileSize \in Nat /\ szChunk \in Nat
        /\ fileSize <= bufAllocated
    BY DEF Init
  <2> QED
    BY <2>1, <2>2, <2>3 DEF TypeOK
<1>2. TypeOK /\ [Next]_vars => TypeOK'
  BY TypeCorrectStep
<1> QED
  BY <1>1, <1>2, PTL DEF Spec

-----------------------------------------------------------------------------
LEMMA PrimedContentsType == TypeOK' => contents' \in [0..(fileSize' - 1) -> Byte]
<1>1. \A n, m \in Nat : \A b \in [0..(m - 1) -> Byte] :
        n <= m => [i \in 0..(n - 1) |-> b[i]] \in [0..(n - 1) -> Byte]
  OBVIOUS
<1>2. TypeOK' => /\ fileSize' \in Nat /\ bufAllocated' \in Nat /\ fileSize' <= bufAllocated'
                 /\ pBuf' \in [0..(bufAllocated' - 1) -> Byte]
  BY DEF TypeOK
<1> QED
  BY <1>1, <1>2 DEF contents

LEMMA EmptyContents == fileSize = 0 => contents = [i \in {} |-> Zero]
<1>1. 0..(0 - 1) = {}
  OBVIOUS
<1> QED
  BY <1>1 DEF contents

(* What a reallocated buffer keeps of the file. *)
LEMMA ReallocKeeps ==
  ASSUME TypeOK, NEW n \in Nat, NEW z \in Nat, NEW i \in 0..(fileSize - 1), i < n, i < z
  PROVE  Realloc(n, z)[i] = contents[i]
BY DEF Realloc, TypeOK, contents

LEMMA OpenNewRefines == TypeOK /\ (\E main \in BOOLEAN : OpenNew(main)) => Stored!Open
<1> SUFFICES ASSUME TypeOK, NEW main \in BOOLEAN, OpenNew(main) PROVE Stored!Open
  OBVIOUS
<1>1. fileSize' = 0 /\ contents' = [i \in {} |-> Zero]
  BY EmptyContents DEF OpenNew, contents
<1>2. saveToRootFile' \in BOOLEAN
  BY DEF OpenNew, TypeOK
<1> QED
  BY <1>1, <1>2 DEF OpenNew, Stored!Open

LEMMA OpenExistingRefines ==
  TypeOK /\ (\E rw \in BOOLEAN : OpenExisting(rw)) => Stored!Open
<1> SUFFICES ASSUME TypeOK, NEW rw \in BOOLEAN, OpenExisting(rw) PROVE Stored!Open
  OBVIOUS
<1>1. saved.size \in Nat /\ saved.byte \in [0..(saved.size - 1) -> Byte]
  BY DEF TypeOK, OpenExisting
<1>2. bufAllocated' \in Nat /\ bufAllocated' >= saved.size
  BY <1>1, RoundsUp, SizesAssumption DEF OpenExisting
<1>3. contents' = [i \in 0..(saved.size - 1) |-> saved.byte[i]]
  BY <1>1, <1>2 DEF OpenExisting, contents
<1>4. contents' = saved.byte
  BY <1>1, <1>3
<1>5. saveToRootFile' \in BOOLEAN
  BY DEF OpenExisting, TypeOK
<1> QED
  BY <1>4, <1>5 DEF OpenExisting, Stored!Open

(* A read that stays inside the file, or outside, gives the file. *)
LEMMA ReadRefines ==
  ASSUME TypeOK, ~ PartialReads, NEW o \in Nat, NEW n \in Nat \ {0}, Read(o, n)
  PROVE  Stored!Read(o, n)
<1> DEFINE got  == [i \in 0..(n - 1) |->
                      IF i >= Got(o, n) THEN Zero
                      ELSE IF o + i < bufAllocated THEN pBuf[o + i] ELSE Junk]
           file == [i \in 0..(n - 1) |-> IF o + i < fileSize THEN contents[o + i] ELSE Zero]
<1>1. /\ o >= fileSize \/ o + n <= fileSize
      /\ fileSize \in Nat /\ bufAllocated \in Nat /\ fileSize <= bufAllocated
  BY DEF Read, TypeOK
<1>2. got = file
  <2>1. CASE o >= fileSize
    <3>1. \A i \in 0..(n - 1) : i >= Got(o, n) /\ ~ (o + i < fileSize)
      BY <1>1, <2>1 DEF Got
    <3> QED
      BY <3>1
  <2>2. CASE ~ (o >= fileSize)
    <3>1. \A i \in 0..(n - 1) :
            /\ ~ (i >= Got(o, n)) /\ o + i < bufAllocated /\ o + i < fileSize
            /\ contents[o + i] = pBuf[o + i]
      BY <1>1, <2>2 DEF Got, contents
    <3> QED
      BY <3>1
  <2> QED
    BY <2>1, <2>2
<1>3. (Got(o, n) = n) = (o + n <= fileSize)
  BY <1>1 DEF Got
<1>4. reply' = [op |-> "read", offset |-> o, whole |-> Got(o, n) = n, data |-> got]
  BY DEF Read
<1>5. reply' = [op |-> "read", offset |-> o, whole |-> o + n <= fileSize, data |-> file]
  BY <1>2, <1>3, <1>4
<1>6. open /\ UNCHANGED <<saved, saveToRootFile, open, fileSize, contents>>
  BY DEF Read, handle, memory, contents
<1> QED
  BY <1>5, <1>6 DEF Stored!Read

LEMMA WriteRefines ==
  ASSUME TypeOK, NEW o \in Nat, NEW n \in Nat \ {0}, NEW v \in Byte, Write(o, n, v)
  PROVE  Stored!Write(o, n)
<1>1. TypeOK'
  BY WriteType
<1>2. contents' \in [0..(fileSize' - 1) -> Byte]
  BY <1>1, PrimedContentsType
<1>3. /\ fileSize' = IF o + n > fileSize THEN o + n ELSE fileSize
      /\ fileSize \in Nat /\ fileSize' \in Nat /\ fileSize' <= bufAllocated'
      /\ bufAllocated' \in Nat /\ o + n <= fileSize' /\ fileSize <= fileSize'
  BY <1>1 DEF Write, TypeOK
<1>4. ASSUME NEW i \in 0..(fileSize - 1), ~ (i \in o..(o + n - 1))
      PROVE  contents'[i] = contents[i]
  <2>1. contents'[i] = pBuf'[i]
    BY <1>3 DEF contents
  <2>2. CASE o + n > bufAllocated
    <3>1. i < o + n /\ i < bufAllocated'
      BY <1>3, <1>4, <2>2 DEF TypeOK
    <3>2. NewBufSize(o, n) = bufAllocated' /\ o + n \in Nat
      BY <2>2 DEF Write
    <3> DEFINE new == Realloc(NewBufSize(o, n), o + n)
    <3>3. NewBufSize(o, n) \in Nat /\ i < NewBufSize(o, n)
      BY <1>3, <3>1, <3>2
    <3>5. new[i] = contents[i]
      BY <3>1, <3>2, <3>3, ReallocKeeps
    <3>6. i \in DOMAIN new
      BY <1>3, <3>3 DEF Realloc
    <3>4. pBuf' = Written(new, o, n, v)
      BY <2>2 DEF Write
    <3> HIDE DEF new
    <3> QED
      BY <1>4, <2>1, <3>4, <3>5, <3>6 DEF Written
  <2>3. CASE ~ (o + n > bufAllocated)
    <3>1. pBuf' = Written(pBuf, o, n, v) /\ i \in DOMAIN pBuf /\ contents[i] = pBuf[i]
      BY <2>3 DEF Write, TypeOK, contents
    <3> QED
      BY <1>4, <2>1, <3>1 DEF Written
  <2> QED
    BY <2>2, <2>3
<1>5. ASSUME NEW i \in o..(o + n - 1) PROVE contents'[i] = v
  <2>1. contents'[i] = pBuf'[i] /\ i \in DOMAIN pBuf'
    BY <1>1, <1>3 DEF contents, TypeOK
  <2> QED
    BY <2>1 DEF Write, Written
<1>6. Stored!Keeps(IF o + n > fileSize THEN o + n ELSE fileSize,
                   0..(fileSize - 1) \ o..(o + n - 1))
  BY <1>2, <1>3, <1>4 DEF Stored!Keeps
<1> QED
  BY <1>5, <1>6 DEF Stored!Write, Write, handle

LEMMA TruncateRefines ==
  ASSUME TypeOK, NEW n \in Nat, Truncate(n)
  PROVE  Stored!Truncate(n)
<1>1. TypeOK'
  BY TruncateType
<1>2. contents' \in [0..(fileSize' - 1) -> Byte]
  BY <1>1, PrimedContentsType
<1>3. fileSize' = Chunked(n) /\ fileSize' \in Nat /\ fileSize' >= n /\ fileSize \in Nat
  BY ChunksUp DEF Truncate, TypeOK
<1>4. ASSUME NEW i \in 0..(fileSize - 1) \cap 0..(fileSize' - 1)
      PROVE  contents'[i] = contents[i]
  <2>1. contents'[i] = pBuf'[i] /\ fileSize' # 0
    BY <1>3 DEF contents
  <2>2. RoundUp(fileSize', mem_page) \in Nat /\ RoundUp(fileSize', mem_page) >= fileSize'
    BY <1>3, RoundsUp, SizesAssumption
  <2>3. pBuf' = Realloc(RoundUp(fileSize', mem_page), fileSize')
    BY <1>3, <2>1 DEF Truncate
  <2> QED
    BY <1>3, <2>1, <2>2, <2>3, ReallocKeeps
<1>5. Stored!Keeps(fileSize', 0..(fileSize - 1) \cap 0..(fileSize' - 1))
  BY <1>2, <1>4 DEF Stored!Keeps
<1> QED
  BY <1>3, <1>5 DEF Stored!Truncate, Truncate, handle

LEMMA SizeHintRefines ==
  ASSUME TypeOK, NEW n \in Nat, SizeHint(n)
  PROVE  Stored!SizeHint
<1>1. TypeOK'
  BY SizeHintType
<1>2. contents' \in [0..(fileSize' - 1) -> Byte]
  BY <1>1, PrimedContentsType
<1>3. fileSize' >= fileSize /\ fileSize \in Nat /\ fileSize' \in Nat
  BY ChunksUp DEF SizeHint, TypeOK, memory
<1>4. ASSUME NEW i \in 0..(fileSize - 1) \cap 0..(fileSize' - 1)
      PROVE  contents'[i] = contents[i]
  <2>1. CASE UNCHANGED memory
    BY <2>1 DEF memory, contents
  <2>2. CASE ~ UNCHANGED memory
    <3>1. /\ fileSize' = Chunked(n)
          /\ pBuf' = Realloc(RoundUp(fileSize', mem_page), fileSize)
      BY <2>2 DEF SizeHint
    <3>2. RoundUp(fileSize', mem_page) \in Nat /\ RoundUp(fileSize', mem_page) >= fileSize'
      BY <1>3, RoundsUp, SizesAssumption
    <3>3. contents'[i] = pBuf'[i]
      BY <1>3 DEF contents
    <3> QED
      BY <1>3, <3>1, <3>2, <3>3, ReallocKeeps
  <2> QED
    BY <2>1, <2>2
<1>5. Stored!Keeps(fileSize', 0..(fileSize - 1) \cap 0..(fileSize' - 1))
  BY <1>2, <1>4 DEF Stored!Keeps
<1> QED
  BY <1>3, <1>5 DEF Stored!SizeHint, SizeHint, handle

LEMMA NoMemoryRefines == TypeOK /\ NoMemory => Stored!Fails
<1> SUFFICES ASSUME TypeOK, NoMemory PROVE Stored!Fails
  OBVIOUS
<1>1. CASE UNCHANGED memory
  <2>1. UNCHANGED <<fileSize, contents>>
    BY <1>1 DEF memory, contents
  <2> QED
    BY <2>1 DEF NoMemory, Stored!Fails, handle
<1>2. CASE fileSize' = 0
  <2>1. contents' = [i \in {} |-> Zero]
    BY <1>2, EmptyContents DEF contents
  <2> QED
    BY <1>2, <2>1 DEF NoMemory, Stored!Fails, handle
<1> QED
  BY <1>1, <1>2 DEF NoMemory

LEMMA CloseRefines == TypeOK /\ Close => Stored!Close
<1> SUFFICES ASSUME TypeOK, Close PROVE Stored!Close
  OBVIOUS
<1>1. fileSize' = 0 /\ contents' = [i \in {} |-> Zero]
  BY EmptyContents DEF Close, contents
<1> QED
  BY <1>1 DEF Close, Stored!Close

LEMMA Step ==
  ASSUME TypeOK, ~ PartialReads, [Next]_vars
  PROVE  [Stored!Next]_(Stored!vars)
<1>1. CASE \E w \in BOOLEAN : OpenRootFile(w)
  BY <1>1 DEF OpenRootFile, memory, contents, Stored!vars
<1>2. CASE \E main \in BOOLEAN : OpenNew(main)
  BY <1>2, OpenNewRefines DEF Stored!Next
<1>3. CASE \E rw \in BOOLEAN : OpenExisting(rw)
  BY <1>3, OpenExistingRefines DEF Stored!Next
<1>4. CASE \E o \in Offsets, n \in Amounts : Read(o, n)
  BY <1>4, ReadRefines, SizesAssumption DEF Stored!Next
<1>5. CASE \E o \in Offsets, n \in Amounts, v \in Data : Write(o, n, v)
  BY <1>5, WriteRefines, SizesAssumption, BytesAssumption DEF Stored!Next
<1>6. CASE \E n \in Sizes : Truncate(n) \/ SizeHint(n)
  BY <1>6, TruncateRefines, SizeHintRefines, SizesAssumption DEF Stored!Next
<1>7. CASE \E c \in Chunks : ChunkSize(c)
  BY <1>7 DEF ChunkSize, handle, memory, contents, Stored!vars
<1>8. CASE NoMemory
  BY <1>8, NoMemoryRefines DEF Stored!Next
<1>9. CASE Close
  BY <1>9, CloseRefines DEF Stored!Next
<1>10. CASE UNCHANGED vars
  BY <1>10 DEF vars, handle, memory, contents, Stored!vars
<1> QED
  BY <1>1, <1>2, <1>3, <1>4, <1>5, <1>6, <1>7, <1>8, <1>9, <1>10 DEF Next

(* As long as SQLite does not read across the end of a file, it finds in   *)
(* its files what it wrote, and in a database opened again what was there  *)
(* when it was closed.                                                     *)
THEOREM StoresFiles ==
  ASSUME ~ PartialReads
  PROVE  Spec => StoredSpec
<1>1. Init => Stored!Init
  BY EmptyContents DEF Init, Stored!Init
<1>2. TypeOK /\ [Next]_vars => [Stored!Next]_(Stored!vars)
  BY Step
<1> QED
  BY <1>1, <1>2, TypeCorrect, PTL DEF Spec, StoredSpec, Stored!Spec
=============================================================================
