--------------------------- MODULE Chunks_proofs ---------------------------
(***************************************************************************)
(* For every shape and all limits: the chunks dataChunk chooses have no    *)
(* empty axis, there are never more of them than MaxChunks, and they are   *)
(* those its comment asks for; chunkCacheSize, for whatever chunks a file  *)
(* has, computes what exact arithmetic would, and through a cache of that  *)
(* size reading one measurement after the other decompresses no chunk      *)
(* twice.                                                                  *)
(***************************************************************************)
EXTENDS Chunks, SequenceTheorems, TLAPS

\* What the quotient of integer division is.
LEMMA Quotient ==
  ASSUME NEW x \in Nat, NEW b \in Positive
  PROVE  /\ x \div b \in Nat
         /\ b * (x \div b) <= x
         /\ x < b * (x \div b) + b
BY SMT DEF Positive

\* A product grows with its second factor.
LEMMA ProductGrows ==
  ASSUME NEW b \in Nat, NEW p \in Int, NEW q \in Int, p <= q
  PROVE  b * p <= b * q
BY SMT

\* CeilDiv(a, b) pieces of length b cover a, and no fewer do.
LEMMA CeilDivCovers ==
  ASSUME NEW a \in Nat, NEW b \in Positive
  PROVE  CeilDiv(a, b) \in Nat /\ a <= b * CeilDiv(a, b)
<1>1. a + b - 1 \in Nat
  BY DEF Positive
<1>2. QED
  BY <1>1, Quotient DEF CeilDiv, Positive

LEMMA CeilDivLeast ==
  ASSUME NEW a \in Nat, NEW b \in Positive, NEW n \in Nat, a <= b * n
  PROVE  CeilDiv(a, b) <= n
<1> DEFINE q == CeilDiv(a, b)
<1>1. q \in Nat /\ b * q <= a + b - 1
  <2>1. a + b - 1 \in Nat
    BY DEF Positive
  <2>2. QED
    BY <2>1, Quotient DEF CeilDiv
<1>2. SUFFICES ASSUME n + 1 <= q PROVE FALSE
  BY <1>1
<1>3. b * (n + 1) <= b * q
  BY <1>1, <1>2, ProductGrows DEF Positive
<1>4. b * (n + 1) = b * n + b
  BY DEF Positive
<1>5. b * n \in Nat /\ b * q \in Nat /\ b * (n + 1) \in Nat
  BY <1>1 DEF Positive
<1>6. QED
  BY <1>1, <1>3, <1>4, <1>5 DEF Positive

LEMMA CeilDivPositive ==
  ASSUME NEW a \in Positive, NEW b \in Positive
  PROVE  CeilDiv(a, b) \in Positive
<1>1. CeilDiv(a, b) \in Nat /\ a <= b * CeilDiv(a, b)
  BY CeilDivCovers DEF Positive
<1>2. CeilDiv(a, b) # 0
  BY <1>1 DEF Positive
<1>3. QED
  BY <1>1, <1>2 DEF Positive

-----------------------------------------------------------------------------
(* dataChunk, for any shape.                                               *)

LEMMA MeasurementsFittingPositive ==
  ASSUME NEW s \in Positive \X Positive \X Positive
  PROVE  MeasurementsFitting(s) \in Positive
<1>1. FloatSize * s[3] \in Positive
  BY LimitsGiven DEF Positive
<1>2. MaxChunkBytes \div (FloatSize * s[3]) \in Nat
  BY <1>1, Quotient, LimitsGiven DEF Positive
<1>3. QED
  BY <1>2 DEF MeasurementsFitting, Larger, Smaller, Positive

\* No axis of a chunk is empty, and the chunks are at most MaxChunks. Where
\* the blocks of measurements are few enough, each may have MaxChunks \div
\* blocks chunks, and the receivers of a chunk are chosen for that many.
LEMMA DataChunkFits ==
  ASSUME NEW s \in Positive \X Positive \X Positive
  PROVE  /\ DataChunk(s) \in Positive \X Positive \X Positive
         /\ CeilDiv(s[1], DataChunk(s)[1]) * CeilDiv(s[2], DataChunk(s)[2]) <= MaxChunks
<1> DEFINE mc == MeasurementsFitting(s)
           blocks == Blocks(s[1], mc)
<1>1. mc \in Positive /\ blocks = CeilDiv(s[1], mc) /\ blocks \in Positive
  BY MeasurementsFittingPositive, CeilDivPositive DEF Blocks
<1> HIDE DEF mc, blocks
<1>2. CASE blocks <= MaxChunks
  <2> DEFINE each == MaxChunks \div blocks
             rc == CeilDiv(s[2], each)
  <2>1. each \in Nat /\ blocks * each <= MaxChunks /\ MaxChunks < blocks * each + blocks
    BY <1>1, Quotient, LimitsGiven DEF Positive
  <2>2. each \in Positive
    BY <1>1, <1>2, <2>1, LimitsGiven DEF Positive
  <2> HIDE DEF each
  <2>3. rc \in Positive /\ s[2] <= each * rc
    BY <2>2, CeilDivPositive, CeilDivCovers DEF Positive
  <2> HIDE DEF rc
  <2>4. CeilDiv(s[2], rc) <= each /\ CeilDiv(s[2], rc) \in Nat
    <3>1. each * rc = rc * each
      BY <2>2, <2>3 DEF Positive
    <3>2. s[2] \in Nat /\ each \in Nat /\ s[2] <= rc * each
      BY <2>2, <2>3, <3>1 DEF Positive
    <3>3. QED
      BY <2>3, <3>2, CeilDivLeast, CeilDivCovers
  <2>5. blocks * CeilDiv(s[2], rc) <= blocks * each
    BY <1>1, <2>2, <2>4, ProductGrows DEF Positive
  <2>6. DataChunk(s) = <<mc, rc, s[3]>>
    BY <1>2 DEF DataChunk, Receivers, mc, blocks, rc, each
  <2>7. blocks * CeilDiv(s[2], rc) \in Nat /\ blocks * each \in Nat
    BY <1>1, <2>2, <2>4 DEF Positive
  <2>8. blocks * CeilDiv(s[2], rc) <= MaxChunks
    BY <2>1, <2>5, <2>7, LimitsGiven DEF Positive
  <2>9. QED
    BY <1>1, <2>3, <2>6, <2>8
<1>3. CASE ~(blocks <= MaxChunks)
  <2> DEFINE most == CeilDiv(s[1], MaxChunks)
  <2>1. most \in Positive /\ s[1] <= MaxChunks * most
    BY CeilDivPositive, CeilDivCovers, LimitsGiven DEF Positive
  <2> HIDE DEF most
  <2>2. CeilDiv(s[1], most) <= MaxChunks /\ CeilDiv(s[1], most) \in Nat
    <3>1. MaxChunks * most = most * MaxChunks
      BY <2>1, LimitsGiven DEF Positive
    <3>2. s[1] \in Nat /\ MaxChunks \in Nat /\ s[1] <= most * MaxChunks
      BY <2>1, <3>1, LimitsGiven DEF Positive
    <3>3. QED
      BY <2>1, <3>2, CeilDivLeast, CeilDivCovers
  <2>3. CeilDiv(s[2], s[2]) = 1
    <3>1. s[2] \in Nat /\ 1 \in Nat /\ s[2] <= s[2] * 1
      BY DEF Positive
    <3>2. CeilDiv(s[2], s[2]) <= 1
      BY <3>1, CeilDivLeast
    <3>3. QED
      BY <3>2, CeilDivPositive DEF Positive
  <2>4. DataChunk(s) = <<most, s[2], s[3]>>
    BY <1>3 DEF DataChunk, mc, blocks, most
  <2>5. CeilDiv(s[1], most) * 1 <= MaxChunks
    BY <2>2, LimitsGiven DEF Positive
  <2>6. QED
    BY <2>1, <2>3, <2>4, <2>5
<1>4. QED
  BY <1>2, <1>3

-----------------------------------------------------------------------------

\* Chunks of the library's own files have no empty axis, and the reader stays
\* within the measurements.
THEOREM TypeCorrect == Spec => []TypeOK
<1>1. Init => TypeOK
  <2> SUFFICES ASSUME Init PROVE TypeOK
    OBVIOUS
  <2>1. file.shape \in Positive \X Positive \X Positive
    BY FilesGiven DEF Init, OwnFiles, OtherFiles
  <2>2. file.own => file.chunk \in Positive \X Positive \X Positive
    <3> SUFFICES ASSUME file.own
                 PROVE  file.chunk \in Positive \X Positive \X Positive
      OBVIOUS
    <3>1. PICK s \in Shapes : file.shape = s /\ file.chunk = DataChunk(s)
      BY DEF Init, OwnFiles, OtherFiles
    <3>2. s \in Positive \X Positive \X Positive
      BY FilesGiven
    <3>3. QED
      BY <3>1, <3>2, DataChunkFits
  <2>3. QED
    BY <2>1, <2>2 DEF Init, TypeOK, Positive
<1>2. TypeOK /\ [Next]_vars => TypeOK'
  <2> SUFFICES ASSUME TypeOK, [Next]_vars PROVE TypeOK'
    OBVIOUS
  <2>1. CASE ReadChunk
    <3>1. file' = file /\ again' \subseteq loaded'
      BY <2>1 DEF ReadChunk, TypeOK
    <3>2. m' \in 0..file.shape[1] /\ k' \in Nat
      BY <2>1 DEF ReadChunk, TypeOK, Positive
    <3>3. QED
      BY <3>1, <3>2 DEF TypeOK
  <2>2. CASE UNCHANGED vars
    BY <2>2 DEF TypeOK, vars
  <2>3. QED
    BY <2>1, <2>2 DEF Next
<1>3. QED
  BY <1>1, <1>2, PTL DEF Spec

\* A file Save writes never has more than MaxChunks (64) chunks of audio data:
\* libmysofa can read its index.
THEOREM NeverTooManyChunks == Spec => []FewChunks
<1>1. Init => FewChunks
  <2> SUFFICES ASSUME Init, file.own
               PROVE  CeilDiv(file.shape[1], file.chunk[1])
                        * CeilDiv(file.shape[2], file.chunk[2]) <= MaxChunks
    BY DEF FewChunks
  <2>1. PICK s \in Shapes : file.shape = s /\ file.chunk = DataChunk(s)
    BY DEF Init, OwnFiles, OtherFiles
  <2>2. s \in Positive \X Positive \X Positive
    BY FilesGiven
  <2>3. QED
    BY <2>1, <2>2, DataChunkFits
<1>2. FewChunks /\ [Next]_vars => FewChunks'
  BY DEF FewChunks, Next, ReadChunk, vars
<1>3. QED
  BY <1>1, <1>2, PTL DEF Spec
-----------------------------------------------------------------------------
(* dataChunk and its comment.                                              *)

\* n pieces of length b fit into a just when n is at most the quotient.
LEMMA QuotientLargest ==
  ASSUME NEW a \in Nat, NEW b \in Positive, NEW n \in Nat
  PROVE  b * n <= a <=> n <= a \div b
<1> DEFINE q == a \div b
<1>1. q \in Nat /\ b * q <= a /\ a < b * q + b
  BY Quotient
<1> HIDE DEF q
<1>2. b * q \in Nat /\ b * n \in Nat
  BY <1>1 DEF Positive
<1>3. CASE n <= q
  <2>1. b * n <= b * q
    BY <1>1, <1>3, ProductGrows DEF Positive
  <2>2. QED
    BY <1>1, <1>2, <1>3, <2>1 DEF q
<1>4. CASE q + 1 <= n
  <2>1. b * (q + 1) <= b * n /\ b * (q + 1) = b * q + b
    BY <1>1, <1>4, ProductGrows DEF Positive
  <2>2. QED
    BY <1>1, <1>2, <1>4, <2>1 DEF q, Positive
<1>5. QED
  BY <1>1, <1>3, <1>4

\* One chunk of receivers is one chunk.
LEMMA CeilDivOne ==
  ASSUME NEW b \in Positive
  PROVE  CeilDiv(b, b) = 1
<1>1. b \in Nat /\ 1 \in Nat /\ b <= b * 1
  BY DEF Positive
<1>2. CeilDiv(b, b) <= 1
  BY <1>1, CeilDivLeast
<1>3. QED
  BY <1>2, CeilDivPositive DEF Positive

\* The quotient, kept between 1 and the number of measurements, is the most
\* of them that fit: what a search would find.
LEMMA MeasurementsFittingMost ==
  ASSUME NEW s \in Positive \X Positive \X Positive,
         NEW fitting,
         fitting = {1} \cup {n \in 1..s[1] : n * FloatSize * s[3] <= MaxChunkBytes}
  PROVE  MeasurementsFitting(s) = CHOOSE n \in fitting : \A o \in fitting : o <= n
<1> DEFINE row == FloatSize * s[3]
           q == MaxChunkBytes \div row
           most == MeasurementsFitting(s)
<1>1. s[1] \in Positive /\ s[3] \in Positive /\ FloatSize \in Positive
  BY LimitsGiven
<1>2. row \in Positive /\ \A n \in Nat : n * FloatSize * s[3] = row * n
  BY <1>1 DEF Positive
<1>3. MaxChunkBytes \in Nat
  BY LimitsGiven DEF Positive
<1> HIDE DEF row
<1>4. q \in Nat
  BY <1>2, <1>3, Quotient
<1>5. \A n \in 1..s[1] : n * FloatSize * s[3] <= MaxChunkBytes <=> n <= q
  <2>1. TAKE n \in 1..s[1]
  <2>2. n \in Nat /\ n * FloatSize * s[3] = row * n
    BY <1>1, <1>2 DEF Positive
  <2>3. row * n <= MaxChunkBytes <=> n <= q
    BY <1>2, <1>3, <2>2, QuotientLargest
  <2>4. QED
    BY <2>2, <2>3
<1> HIDE DEF q
<1>6. fitting = {1} \cup {n \in 1..s[1] : n <= q}
  BY <1>5
<1>7. most = Larger(1, Smaller(s[1], q))
  BY DEF MeasurementsFitting, q, row
<1> HIDE DEF most
<1>8. most \in fitting /\ \A o \in fitting : o <= most
  <2>1. s[1] \in Nat /\ 1 <= s[1]
    BY <1>1 DEF Positive
  <2>2. CASE q = 0
    BY <1>6, <1>7, <2>1, <2>2 DEF Larger, Smaller
  <2>3. CASE q # 0
    <3>1. most = Smaller(s[1], q) /\ most \in 1..s[1] /\ most <= q
      BY <1>4, <1>7, <2>1, <2>3 DEF Larger, Smaller
    <3>2. \A o \in 1..s[1] : o <= q => o <= most
      BY <1>4, <2>1, <3>1 DEF Smaller
    <3>3. QED
      BY <1>6, <2>1, <3>1, <3>2
  <2>4. QED
    BY <2>2, <2>3
<1>9. \A n \in fitting : (\A o \in fitting : o <= n) => n = most
  BY <1>1, <1>6, <1>8 DEF Positive
<1>10. most = CHOOSE n \in fitting : \A o \in fitting : o <= n
  BY <1>8, <1>9
<1>11. QED
  BY <1>10 DEF most

\* Where the blocks of measurements are few enough, no smaller number of
\* receivers in a chunk would do.
LEMMA ReceiversLeast ==
  ASSUME NEW r \in Positive, NEW blocks \in Positive, blocks <= MaxChunks,
         NEW rc \in Positive, rc < Receivers(r, MaxChunks \div blocks)
  PROVE  ~(blocks * CeilDiv(r, rc) <= MaxChunks)
<1> DEFINE each == MaxChunks \div blocks
           d == CeilDiv(r, rc)
<1>1. SUFFICES ASSUME blocks * d <= MaxChunks PROVE FALSE
  OBVIOUS
<1>2. d \in Nat /\ r <= rc * d
  BY CeilDivCovers DEF Positive
<1>3. MaxChunks \in Nat /\ MaxChunks \in Positive
  BY LimitsGiven DEF Positive
<1> HIDE DEF d
<1>4. d <= each /\ each \in Nat
  BY <1>1, <1>2, <1>3, QuotientLargest, Quotient
<1>5. each \in Positive
  <2>1. blocks * 1 <= MaxChunks
    BY <1>3 DEF Positive
  <2>2. QED
    BY <2>1, <1>3, <1>4, QuotientLargest DEF Positive
<1>6. Receivers(r, each) = CeilDiv(r, each)
  BY DEF Receivers
<1> HIDE DEF each
<1>7. rc * d <= rc * each /\ rc * each = each * rc /\ rc * d \in Nat /\ each * rc \in Nat
  BY <1>2, <1>4, ProductGrows DEF Positive
<1>8. r <= each * rc
  BY <1>2, <1>7 DEF Positive
<1>9. CeilDiv(r, each) <= rc /\ CeilDiv(r, each) \in Nat
  BY <1>5, <1>8, CeilDivLeast, CeilDivCovers DEF Positive
<1>10. rc < CeilDiv(r, each)
  BY <1>6 DEF each
<1>11. QED
  BY <1>9, <1>10 DEF Positive

LEMMA DataChunkAsDocumented ==
  ASSUME NEW s \in Positive \X Positive \X Positive
  PROVE  LET fitting == {1} \cup {n \in 1..s[1] : n * FloatSize * s[3] <= MaxChunkBytes}
             most == CHOOSE n \in fitting : \A o \in fitting : o <= n
             few(mc, rc) == CeilDiv(s[1], mc) * CeilDiv(s[2], rc) <= MaxChunks
             chunk == DataChunk(s)
         IN  IF few(most, s[2])
             THEN /\ chunk[1] = most /\ few(most, chunk[2])
                  /\ \A rc \in 1..chunk[2] - 1 : ~few(most, rc)
             ELSE /\ chunk[2] = s[2] /\ few(chunk[1], s[2])
                  /\ \A mc \in 1..chunk[1] - 1 : ~few(mc, s[2])
<1> DEFINE fitting == {1} \cup {n \in 1..s[1] : n * FloatSize * s[3] <= MaxChunkBytes}
           most == CHOOSE n \in fitting : \A o \in fitting : o <= n
           blocks == Blocks(s[1], most)
           few(mc, rc) == CeilDiv(s[1], mc) * CeilDiv(s[2], rc) <= MaxChunks
<1>1. most = MeasurementsFitting(s) /\ most \in Positive
  <2>1. MeasurementsFitting(s) = CHOOSE n \in fitting : \A o \in fitting : o <= n
    BY MeasurementsFittingMost
  <2>2. QED
    BY <2>1, MeasurementsFittingPositive
<1> SUFFICES IF few(most, s[2])
             THEN /\ DataChunk(s)[1] = most /\ few(most, DataChunk(s)[2])
                  /\ \A rc \in 1..DataChunk(s)[2] - 1 : ~few(most, rc)
             ELSE /\ DataChunk(s)[2] = s[2] /\ few(DataChunk(s)[1], s[2])
                  /\ \A mc \in 1..DataChunk(s)[1] - 1 : ~few(mc, s[2])
  OBVIOUS
<1> HIDE DEF most, fitting
<1>2. s[1] \in Positive /\ s[2] \in Positive /\ MaxChunks \in Positive
  BY LimitsGiven
<1>3. blocks = CeilDiv(s[1], most) /\ blocks \in Positive
  BY <1>1, <1>2, CeilDivPositive DEF Blocks
<1>4. \A mc \in Positive : few(mc, s[2]) <=> CeilDiv(s[1], mc) <= MaxChunks
  <2>1. TAKE mc \in Positive
  <2>2. CeilDiv(s[1], mc) \in Positive /\ CeilDiv(s[2], s[2]) = 1
    BY <1>2, CeilDivOne, CeilDivPositive
  <2>3. CeilDiv(s[1], mc) * 1 = CeilDiv(s[1], mc)
    BY <2>2 DEF Positive
  <2>4. QED
    BY <2>2, <2>3
<1>5. few(most, s[2]) <=> blocks <= MaxChunks
  BY <1>1, <1>3, <1>4
<1>6. few(DataChunk(s)[1], DataChunk(s)[2])
  BY DataChunkFits
<1>7. DataChunk(s) = IF blocks <= MaxChunks
                     THEN <<most, Receivers(s[2], MaxChunks \div blocks), s[3]>>
                     ELSE <<CeilDiv(s[1], MaxChunks), s[2], s[3]>>
  BY <1>1 DEF DataChunk
<1>8. CASE blocks <= MaxChunks
  <2>1. DataChunk(s)[1] = most /\ DataChunk(s)[2] = Receivers(s[2], MaxChunks \div blocks)
    BY <1>7, <1>8
  <2>2. ASSUME NEW rc \in 1..DataChunk(s)[2] - 1
        PROVE  ~few(most, rc)
    <3>1. DataChunk(s)[2] \in Positive
      BY DataChunkFits
    <3>2. rc \in Positive /\ rc < Receivers(s[2], MaxChunks \div blocks)
      BY <2>1, <3>1 DEF Positive
    <3>3. ~(blocks * CeilDiv(s[2], rc) <= MaxChunks)
      BY <1>2, <1>3, <1>8, <3>2, ReceiversLeast
    <3>4. QED
      BY <1>3, <3>3
  <2>3. QED
    BY <1>5, <1>6, <1>8, <2>1, <2>2
<1>9. CASE ~(blocks <= MaxChunks)
  <2>1. DataChunk(s)[1] = CeilDiv(s[1], MaxChunks) /\ DataChunk(s)[2] = s[2]
    BY <1>7, <1>9
  <2>2. ASSUME NEW mc \in 1..DataChunk(s)[1] - 1, few(mc, s[2])
        PROVE  FALSE
    <3>1. DataChunk(s)[1] \in Positive
      BY DataChunkFits
    <3>2. mc \in Positive /\ mc < CeilDiv(s[1], MaxChunks)
      BY <2>1, <3>1 DEF Positive
    <3>3. CeilDiv(s[1], mc) <= MaxChunks
      BY <1>4, <2>2, <3>2
    <3> DEFINE d == CeilDiv(s[1], mc)
    <3>4. d \in Nat /\ s[1] <= mc * d
      BY <1>2, <3>2, CeilDivCovers DEF Positive
    <3> HIDE DEF d
    <3>5. mc * d <= mc * MaxChunks /\ mc * MaxChunks = MaxChunks * mc /\ mc * d \in Nat
      BY <1>2, <3>2, <3>3, <3>4, ProductGrows DEF Positive, d
    <3>6. s[1] <= MaxChunks * mc
      BY <1>2, <3>2, <3>4, <3>5 DEF Positive
    <3>7. CeilDiv(s[1], MaxChunks) <= mc /\ CeilDiv(s[1], MaxChunks) \in Nat
      BY <1>2, <3>2, <3>6, CeilDivLeast, CeilDivCovers DEF Positive
    <3>8. QED
      BY <3>2, <3>7 DEF Positive
  <2>3. QED
    BY <1>5, <1>6, <1>9, <2>1, <2>2
<1>10. QED
  BY <1>8, <1>9

\* The chunks of a file Save writes are those dataChunk's comment describes,
\* for every shape and all limits.
THEOREM ChunksAsDocumented == Spec => []AsDocumented
<1>1. Init => AsDocumented
  <2> SUFFICES ASSUME Init, file.own PROVE AsDocumented
    BY DEF AsDocumented
  <2>1. PICK s \in Shapes : file.shape = s /\ file.chunk = DataChunk(s)
    BY DEF Init, OwnFiles, OtherFiles
  <2>2. s \in Positive \X Positive \X Positive
    BY FilesGiven
  <2>3. file.chunk = DataChunk(file.shape) /\ file.shape \in Positive \X Positive \X Positive
    BY <2>1, <2>2
  <2>4. QED
    BY <2>3, DataChunkAsDocumented DEF AsDocumented
<1>2. AsDocumented /\ [Next]_vars => AsDocumented'
  BY DEF AsDocumented, Next, ReadChunk, vars
<1>3. QED
  BY <1>1, <1>2, PTL DEF Spec
-----------------------------------------------------------------------------
(* chunkCacheSize, for any shape, chunk and size of a value.               *)

LEMMA SpannedExact ==
  ASSUME NEW size \in Positive, NEW c \in Positive
  PROVE  Spanned(size, c) = CeilDiv(size, c)
<1> DEFINE q == size \div c
           n == Spanned(size, c)
<1>1. q \in Nat /\ c * q <= size /\ size < c * q + c
  BY Quotient DEF Positive
<1>2. size % c \in Nat /\ size = c * q + (size % c)
  BY DEF Positive
<1>3. n \in Nat /\ size <= c * n
  <2>1. CASE size % c = 0
    BY <1>1, <1>2, <2>1 DEF Spanned, Smaller, Positive
  <2>2. CASE size % c # 0
    <3>1. n = q + 1
      BY <1>2, <2>2 DEF Spanned, Smaller
    <3>2. c * (q + 1) = c * q + c
      BY <1>1 DEF Positive
    <3>3. QED
      BY <1>1, <3>1, <3>2 DEF Positive
  <2>3. QED
    BY <2>1, <2>2
<1>4. CeilDiv(size, c) <= n
  BY <1>3, CeilDivLeast DEF Positive
<1>5. n <= CeilDiv(size, c)
  <2> DEFINE d == CeilDiv(size, c)
  <2>1. d \in Nat /\ size <= c * d
    BY CeilDivCovers DEF Positive
  <2> HIDE DEF d
  <2>2. SUFFICES ASSUME d + 1 <= n PROVE FALSE
    BY <1>3, <2>1 DEF d
  <2>3. d <= q
    BY <1>1, <1>2, <2>1, <2>2 DEF Spanned, Smaller
  <2>4. c * d <= c * q /\ c * d \in Nat /\ c * q \in Nat
    BY <1>1, <2>1, <2>3, ProductGrows DEF Positive
  <2>5. size = c * q /\ d = q
    BY <1>1, <1>2, <2>1, <2>3, <2>4, ProductGrows DEF Positive
  <2>6. n = q
    BY <1>1, <1>2, <2>4, <2>5 DEF Spanned, Smaller
  <2>7. QED
    BY <2>2, <2>5, <2>6, <1>1
<1>6. QED
  <2>1. CeilDiv(size, c) \in Nat
    BY CeilDivCovers DEF Positive
  <2>2. QED
    BY <1>3, <1>4, <1>5, <2>1

\* A product of saturated factors saturates where the exact one does.
LEMMA SaturateLater ==
  ASSUME NEW x \in Nat, NEW c \in Positive
  PROVE  SaturatingMul(Smaller(x, MaxUint), c) = Smaller(x * c, MaxUint)
<1>1. CASE x <= MaxUint
  BY <1>1, LimitsGiven DEF SaturatingMul, Smaller
<1>2. CASE ~(x <= MaxUint)
  <2>1. MaxUint <= MaxUint * c /\ x <= x * c
    <3>1. MaxUint * 1 <= MaxUint * c /\ x * 1 <= x * c
      BY ProductGrows, LimitsGiven DEF Positive
    <3>2. QED
      BY <3>1, LimitsGiven
  <2>2. MaxUint * c \in Nat /\ x * c \in Nat
    BY LimitsGiven DEF Positive
  <2>3. QED
    BY <1>2, <2>1, <2>2, LimitsGiven DEF SaturatingMul, Smaller
<1>3. QED
  BY <1>1, <1>2

LEMMA BoundLater ==
  ASSUME NEW x \in Positive, NEW y \in Positive
  PROVE  Smaller(SaturatingMul(Smaller(x, MaxCacheBytes), Smaller(y, MaxUint)),
                 MaxCacheBytes)
           = Smaller(x * y, MaxCacheBytes)
<1> DEFINE p == Smaller(x, MaxCacheBytes)
           b == Smaller(y, MaxUint)
<1>1. p \in Positive /\ b \in Positive
  BY LimitsGiven DEF Smaller, Positive
<1>2. p * b \in Nat /\ x * y \in Nat
  BY <1>1 DEF Positive
<1>3. CASE x <= MaxCacheBytes /\ y <= MaxUint
  BY <1>2, <1>3, LimitsGiven DEF SaturatingMul, Smaller, Positive
<1>4. CASE ~(x <= MaxCacheBytes)
  <2>1. p = MaxCacheBytes
    BY <1>4, LimitsGiven DEF Smaller, Positive
  <2>2. p * 1 <= p * b /\ x * 1 <= x * y
    BY <1>1, ProductGrows DEF Positive
  <2> HIDE DEF b
  <2>3. MaxCacheBytes <= p * b /\ MaxCacheBytes <= x * y
    BY <1>1, <1>2, <1>4, <2>1, <2>2, LimitsGiven DEF Positive
  <2> HIDE DEF p
  <2>4. QED
    BY <1>2, <2>3, LimitsGiven DEF SaturatingMul, Smaller, Positive, p, b
<1>5. CASE ~(y <= MaxUint)
  <2>1. b = MaxUint
    BY <1>5, LimitsGiven DEF Smaller, Positive
  <2>2. b * 1 <= b * p /\ y * 1 <= y * x
    BY <1>1, ProductGrows DEF Positive
  <2>3. b * p = p * b /\ y * x = x * y
    BY <1>1 DEF Positive
  <2> HIDE DEF p
  <2>4. MaxCacheBytes <= p * b /\ MaxCacheBytes <= x * y
    BY <1>1, <1>2, <1>5, <2>1, <2>2, <2>3, LimitsGiven DEF Positive
  <2> HIDE DEF b
  <2>5. QED
    BY <1>2, <2>4, LimitsGiven DEF SaturatingMul, Smaller, Positive, p, b
<1>6. QED
  BY <1>3, <1>4, <1>5

LEMMA CacheSizeExact ==
  ASSUME NEW s \in Positive \X Positive \X Positive,
         NEW c \in Positive \X Positive \X Positive,
         NEW elem \in Positive, c[1] # 1
  PROVE  LET span == CeilDiv(s[2], c[2]) * CeilDiv(s[3], c[3])
             bytes == elem * c[1] * c[2] * c[3]
         IN  ChunkCacheSize(s, c, elem) =
               [chunks |-> Larger(DefaultChunks, Smaller(span, MaxCacheBytes)),
                bytes |-> Larger(DefaultBytes, Smaller(span * bytes, MaxCacheBytes))]
<1> DEFINE span == CeilDiv(s[2], c[2]) * CeilDiv(s[3], c[3])
           bytes == elem * c[1] * c[2] * c[3]
           perRead == Smaller(SaturatingMul(Spanned(s[2], c[2]), Spanned(s[3], c[3])),
                              MaxCacheBytes)
           product == SaturatingMul(SaturatingMul(SaturatingMul(elem, c[1]), c[2]), c[3])
           total == Smaller(SaturatingMul(perRead, product), MaxCacheBytes)
<1>1. s[2] \in Positive /\ s[3] \in Positive
  OBVIOUS
<1>2. c[1] \in Positive /\ c[2] \in Positive /\ c[3] \in Positive
  OBVIOUS
<1>3. span \in Positive
  <2>1. CeilDiv(s[2], c[2]) \in Positive /\ CeilDiv(s[3], c[3]) \in Positive
    BY <1>1, <1>2, CeilDivPositive
  <2>2. QED
    BY <2>1 DEF Positive
<1>4. elem * c[1] \in Positive /\ elem * c[1] * c[2] \in Positive /\ bytes \in Positive
  <2>1. elem * c[1] \in Positive
    BY <1>2 DEF Positive
  <2>2. elem * c[1] * c[2] \in Positive
    BY <1>2, <2>1 DEF Positive
  <2>3. QED
    BY <1>2, <2>2 DEF Positive
<1>5. perRead = Smaller(span, MaxCacheBytes)
  <2>1. SaturatingMul(Spanned(s[2], c[2]), Spanned(s[3], c[3])) = Smaller(span, MaxUint)
    BY <1>1, <1>2, SpannedExact DEF SaturatingMul
  <2> HIDE DEF span
  <2>2. QED
    BY <1>3, <2>1, LimitsGiven DEF Smaller, Positive
<1>6. product = Smaller(bytes, MaxUint)
  <2>1. SaturatingMul(elem, c[1]) = Smaller(elem * c[1], MaxUint)
    BY DEF SaturatingMul
  <2>2. SaturatingMul(Smaller(elem * c[1], MaxUint), c[2]) = Smaller(elem * c[1] * c[2], MaxUint)
    BY <1>2, <1>4, SaturateLater DEF Positive
  <2>3. SaturatingMul(Smaller(elem * c[1] * c[2], MaxUint), c[3]) = Smaller(bytes, MaxUint)
    BY <1>2, <1>4, SaturateLater DEF Positive
  <2>4. QED
    BY <2>1, <2>2, <2>3
<1>7. total = Smaller(span * bytes, MaxCacheBytes)
  <2> HIDE DEF span, bytes, perRead, product
  <2>1. QED
    BY <1>3, <1>4, <1>5, <1>6, BoundLater
<1>8. WellFormed(c)
  BY <1>2 DEF WellFormed, Positive
<1>9. ChunkCacheSize(s, c, elem) = [chunks |-> Larger(DefaultChunks, perRead),
                                    bytes |-> Larger(DefaultBytes, total)]
  BY <1>8 DEF ChunkCacheSize
<1>10. QED
  BY <1>5, <1>7, <1>9

\* Whatever chunks a file declares, the cache's limits are those of exact
\* arithmetic: saturating and bounding on the way loses nothing.
THEOREM CacheLimitsExact == Spec => []CacheAsExact
<1>1. Init => CacheAsExact
  <2> SUFFICES ASSUME Init, WellFormed(file.chunk), file.chunk[1] # 1
               PROVE  CacheAsExact
    BY DEF CacheAsExact
  <2>1. file.shape \in Positive \X Positive \X Positive /\ file.elem \in Positive
    BY FilesGiven, LimitsGiven DEF Init, OwnFiles, OtherFiles
  <2>2. file.chunk \in Positive \X Positive \X Positive
    <3>1. CASE file \in OwnFiles
      <4>1. PICK s \in Shapes : file.chunk = DataChunk(s)
        BY <3>1 DEF OwnFiles
      <4>2. s \in Positive \X Positive \X Positive
        BY FilesGiven
      <4>3. QED
        BY <4>1, <4>2, DataChunkFits
    <3>2. CASE file \in OtherFiles
      <4>1. file.chunk \in Nat \X Nat \X Nat
        BY <3>2, FilesGiven DEF OtherFiles
      <4>2. QED
        BY <4>1 DEF WellFormed, Positive
    <3>3. QED
      BY <3>1, <3>2 DEF Init
  <2>3. QED
    BY <2>1, <2>2, CacheSizeExact DEF CacheAsExact, Span, Bytes
<1>2. CacheAsExact /\ [Next]_vars => CacheAsExact'
  BY DEF CacheAsExact, Span, Bytes, Next, ReadChunk, vars
<1>3. QED
  BY <1>1, <1>2, PTL DEF Spec
-----------------------------------------------------------------------------
(* Reading through the cache: each chunk is decompressed once.             *)

LEMMA DivisionUnique ==
  ASSUME NEW a \in Nat, NEW b \in Positive, NEW q \in Nat, NEW r \in Nat,
         a = b * q + r, r < b
  PROVE  a \div b = q /\ a % b = r
<1> DEFINE d == a \div b
<1>1. d \in Nat /\ b * d <= a /\ a < b * d + b
  BY Quotient
<1>2. a % b \in Nat /\ a = b * d + (a % b)
  BY DEF Positive
<1> HIDE DEF d
<1>3. ~(d + 1 <= q)
  <2>1. SUFFICES ASSUME d + 1 <= q PROVE FALSE
    OBVIOUS
  <2>2. b * (d + 1) <= b * q /\ b * (d + 1) = b * d + b
    BY <1>1, <2>1, ProductGrows DEF Positive
  <2>3. b * d \in Nat /\ b * q \in Nat
    BY <1>1 DEF Positive
  <2>4. QED
    BY <1>1, <2>2, <2>3 DEF Positive
<1>4. ~(q + 1 <= d)
  <2>1. SUFFICES ASSUME q + 1 <= d PROVE FALSE
    OBVIOUS
  <2>2. b * (q + 1) <= b * d /\ b * (q + 1) = b * q + b
    BY <1>1, <2>1, ProductGrows DEF Positive
  <2>3. b * d \in Nat /\ b * q \in Nat
    BY <1>1 DEF Positive
  <2>4. QED
    BY <1>1, <2>2, <2>3 DEF Positive
<1>5. d = q
  BY <1>1, <1>3, <1>4
<1>6. QED
  BY <1>2, <1>5 DEF d, Positive

\* The next measurement is in the same block, and not its first, or it is the
\* first of the next block.
LEMMA NextMeasurement ==
  ASSUME NEW a \in Nat, NEW b \in Positive
  PROVE  \/ (a + 1) \div b = a \div b /\ (a + 1) % b # 0
         \/ (a + 1) \div b = a \div b + 1 /\ (a + 1) % b = 0
<1> DEFINE q == a \div b
           r == a % b
<1>1. q \in Nat /\ r \in Nat /\ r < b /\ a = b * q + r
  BY Quotient DEF Positive
<1> HIDE DEF q, r
<1>2. CASE r + 1 < b
  <2>1. a + 1 \in Nat /\ r + 1 \in Nat /\ a + 1 = b * q + (r + 1)
    BY <1>1 DEF Positive
  <2>2. (a + 1) \div b = q /\ (a + 1) % b = r + 1
    BY <1>1, <1>2, <2>1, DivisionUnique
  <2>3. QED
    BY <1>1, <2>2 DEF q
<1>3. CASE r + 1 = b
  <2>1. a + 1 \in Nat /\ q + 1 \in Nat /\ a + 1 = b * (q + 1) + 0 /\ 0 < b
    BY <1>1, <1>3 DEF Positive
  <2>2. (a + 1) \div b = q + 1 /\ (a + 1) % b = 0
    BY <1>1, <2>1, DivisionUnique
  <2>3. QED
    BY <2>2 DEF q
<1>4. QED
  BY <1>1, <1>2, <1>3 DEF Positive

\* An entry put in front: the others go one back.
LEMMA Prepended ==
  ASSUME NEW T, NEW s \in Seq(T), NEW c \in T
  PROVE  /\ <<c>> \o s \in Seq(T) /\ Len(<<c>> \o s) = Len(s) + 1
         /\ (<<c>> \o s)[1] = c /\ \A i \in 1..Len(s) : (<<c>> \o s)[i + 1] = s[i]
<1> DEFINE one == <<c>>
<1>1. one \in Seq(T) /\ Len(one) = 1 /\ one[1] = c
  OBVIOUS
<1> SUFFICES /\ one \o s \in Seq(T) /\ Len(one \o s) = Len(s) + 1
             /\ (one \o s)[1] = c /\ \A i \in 1..Len(s) : (one \o s)[i + 1] = s[i]
  OBVIOUS
<1> HIDE DEF one
<1>3. /\ one \o s \in Seq(T) /\ Len(one \o s) = Len(one) + Len(s)
      /\ \A i \in 1..Len(one) + Len(s) :
           (one \o s)[i] = IF i <= Len(one) THEN one[i] ELSE s[i - Len(one)]
  BY <1>1, ConcatProperties, Zenon
<1>4. QED
  BY <1>1, <1>3

\* An entry moved to the front: those before it go one back, the others stay.
LEMMA MovedToFront ==
  ASSUME NEW T, NEW s \in Seq(T), NEW p \in 1..Len(s)
  PROVE  LET t == <<s[p]>> \o RemoveAt(s, p)
         IN  /\ t \in Seq(T) /\ Len(t) = Len(s) /\ t[1] = s[p]
             /\ \A i \in 1..Len(s) : (i < p => t[i + 1] = s[i]) /\ (p < i => t[i] = s[i])
<1> DEFINE t == <<s[p]>> \o RemoveAt(s, p)
<1> SUFFICES /\ t \in Seq(T) /\ Len(t) = Len(s) /\ t[1] = s[p]
             /\ \A i \in 1..Len(s) : (i < p => t[i + 1] = s[i]) /\ (p < i => t[i] = s[i])
  OBVIOUS
<1> DEFINE before == SubSeq(s, 1, p - 1)
           after == SubSeq(s, p + 1, Len(s))
<1>1. /\ before \in Seq(T) /\ Len(before) = p - 1
      /\ \A i \in 1..p - 1 : before[i] = s[i]
  OBVIOUS
<1>2. /\ after \in Seq(T) /\ Len(after) = Len(s) - p
      /\ \A i \in 1..Len(s) - p : after[i] = s[p + i]
  <2>1. \A i \in p + 1..Len(s) : s[i] \in T
    OBVIOUS
  <2>2. QED
    BY <2>1
<1> HIDE DEF before, after
<1> DEFINE rest == before \o after
<1>3. /\ rest \in Seq(T) /\ Len(rest) = Len(s) - 1
      /\ \A i \in 1..p - 1 : rest[i] = s[i]
      /\ \A i \in p..Len(s) - 1 : rest[i] = s[i + 1]
  <2>1. rest \in Seq(T) /\ Len(rest) = Len(s) - 1
    <3>1. before \in Seq(T) /\ after \in Seq(T)
      BY <1>1, <1>2
    <3>2. rest \in Seq(T) /\ Len(rest) = Len(before) + Len(after)
      BY <3>1, ConcatProperties
    <3>3. QED
      BY <1>1, <1>2, <3>2
  <2>2. \A i \in 1..p - 1 : rest[i] = s[i]
    BY <1>1, <1>2
  <2>3. ASSUME NEW i \in p..Len(s) - 1
        PROVE  rest[i] = s[i + 1]
    <3>1. i - (p - 1) \in 1..Len(s) - p /\ p + (i - (p - 1)) = i + 1
      OBVIOUS
    <3>2. rest[i] = after[i - (p - 1)]
      BY <1>1, <1>2, <2>1
    <3>3. QED
      BY <1>2, <3>1, <3>2
  <2>4. QED
    BY <2>1, <2>2, <2>3
<1>4. t = <<s[p]>> \o rest
  BY DEF RemoveAt, rest, before, after
<1> HIDE DEF rest, t
<1>5. /\ t \in Seq(T) /\ Len(t) = Len(s) /\ t[1] = s[p]
      /\ \A i \in 1..Len(s) - 1 : t[i + 1] = rest[i]
  <2> DEFINE c == s[p]
  <2>1. c \in T /\ rest \in Seq(T) /\ t = <<c>> \o rest
    BY <1>3, <1>4
  <2> HIDE DEF c
  <2>2. /\ <<c>> \o rest \in Seq(T) /\ Len(<<c>> \o rest) = Len(rest) + 1
        /\ (<<c>> \o rest)[1] = c /\ \A i \in 1..Len(rest) : (<<c>> \o rest)[i + 1] = rest[i]
    BY <2>1, Prepended
  <2>3. /\ t \in Seq(T) /\ Len(t) = Len(rest) + 1 /\ t[1] = c
        /\ \A i \in 1..Len(rest) : t[i + 1] = rest[i]
    BY <2>1, <2>2, Zenon
  <2>4. QED
    BY <1>3, <2>3 DEF c
<1>6. ASSUME NEW i \in 1..Len(s)
      PROVE  (i < p => t[i + 1] = s[i]) /\ (p < i => t[i] = s[i])
  <2>1. CASE i < p
    BY <1>3, <1>5, <2>1
  <2>2. CASE p < i
    <3>1. i - 1 \in p..Len(s) - 1 /\ i - 1 \in 1..Len(s) - 1 /\ (i - 1) + 1 = i
      BY <2>2
    <3>2. rest[i - 1] = s[i] /\ t[(i - 1) + 1] = rest[i - 1]
      BY <1>3, <1>5, <3>1
    <3>3. QED
      BY <2>2, <3>1, <3>2
  <2>3. QED
    BY <2>1, <2>2
<1>7. QED
  BY <1>5, <1>6
LEMMA KeptSpan ==
  ASSUME FileOK, WellFormed(file.chunk)
  PROVE  Span \in Positive /\ Bytes \in Positive
<1>1. /\ file.shape \in Positive \X Positive \X Positive
      /\ file.chunk \in Positive \X Positive \X Positive
      /\ file.elem \in Positive
  BY DEF FileOK, WellFormed, Positive
<1>2. Span \in Positive
  <2>1. CeilDiv(file.shape[2], file.chunk[2]) \in Positive
    BY <1>1, CeilDivPositive
  <2>2. CeilDiv(file.shape[3], file.chunk[3]) \in Positive
    BY <1>1, CeilDivPositive
  <2>3. QED
    BY <2>1, <2>2 DEF Span, Positive
<1>3. Bytes \in Positive
  <2>1. file.elem * file.chunk[1] \in Positive
    BY <1>1 DEF Positive
  <2>2. file.elem * file.chunk[1] * file.chunk[2] \in Positive
    BY <1>1, <2>1 DEF Positive
  <2>3. QED
    BY <1>1, <2>2 DEF Bytes, Positive
<1>4. QED
  BY <1>2, <1>3

\* What the cache keeps is the part used last, and at least the chunks of one
\* measurement where they fit in the bound.
LEMMA KeptFirst ==
  ASSUME FileOK, WellFormed(file.chunk), Span * Bytes <= MaxCacheBytes,
         NEW T, NEW s \in Seq(T)
  PROVE  /\ Kept(s) \in Seq(T) /\ Len(Kept(s)) <= Len(s)
         /\ \A i \in 1..Len(Kept(s)) : Kept(s)[i] = s[i]
         /\ file.chunk[1] # 1 => Len(Kept(s)) >= Smaller(Span, Len(s))
<1> DEFINE limits == ChunkCacheSize(file.shape, file.chunk, file.elem)
           most == Smaller(limits.chunks, limits.bytes \div Bytes)
<1>1. /\ file.shape \in Positive \X Positive \X Positive
      /\ file.chunk \in Positive \X Positive \X Positive
      /\ file.elem \in Positive
  BY DEF FileOK, WellFormed, Positive
<1>2. Span \in Positive
  BY KeptSpan
<1>3. Bytes \in Positive
  BY KeptSpan
<1>4. Span <= Span * Bytes /\ Span * Bytes \in Nat /\ Span * Bytes = Bytes * Span
  <2>1. Span * 1 <= Span * Bytes
    BY <1>2, <1>3, ProductGrows DEF Positive
  <2>2. QED
    BY <1>2, <1>3, <2>1 DEF Positive
<1>5. CASE file.chunk[1] = 1
  <2>1. limits = [chunks |-> DefaultChunks, bytes |-> DefaultBytes]
    BY <1>5 DEF ChunkCacheSize
  <2>2. most \in Nat
    <3>1. DefaultBytes \div Bytes \in Nat
      BY <1>3, Quotient, LimitsGiven DEF Positive
    <3>2. QED
      BY <2>1, <3>1, LimitsGiven DEF Smaller, Positive
  <2> HIDE DEF most
  <2>3. Kept(s) = SubSeq(s, 1, Smaller(most, Len(s)))
    BY DEF Kept, most
  <2>4. QED
    BY <1>5, <2>2, <2>3 DEF Smaller
<1>6. CASE file.chunk[1] # 1
  <2>1. limits = [chunks |-> Larger(DefaultChunks, Smaller(Span, MaxCacheBytes)),
                  bytes |-> Larger(DefaultBytes, Smaller(Span * Bytes, MaxCacheBytes))]
    BY <1>1, <1>6, CacheSizeExact DEF Span, Bytes
  <2> DEFINE bytes == Larger(DefaultBytes, Span * Bytes)
  <2>2. limits.chunks = Larger(DefaultChunks, Span) /\ limits.bytes = bytes
    BY <1>2, <1>4, <2>1, LimitsGiven DEF Smaller, Positive
  <2>3. bytes \in Nat /\ Bytes * Span <= bytes
    BY <1>4, LimitsGiven DEF Larger, Positive
  <2> HIDE DEF bytes
  <2>4. bytes \div Bytes \in Nat /\ Span <= bytes \div Bytes
    BY <1>2, <1>3, <2>3, Quotient, QuotientLargest DEF Positive
  <2>5. most \in Nat /\ Span <= most
    BY <1>2, <2>2, <2>4, LimitsGiven DEF Larger, Smaller, Positive
  <2> HIDE DEF most
  <2>6. Kept(s) = SubSeq(s, 1, Smaller(most, Len(s)))
    BY DEF Kept, most
  <2>7. QED
    BY <1>2, <2>5, <2>6 DEF Smaller, Positive
<1>7. QED
  BY <1>5, <1>6
LEMMA FileStays == Spec => []FileOK
<1>1. Init => FileOK
  <2> SUFFICES ASSUME Init PROVE FileOK
    OBVIOUS
  <2>1. CASE file \in OwnFiles
    <3>1. PICK s \in Shapes : file.shape = s /\ file.chunk = DataChunk(s) /\ file.elem = FloatSize
      BY <2>1 DEF OwnFiles
    <3>2. s \in Positive \X Positive \X Positive
      BY FilesGiven
    <3>3. DataChunk(s) \in Positive \X Positive \X Positive
      BY <3>2, DataChunkFits
    <3>4. DataChunk(s) \in Nat \X Nat \X Nat
      BY <3>3 DEF Positive
    <3>5. QED
      BY <3>1, <3>2, <3>3, <3>4, LimitsGiven DEF FileOK
  <2>2. CASE file \in OtherFiles
    BY <2>2, FilesGiven DEF OtherFiles, FileOK
  <2>3. QED
    BY <2>1, <2>2 DEF Init
<1>2. FileOK /\ [Next]_vars => FileOK'
  BY DEF FileOK, Next, ReadChunk, vars
<1>3. QED
  BY <1>1, <1>2, PTL DEF Spec

\* A chunk that is not in the cache has never been read, because measurements
\* after the first of a block find all of theirs.
LEMMA Missed ==
  ASSUME FileOK, WellFormed(file.chunk), Span * Bytes <= MaxCacheBytes,
         CacheInv, ReadChunk, <<Block, k>> \notin Range(cache)
  PROVE  /\ m % file.chunk[1] = 0 /\ <<Block, k>> \notin loaded
         /\ again' = {}
         /\ Recent(cache', loaded', Block, k + 1)
<1> DEFINE b == Block
           c == <<b, k>>
           per == file.chunk[1]
<1>1. /\ m \in Nat /\ k \in Nat /\ k < Span
      /\ loaded \subseteq Nat \X Nat /\ cache \in Seq(loaded) /\ again = {}
      /\ \A i, j \in DOMAIN cache : cache[i] = cache[j] => i = j
      /\ \A x \in loaded : x[1] < b \/ (x[1] = b /\ x[2] < Visited)
      /\ per # 1 =>
           \A n \in 0..Visited - 1 : \E i \in DOMAIN cache : i <= Visited /\ cache[i] = <<b, n>>
  BY DEF CacheInv, Recent
<1>2. per \in Positive /\ b \in Nat
  <2>1. per \in Positive
    BY DEF FileOK, WellFormed, Positive
  <2>2. QED
    BY <1>1, <2>1, Quotient DEF Block
<1>3. c \notin Range(cache)
  OBVIOUS
<1>4. m % per = 0
  <2>1. SUFFICES ASSUME m % per # 0 PROVE FALSE
    OBVIOUS
  <2>2. per # 1 /\ Visited = Span
    BY <1>1, <2>1 DEF Visited
  <2>3. Span \in Int /\ k \in 0..Span - 1
    BY <1>1, KeptSpan DEF Positive
  <2>4. PICK i \in DOMAIN cache : cache[i] = <<b, k>>
    BY <1>1, <2>2, <2>3
  <2>5. QED
    BY <1>3, <2>4 DEF Range
<1>5. Visited = k
  BY <1>4 DEF Visited
<1>6. c \notin loaded
  <2>1. c[1] = b /\ c[2] = k
    OBVIOUS
  <2>2. QED
    BY <1>1, <1>2, <1>5, <2>1
<1>7. cache' = Kept(<<c>> \o cache) /\ loaded' = loaded \cup {c} /\ again' = {}
  <2>1. ~ \E i \in DOMAIN cache : cache[i] = c
    BY <1>3 DEF Range
  <2>2. QED
    BY <1>1, <1>6, <2>1 DEF ReadChunk, Block
<1>8. c \in Nat \X Nat /\ c \in loaded' /\ cache \in Seq(loaded')
  <2>1. c \in Nat \X Nat
    BY <1>1, <1>2
  <2>2. c \in loaded' /\ loaded \subseteq loaded'
    BY <1>7
  <2>3. QED
    BY <1>1, <2>1, <2>2, SeqMonotonic
<1> DEFINE t == <<c>> \o cache
<1> HIDE DEF c
<1>9. /\ t \in Seq(loaded') /\ Len(t) = Len(cache) + 1 /\ t[1] = c
      /\ \A i \in 1..Len(cache) : t[i + 1] = cache[i]
  BY <1>8, Prepended
<1> HIDE DEF t
<1>10. /\ cache' \in Seq(loaded') /\ Len(cache') <= Len(t)
       /\ \A i \in 1..Len(cache') : cache'[i] = t[i]
       /\ per # 1 => Len(cache') >= Smaller(Span, Len(t))
  BY <1>7, <1>9, KeptFirst DEF t
<1> DEFINE short == Len(cache)
           full == Len(t)
           kept == Len(cache')
<1>11. /\ DOMAIN cache = 1..short /\ DOMAIN cache' = 1..kept
      /\ short \in Nat /\ kept \in Nat /\ full = short + 1
  BY <1>1, <1>9, <1>10
<1> HIDE DEF short, full, kept
<1>12. \A i \in 1..kept : i \in 1..full /\ cache'[i] = t[i]
  BY <1>10, <1>11 DEF full, kept
<1>13. per # 1 => k + 1 <= kept \/ kept = full
  <2>1. Span \in Nat /\ k \in Nat /\ k + 1 <= Span
    BY <1>1, KeptSpan DEF Positive
  <2>2. kept <= full /\ (per # 1 => kept >= Smaller(Span, full))
    BY <1>10 DEF full, kept
  <2>3. full \in Nat /\ kept \in Nat
    BY <1>11
  <2>4. QED
    BY <2>1, <2>2, <2>3 DEF Smaller
<1>14. /\ \A i \in 1..short : i + 1 \in 1..full /\ t[i + 1] = cache[i]
      /\ t[1] = c /\ 1 \in 1..full
  <2>1. \A i \in 1..short : t[i + 1] = cache[i]
    BY <1>9 DEF short
  <2>2. t[1] = c
    BY <1>9
  <2>3. 1 \in 1..full /\ \A i \in 1..short : i + 1 \in 1..full
    BY <1>11
  <2>4. QED
    BY <2>1, <2>2, <2>3
<1>15. \A i, j \in 1..full : t[i] = t[j] => i = j
  <2>1. TAKE i, j \in 1..full
  <2>2. HAVE t[i] = t[j]
  <2>3. \A n \in 1..full : n # 1 => n - 1 \in 1..short /\ t[n] = cache[n - 1]
    <3>1. TAKE n \in 1..full
    <3>2. HAVE n # 1
    <3>3. n - 1 \in 1..short /\ (n - 1) + 1 = n
      BY <1>11, <3>2
    <3>4. QED
      BY <1>14, <3>3
  <2>4. \A n \in 1..short : cache[n] # c
    BY <1>3, <1>11 DEF Range, c
  <2>5. CASE i = 1 \/ j = 1
    BY <1>14, <2>2, <2>3, <2>4, <2>5
  <2>6. CASE i # 1 /\ j # 1
    <3>1. i - 1 \in DOMAIN cache /\ j - 1 \in DOMAIN cache /\ cache[i - 1] = cache[j - 1]
      BY <1>11, <2>2, <2>3, <2>6
    <3>2. i - 1 = j - 1
      BY <1>1, <3>1
    <3>3. QED
      BY <3>2
  <2>7. QED
    BY <2>5, <2>6
<1>16. \A i, j \in DOMAIN cache' : cache'[i] = cache'[j] => i = j
  BY <1>11, <1>12, <1>15
<1>17. \A x \in loaded' : x[1] < b \/ (x[1] = b /\ x[2] < k + 1)
  BY <1>1, <1>2, <1>5, <1>7, <1>8 DEF c
<1>18. ASSUME per # 1, NEW n \in 0..(k + 1) - 1
       PROVE  \E i \in DOMAIN cache' : i <= k + 1 /\ cache'[i] = <<b, n>>
  <2>1. CASE n = k
    <3>1. 1 \in 1..kept
      BY <1>1, <1>18, <1>11, <1>13
    <3>2. cache'[1] = <<b, n>>
      BY <1>12, <1>14, <2>1, <3>1 DEF c
    <3>3. 1 \in DOMAIN cache' /\ 1 <= k + 1
      BY <1>1, <1>11, <3>1
    <3>4. QED
      BY <3>2, <3>3
  <2>2. CASE n # k
    <3>1. n \in 0..Visited - 1
      BY <1>1, <1>5, <2>2
    <3>2. PICK i \in DOMAIN cache : i <= k /\ cache[i] = <<b, n>>
      BY <1>1, <1>5, <1>18, <3>1
    <3>3. k \in Nat /\ kept \in Nat /\ short \in Nat /\ full = short + 1 /\ i \in 1..short
      BY <1>1, <1>11
    <3>4. k + 1 <= kept \/ kept = full
      BY <1>18, <1>13
    <3>5. i + 1 \in 1..kept /\ i + 1 <= k + 1
      BY <3>2, <3>3, <3>4
    <3>6. cache'[i + 1] = <<b, n>>
      BY <1>12, <1>14, <3>2, <3>3, <3>5
    <3>7. i + 1 \in DOMAIN cache'
      BY <1>11, <3>5
    <3>8. QED
      BY <3>5, <3>6, <3>7
  <2>3. QED
    BY <2>1, <2>2
<1>19. loaded' \subseteq Nat \X Nat
  BY <1>1, <1>7, <1>8
<1>20. QED
  BY <1>4, <1>6, <1>7, <1>10, <1>16, <1>17, <1>18, <1>19 DEF Recent, c
\* One that is in the cache moves to its front, where the chunks of the block
\* stay among themselves.
LEMMA Hit ==
  ASSUME FileOK, WellFormed(file.chunk), Span * Bytes <= MaxCacheBytes,
         CacheInv, ReadChunk, <<Block, k>> \in Range(cache)
  PROVE  /\ m % file.chunk[1] # 0
         /\ again' = {}
         /\ Recent(cache', loaded', Block, Span)
<1> DEFINE b == Block
           c == <<b, k>>
           per == file.chunk[1]
<1>1. /\ m \in Nat /\ k \in Nat /\ k < Span
      /\ loaded \subseteq Nat \X Nat /\ cache \in Seq(loaded) /\ again = {}
      /\ \A i, j \in DOMAIN cache : cache[i] = cache[j] => i = j
      /\ \A x \in loaded : x[1] < b \/ (x[1] = b /\ x[2] < Visited)
      /\ per # 1 =>
           \A n \in 0..Visited - 1 : \E i \in DOMAIN cache : i <= Visited /\ cache[i] = <<b, n>>
  BY DEF CacheInv, Recent
<1>2. per \in Positive /\ b \in Nat
  <2>1. per \in Positive
    BY DEF FileOK, WellFormed, Positive
  <2>2. QED
    BY <1>1, <2>1, Quotient DEF Block
<1>3. PICK p \in DOMAIN cache :
        cache[p] = c /\ cache' = Kept(<<c>> \o RemoveAt(cache, p)) /\ UNCHANGED <<loaded, again>>
  <2>1. \E p \in DOMAIN cache : cache[p] = c
    BY DEF Range
  <2>2. QED
    BY <2>1 DEF ReadChunk, Block, Range
<1>4. DOMAIN cache = 1..Len(cache) /\ Len(cache) \in Nat
  BY <1>1
<1>5. c \in loaded
  <2>1. cache \in Seq(loaded) /\ p \in 1..Len(cache)
    BY <1>1, <1>3, <1>4
  <2>2. cache[p] \in loaded
    BY <2>1, ElementOfSeq
  <2>3. QED
    BY <1>3, <2>2
<1>6. k < Visited
  <2>1. c[1] < b \/ (c[1] = b /\ c[2] < Visited)
    BY <1>1, <1>5
  <2>2. c[1] = b /\ c[2] = k
    OBVIOUS
  <2>3. ~(b < b)
    BY <1>2
  <2>4. QED
    BY <2>1, <2>2, <2>3
<1>7. m % per # 0 /\ Visited = Span
  BY <1>1, <1>6 DEF Visited
<1>8. per # 1
  BY <1>1, <1>7
<1>9. Span \in Nat
  BY KeptSpan DEF Positive
<1>10. PICK q \in DOMAIN cache : q <= Span /\ cache[q] = c
  BY <1>1, <1>7, <1>8, <1>9
<1>11. q = p
  BY <1>1, <1>3, <1>10
<1> DEFINE t == <<cache[p]>> \o RemoveAt(cache, p)
           short == Len(cache)
           kept == Len(cache')
<1>12. /\ t \in Seq(loaded) /\ Len(t) = short /\ t[1] = c
       /\ \A i \in 1..short : (i < p => t[i + 1] = cache[i]) /\ (p < i => t[i] = cache[i])
  <2>1. p \in 1..Len(cache) /\ cache[p] = c
    BY <1>3, <1>4
  <2> HIDE DEF c
  <2>2. /\ t \in Seq(loaded) /\ Len(t) = short /\ t[1] = cache[p]
        /\ \A i \in 1..short : (i < p => t[i + 1] = cache[i]) /\ (p < i => t[i] = cache[i])
    <3>1. cache \in Seq(loaded)
      BY <1>1
    <3>2. QED
      BY <2>1, <3>1, MovedToFront
  <2>3. QED
    BY <2>1, <2>2
<1>13. cache' = Kept(t)
  BY <1>3
<1> HIDE DEF t
<1>14. /\ cache' \in Seq(loaded) /\ kept <= short
       /\ \A i \in 1..kept : cache'[i] = t[i]
       /\ kept >= Smaller(Span, short)
  BY <1>8, <1>12, <1>13, KeptFirst
<1>15. DOMAIN cache' = 1..kept /\ kept \in Nat /\ short \in Nat
  BY <1>4, <1>14
<1> HIDE DEF c, short, kept
\* Where each entry of the new cache was before.
<1> DEFINE was(i) == IF i = 1 THEN p ELSE IF i <= p THEN i - 1 ELSE i
<1>16. p \in 1..short /\ p <= Span /\ short = Len(cache)
  BY <1>4, <1>10, <1>11 DEF short
<1>17. \A i \in 1..short : was(i) \in DOMAIN cache /\ t[i] = cache[was(i)]
  <2>1. TAKE i \in 1..short
  <2>2. CASE i = 1
    BY <1>3, <1>12, <2>2
  <2>3. CASE i # 1 /\ i <= p
    <3>1. i - 1 \in 1..short /\ i - 1 < p /\ (i - 1) + 1 = i
      BY <1>15, <1>16, <2>3
    <3>2. QED
      BY <1>4, <1>12, <1>16, <2>3, <3>1
  <2>4. CASE i # 1 /\ p < i
    BY <1>4, <1>12, <1>16, <2>4
  <2>5. QED
    BY <1>15, <1>16, <2>2, <2>3, <2>4
<1>18. \A i, j \in 1..short : was(i) = was(j) => i = j
  BY <1>15, <1>16
<1>19. \A i, j \in DOMAIN cache' : cache'[i] = cache'[j] => i = j
  <2>1. TAKE i, j \in DOMAIN cache'
  <2>2. HAVE cache'[i] = cache'[j]
  <2>3. i \in 1..short /\ j \in 1..short /\ i \in 1..kept /\ j \in 1..kept
    BY <1>14, <1>15
  <2>4. cache[was(i)] = cache[was(j)] /\ was(i) \in DOMAIN cache /\ was(j) \in DOMAIN cache
    BY <1>14, <1>17, <2>2, <2>3
  <2> HIDE DEF was
  <2>5. was(i) = was(j)
    BY <1>1, <2>4
  <2>6. QED
    BY <1>18, <2>3, <2>5
<1>20. ASSUME NEW n \in 0..Span - 1
       PROVE  \E i \in DOMAIN cache' : i <= Span /\ cache'[i] = <<b, n>>
  <2>1. PICK i \in DOMAIN cache : i <= Span /\ cache[i] = <<b, n>>
    BY <1>1, <1>7, <1>8
  <2> DEFINE now == IF i = p THEN 1 ELSE IF i < p THEN i + 1 ELSE i
  <2>2. i \in 1..short
    BY <1>4, <1>16, <2>1
  <2>3. now \in 1..short /\ now <= Span /\ t[now] = cache[i]
    <3>1. now \in 1..short /\ now <= Span
      BY <1>9, <1>15, <1>16, <2>1, <2>2
    <3>2. CASE i = p
      BY <1>3, <1>12, <3>1, <3>2
    <3>3. CASE i < p
      BY <1>12, <1>15, <1>16, <2>2, <3>1, <3>3
    <3>4. CASE p < i
      BY <1>12, <1>15, <1>16, <2>2, <3>1, <3>4
    <3>5. QED
      BY <1>15, <1>16, <2>2, <3>1, <3>2, <3>3, <3>4
  <2> HIDE DEF now
  <2>4. now \in 1..kept
    BY <1>9, <1>14, <1>15, <2>3 DEF Smaller
  <2>5. cache'[now] = <<b, n>> /\ now \in DOMAIN cache'
    BY <1>14, <1>15, <2>1, <2>3, <2>4
  <2>6. QED
    BY <2>3, <2>5
<1>21. QED
  BY <1>1, <1>3, <1>7, <1>14, <1>19, <1>20 DEF Recent

\* After the chunk the reader moves on, to the block's next chunk or to the
\* next measurement.
LEMMA CacheStep ==
  ASSUME FileOK, CacheInv, ReadChunk
  PROVE  CacheInv'
<1> DEFINE per == file.chunk[1]
           visited == IF m % per = 0 THEN k + 1 ELSE Span
<1>1. file' = file
  BY DEF ReadChunk
<1>2. Span' = Span /\ Bytes' = Bytes /\ (file.chunk)' = file.chunk
  BY <1>1 DEF Span, Bytes
<1>3. SUFFICES ASSUME WellFormed(file.chunk), Span * Bytes <= MaxCacheBytes
               PROVE  /\ m' \in Nat /\ k' \in Nat /\ k' < Span
                      /\ again' = {}
                      /\ Recent(cache', loaded', Block', Visited')
  BY <1>1, <1>2 DEF CacheInv, Recent
<1>4. m \in Nat /\ k \in Nat /\ k < Span /\ Span \in Nat /\ per \in Positive /\ Block \in Nat
  <2>1. m \in Nat /\ k \in Nat /\ k < Span
    BY <1>3 DEF CacheInv
  <2>2. per \in Positive
    BY <1>3 DEF FileOK, WellFormed, Positive
  <2>3. QED
    BY <1>3, <2>1, <2>2, KeptSpan, Quotient DEF Block, Positive
<1>5. again' = {} /\ Recent(cache', loaded', Block, visited)
  BY <1>3, Missed, Hit
<1>6. CASE k + 1 < Span
  <2>1. k' = k + 1 /\ m' = m
    BY <1>6 DEF ReadChunk
  <2>2. Block' = Block /\ Visited' = visited
    BY <1>1, <1>2, <2>1 DEF Block, Visited
  <2>3. QED
    BY <1>4, <1>5, <1>6, <2>1, <2>2
<1>7. CASE ~(k + 1 < Span)
  <2>1. k' = 0 /\ m' = m + 1 /\ k + 1 = Span
    BY <1>4, <1>7 DEF ReadChunk
  <2>2. CASE (m + 1) \div per = m \div per /\ (m + 1) % per # 0
    <3>1. Block' = Block /\ Visited' = Span /\ visited = Span
      BY <1>1, <1>2, <2>1, <2>2 DEF Block, Visited
    <3>2. QED
      BY <1>4, <1>5, <2>1, <3>1
  <2>3. CASE (m + 1) \div per = m \div per + 1 /\ (m + 1) % per = 0
    <3>1. Block' = Block + 1 /\ Visited' = 0
      BY <1>1, <1>2, <2>1, <2>3 DEF Block, Visited
    <3>2. Recent(cache', loaded', Block + 1, 0)
      <4>1. \A x \in loaded' : x[1] \in Nat /\ x[1] <= Block
        <5>1. \A x \in Nat \X Nat : x[1] \in Nat
          OBVIOUS
        <5>2. loaded' \subseteq Nat \X Nat
          BY <1>5 DEF Recent
        <5>3. \A x \in loaded' : x[1] < Block \/ x[1] = Block
          BY <1>5 DEF Recent
        <5>4. QED
          BY <1>4, <5>1, <5>2, <5>3
      <4>2. \A x \in loaded' : x[1] < Block + 1
        BY <1>4, <4>1
      <4>3. 0..0 - 1 = {}
        OBVIOUS
      <4>4. QED
        BY <1>5, <4>2, <4>3 DEF Recent
    <3>3. QED
      BY <1>4, <1>5, <2>1, <3>1, <3>2
  <2>4. QED
    BY <1>4, <2>2, <2>3, NextMeasurement
<1>8. QED
  BY <1>6, <1>7

\* Reading one measurement after the other decompresses no chunk twice, in any
\* file the chunks of one measurement of which fit in the cache's bound: the
\* cache chunkCacheSize asks for is large enough, whatever the order in which
\* blocks and receivers are visited.
THEOREM EachChunkOnce == Spec => []DecompressedOnce
<1>1. Init /\ FileOK => CacheInv
  <2> SUFFICES ASSUME Init, FileOK, WellFormed(file.chunk), Span * Bytes <= MaxCacheBytes
               PROVE  CacheInv
    BY DEF CacheInv
  <2>1. Span \in Positive /\ file.chunk[1] \in Positive
    BY KeptSpan DEF FileOK, WellFormed, Positive
  <2>2. 0 % file.chunk[1] = 0
    BY <2>1, DivisionUnique DEF Positive
  <2>3. Visited = 0 /\ 0..Visited - 1 = {}
    BY <2>2 DEF Init, Visited
  <2>4. DOMAIN cache = {}
    BY DEF Init
  <2>5. QED
    BY <2>1, <2>3, <2>4 DEF Init, CacheInv, Recent, Positive
<1>2. FileOK /\ CacheInv /\ [Next]_vars => CacheInv'
  <2> SUFFICES ASSUME FileOK, CacheInv, [Next]_vars PROVE CacheInv'
    OBVIOUS
  <2>1. CASE ReadChunk
    BY <2>1, CacheStep
  <2>2. CASE UNCHANGED vars
    BY <2>2 DEF CacheInv, Recent, vars, Span, Bytes, Block, Visited
  <2>3. QED
    BY <2>1, <2>2 DEF Next
<1>3. CacheInv => DecompressedOnce
  BY DEF CacheInv, DecompressedOnce
<1>4. QED
  BY <1>1, <1>2, <1>3, FileStays, PTL DEF Spec
=============================================================================
