--------------------------- MODULE IngestorProofs ---------------------------
(***************************************************************************)
(* Theorems about the ingestor for any number of uploads of any size, any  *)
(* BATCH_SIZE, and any number of faults, crashes and deletions.            *)
(***************************************************************************)
EXTENDS Ingestor, FiniteSetTheorems, TLAPS

-----------------------------------------------------------------------------
(* Cutting a file *)

\* How much of the file n batches hold, and the length of the n-th of them.
Cut(f, n) == MinOf(SizeOf[f], BatchSize * n)
Tile(f, n) == MinOf(BatchSize, SizeOf[f] - BatchSize * (n - 1))
Tiles(f, n) == {<<f, i, Tile(f, i)>> : i \in 1 .. n}

LEMMA Sizes ==
    ASSUME NEW f \in Files
    PROVE  /\ SizeOf[f] \in Nat /\ BadAt[f] \in Nat /\ BadAt[f] <= SizeOf[f]
           /\ BatchSize \in Nat \ {0}
BY IngestorAssumption

\* n batches hold a natural number of records, no more than the file does.
LEMMA CutType ==
    ASSUME NEW f \in Files, NEW n \in Nat
    PROVE  Cut(f, n) \in Nat /\ Cut(f, n) <= SizeOf[f]
<1>1. BatchSize * n \in Nat
  BY Sizes
<1>. QED  BY <1>1, Sizes DEF Cut, MinOf

LEMMA CutNothing == \A f \in Files : Cut(f, 0) = 0
BY Sizes DEF Cut, MinOf

\* Where records are left, n batches are full, and the next holds what Stream takes.
LEMMA CutNext ==
    ASSUME NEW f \in Files, NEW n \in Nat,
           MinOf(BatchSize, SizeOf[f] - Cut(f, n)) > 0
    PROVE  LET m == MinOf(BatchSize, SizeOf[f] - Cut(f, n)) IN
           /\ m \in Nat
           /\ BatchSize * n < SizeOf[f]
           /\ m = Tile(f, n + 1)
           /\ Cut(f, n) + m = Cut(f, n + 1)
<1>. DEFINE P == BatchSize * n
<1>1. P \in Nat /\ BatchSize * (n + 1) = P + BatchSize
  BY Sizes
<1>2. n + 1 - 1 = n
  OBVIOUS
<1>. HIDE DEF P
<1>3. Cut(f, n) = MinOf(SizeOf[f], P)
  BY DEF Cut, P
<1>4. P < SizeOf[f]
  BY <1>1, <1>3, Sizes DEF MinOf
<1>5. Tile(f, n + 1) = MinOf(BatchSize, SizeOf[f] - P)
  BY <1>2 DEF Tile, P
<1>6. Cut(f, n + 1) = MinOf(SizeOf[f], P + BatchSize)
  BY <1>1 DEF Cut
<1>7. MinOf(BatchSize, SizeOf[f] - P) \in Nat
  BY <1>1, <1>4, Sizes DEF MinOf
<1>8. P + MinOf(BatchSize, SizeOf[f] - P) = MinOf(SizeOf[f], P + BatchSize)
  BY <1>1, <1>4, Sizes DEF MinOf
<1>9. Cut(f, n) = P
  BY <1>1, <1>3, <1>4, Sizes DEF MinOf
<1>. QED  BY <1>4, <1>5, <1>6, <1>7, <1>8, <1>9 DEF P

\* Counting the n-th batch takes the sum from n - 1 batches to n.
LEMMA CutAdds ==
    ASSUME NEW f \in Files, NEW n \in Nat, n > 0, BatchSize * (n - 1) < SizeOf[f]
    PROVE  /\ Tile(f, n) \in Nat
           /\ Cut(f, n - 1) + Tile(f, n) = Cut(f, n)
<1>. DEFINE P == BatchSize * (n - 1)
<1>1. P \in Nat /\ BatchSize * n = P + BatchSize
  BY Sizes
<1>2. P < SizeOf[f]
  OBVIOUS
<1>. HIDE DEF P
<1>3. /\ Cut(f, n - 1) = MinOf(SizeOf[f], P)
      /\ Tile(f, n) = MinOf(BatchSize, SizeOf[f] - P)
      /\ Cut(f, n) = MinOf(SizeOf[f], P + BatchSize)
  BY <1>1 DEF Cut, Tile, P
<1>. QED  BY <1>1, <1>2, <1>3, Sizes DEF MinOf

\* Batches are told apart by their numbers, so that n of them are n.
LEMMA TilesCount ==
    ASSUME NEW f \in Files, NEW n \in Nat
    PROVE  Cardinality(Tiles(f, n)) = n
<1>. DEFINE F == [i \in 1 .. n |-> <<f, i, Tile(f, i)>>]
<1>1. F \in Injection(1 .. n, Tiles(f, n))
  BY DEF Tiles, Injection, IsInjective
<1>2. F \in Surjection(1 .. n, Tiles(f, n))
  BY DEF Tiles, Surjection
<1>3. ExistsBijection(1 .. n, Tiles(f, n))
  BY <1>1, <1>2 DEF ExistsBijection, Bijection
<1>. QED  BY <1>3, FS_CountingElements

\* Registering or publishing the next batch makes one more tile.
LEMMA TilesGrow ==
    ASSUME NEW f, NEW n \in Nat, n > 0
    PROVE  Tiles(f, n - 1) \union {<<f, n, Tile(f, n)>>} = Tiles(f, n)
<1>1. 1 .. n = (1 .. (n - 1)) \union {n}
  OBVIOUS
<1>. QED  BY <1>1 DEF Tiles

LEMMA NoTiles == \A f : Tiles(f, 0) = {}
BY DEF Tiles

-----------------------------------------------------------------------------
(* The inductive invariant *)

Unstarted == {"idle", "create", "config", "refused"}
Counted == {"config", "refused", "stream", "createBatch", "publish", "complete", "answered"}
AfterPublish == {"stream", "readProgress", "saveProgress", "complete", "answered"}
WithBatch == {"createBatch", "publish", "readProgress", "saveProgress"}

\* streamBatches: k batches have been cut, none of them empty, and the last of them
\* is the one in hand.
CutsOK(f) ==
    LET k == batchIndex[f] IN
    /\ read[f] = Cut(f, k)
    /\ k > 0 => BatchSize * (k - 1) < SizeOf[f] /\ batch[f] = Tile(f, k)
    /\ BadAt[f] = 0 \/ read[f] < BadAt[f]
    /\ pc[f] \in Unstarted => k = 0
    /\ pc[f] \in WithBatch => k > 0
    /\ pc[f] \in {"complete", "answered"} => read[f] = SizeOf[f]

\* Of the k batches j are published and r registered.
SentOK(f, j, r) ==
    LET k == batchIndex[f] IN
    /\ j <= r /\ r <= k /\ k <= j + 1
    /\ pc[f] = "createBatch" => r = k - 1
    /\ pc[f] = "publish" => j = k - 1 /\ r = k
    /\ pc[f] \in AfterPublish => j = k

\* The row of a process counts all published batches, or all but the one whose
\* publishing has not been counted yet; only the end of the request completes it.
RowOK(f, j) ==
    LET row == processes[f] IN
    row.status # "absent" =>
        /\ row.batches <= j /\ j <= row.batches + 1
        /\ row.records = Cut(f, row.batches)
        /\ pc[f] \in Counted => row.batches = j
        /\ pc[f] \in {"readProgress", "saveProgress"} => row.batches = j - 1
        /\ pc[f] = "saveProgress" => /\ current[f].records = row.records
                                     /\ current[f].batches = row.batches
        /\ row.status = "COMPLETADO" =>
              /\ pc[f] \in {"answered", "catch", "failed", "dead"}
              /\ row.batches = batchIndex[f]
              /\ read[f] = SizeOf[f]
        /\ row.status = "ERROR" => pc[f] = "failed"

\* A row is there from CreateProcess until the BFF deletes it, and not again.
LifeOK(f) ==
    /\ pc[f] \in {"idle", "create"} => processes[f].status = "absent" /\ f \notin deleted
    /\ f \in deleted => processes[f] = AbsentProcess

FileInv(f) ==
    /\ CutsOK(f)
    /\ LifeOK(f)
    /\ \E j, r \in Nat :
          /\ Of(f, published) = Tiles(f, j)
          /\ f \notin deleted => Of(f, batches) = Tiles(f, r)
          /\ SentOK(f, j, r)
          /\ RowOK(f, j)

IInv == TypeOK /\ \A f \in Files : FileInv(f)

\* What belongs to an upload stays as it is.
Same(g) ==
    /\ processes'[g] = processes[g] /\ pc'[g] = pc[g] /\ current'[g] = current[g]
    /\ read'[g] = read[g] /\ batchIndex'[g] = batchIndex[g] /\ batch'[g] = batch[g]
    /\ Of(g, published)' = Of(g, published)
    /\ Of(g, batches)' = Of(g, batches)
    /\ g \in deleted' <=> g \in deleted

LEMMA SameKeeps == ASSUME NEW g \in Files, FileInv(g), Same(g)
                   PROVE  FileInv(g)'
<1>. PICK j \in Nat, r \in Nat :
          /\ Of(g, published) = Tiles(g, j)
          /\ g \notin deleted => Of(g, batches) = Tiles(g, r)
          /\ SentOK(g, j, r)
          /\ RowOK(g, j)
  BY DEF FileInv
<1>1. CutsOK(g)'
  BY DEF FileInv, Same, CutsOK, Cut, Tile
<1>2. LifeOK(g)'
  BY DEF FileInv, Same, LifeOK
<1>3. SentOK(g, j, r)' /\ RowOK(g, j)'
  BY DEF Same, SentOK, RowOK, Cut
<1>4. /\ Of(g, published)' = Tiles(g, j)
      /\ g \notin deleted' => Of(g, batches)' = Tiles(g, r)
  BY DEF Same
<1>. QED  BY <1>1, <1>2, <1>3, <1>4 DEF FileInv, Of, Tiles, Tile

-----------------------------------------------------------------------------
(* Control *)

\* A rejected call moves its request to the catch block or out of the handler.
LEMMA ThrowTarget ==
    ASSUME TypeOK, NEW f \in Files, Throw(f)
    PROVE  /\ pc' \in [Files -> Controls]
           /\ pc'[f] = IF pc[f] \in InTry THEN "catch" ELSE "failed"
           /\ \A g \in Files \ {f} : pc'[g] = pc[g]
BY DEF Throw, TypeOK, Controls, Running, Ended

\* A call that takes effect leads on, or counts as a fault and leads out.
LEMMA GoToTarget ==
    ASSUME TypeOK, NEW f \in Files, NEW next \in Controls, GoTo(f, next)
    PROVE  /\ pc' \in [Files -> Controls]
           /\ pc'[f] \in {next, IF pc[f] \in InTry THEN "catch" ELSE "failed"}
           /\ \A g \in Files \ {f} : pc'[g] = pc[g]
           /\ faults' \in 0 .. MaxFaults
<1>. USE IngestorAssumption
<1>1. CASE pc' = [pc EXCEPT ![f] = next] /\ UNCHANGED faults
  BY <1>1 DEF TypeOK
<1>2. CASE faults < MaxFaults /\ faults' = faults + 1 /\ Throw(f)
  BY <1>2, ThrowTarget DEF TypeOK
<1>. QED  BY <1>1, <1>2 DEF GoTo

\* Writing the row of a process touches it only, and an absent one not at all.
LEMMA UpdateRow ==
    ASSUME TypeOK, NEW f \in Files, NEW row \in ProcessRows
    PROVE  /\ update(f, row) \in [Files -> ProcessRows]
           /\ update(f, row)[f] = IF processes[f].status = "absent" THEN processes[f] ELSE row
           /\ \A g \in Files \ {f} : update(f, row)[g] = processes[g]
BY DEF update, TypeOK

LEMMA AbsentIsRow == AbsentProcess \in ProcessRows
BY DEF AbsentProcess, ProcessRows, Statuses

\* A new batch of f is one of f's and of nobody else's.
LEMMA OneMore ==
    ASSUME NEW f \in Files, NEW S, NEW i, NEW n
    PROVE  /\ Of(f, S \union {<<f, i, n>>}) = Of(f, S) \union {<<f, i, n>>}
           /\ \A g \in Files \ {f} : Of(g, S \union {<<f, i, n>>}) = Of(g, S)
BY DEF Of

-----------------------------------------------------------------------------
(* One lemma per action: what it does to its upload, and to no other *)

LEMMA RequestKeeps ==
    ASSUME TypeOK, NEW f \in Files, FileInv(f), Request(f)
    PROVE  TypeOK' /\ FileInv(f)' /\ \A g \in Files \ {f} : Same(g)
<1>. PICK j \in Nat, r \in Nat :
          /\ Of(f, published) = Tiles(f, j)
          /\ f \notin deleted => Of(f, batches) = Tiles(f, r)
          /\ SentOK(f, j, r)
          /\ RowOK(f, j)
  BY DEF FileInv
<1>1. /\ pc[f] = "idle" /\ pc'[f] = "create"
      /\ \A g \in Files \ {f} : pc'[g] = pc[g]
      /\ UNCHANGED <<processes, batches, published, stream, current, deleted, faults>>
  BY DEF Request, TypeOK
<1>2. TypeOK'
  BY DEF Request, TypeOK, Controls, Running, stream
<1>3. CutsOK(f)' /\ LifeOK(f)'
  BY <1>1 DEF FileInv, CutsOK, LifeOK, Cut, Tile, Unstarted, WithBatch, stream
<1>4. SentOK(f, j, r)' /\ RowOK(f, j)'
  BY <1>1 DEF FileInv, LifeOK, SentOK, RowOK, AfterPublish, stream
<1>5. FileInv(f)'
  BY <1>1, <1>3, <1>4 DEF FileInv, Of, Tiles, Tile
<1>6. \A g \in Files \ {f} : Same(g)
  BY <1>1 DEF Same, Of, stream
<1>. QED  BY <1>2, <1>5, <1>6

LEMMA CreateProcessKeeps ==
    ASSUME TypeOK, NEW f \in Files, FileInv(f), CreateProcess(f)
    PROVE  TypeOK' /\ FileInv(f)' /\ \A g \in Files \ {f} : Same(g)
<1>. PICK j \in Nat, r \in Nat :
          /\ Of(f, published) = Tiles(f, j)
          /\ f \notin deleted => Of(f, batches) = Tiles(f, r)
          /\ SentOK(f, j, r)
          /\ RowOK(f, j)
  BY DEF FileInv
<1>. DEFINE row == [status |-> "PROCESANDO", records |-> 0, batches |-> 0]
<1>1. /\ pc[f] = "create" /\ pc'[f] \in {"config", "failed"}
      /\ pc' \in [Files -> Controls] /\ faults' \in 0 .. MaxFaults
      /\ \A g \in Files \ {f} : pc'[g] = pc[g]
  BY GoToTarget DEF CreateProcess, Controls, Running, InTry
<1>2. /\ processes' = [processes EXCEPT ![f] = row]
      /\ UNCHANGED <<batches, published, stream, current, deleted>>
  BY DEF CreateProcess
<1>3. row \in ProcessRows
  BY DEF ProcessRows, Statuses
<1>4. /\ processes' \in [Files -> ProcessRows] /\ processes'[f] = row
      /\ \A g \in Files \ {f} : processes'[g] = processes[g]
  BY <1>2, <1>3 DEF TypeOK
<1>5. TypeOK'
  BY <1>1, <1>2, <1>4 DEF TypeOK, stream
<1>6. CutsOK(f)' /\ LifeOK(f)'
  BY <1>1, <1>2 DEF FileInv, CutsOK, LifeOK, Cut, Tile, Unstarted, WithBatch, stream
<1>7. batchIndex[f] = 0 /\ j = 0
  BY <1>1 DEF FileInv, CutsOK, SentOK, Unstarted
<1>8. SentOK(f, j, r)'
  BY <1>1, <1>2 DEF SentOK, AfterPublish, stream
<1>9. RowOK(f, j)'
  BY <1>1, <1>4, <1>7, CutNothing DEF RowOK, Cut
<1>10. FileInv(f)'
  BY <1>2, <1>6, <1>8, <1>9 DEF FileInv, Of, Tiles, Tile
<1>11. \A g \in Files \ {f} : Same(g)
  BY <1>1, <1>2, <1>4 DEF Same, Of, stream
<1>. QED  BY <1>5, <1>10, <1>11

LEMMA CheckConfigKeeps ==
    ASSUME TypeOK, NEW f \in Files, FileInv(f), CheckConfig(f)
    PROVE  TypeOK' /\ FileInv(f)' /\ \A g \in Files \ {f} : Same(g)
<1>. PICK j \in Nat, r \in Nat :
          /\ Of(f, published) = Tiles(f, j)
          /\ f \notin deleted => Of(f, batches) = Tiles(f, r)
          /\ SentOK(f, j, r)
          /\ RowOK(f, j)
  BY DEF FileInv
<1>1. /\ pc[f] = "config" /\ pc'[f] \in {"refused", "stream"}
      /\ \A g \in Files \ {f} : pc'[g] = pc[g]
      /\ UNCHANGED <<processes, batches, published, stream, current, deleted, faults>>
  BY DEF CheckConfig, TypeOK
<1>2. TypeOK'
  BY <1>1 DEF CheckConfig, TypeOK, Controls, Running, InTry, Ended, stream
<1>3. CutsOK(f)' /\ LifeOK(f)'
  BY <1>1 DEF FileInv, CutsOK, LifeOK, Cut, Tile, Unstarted, WithBatch, stream
<1>4. j = batchIndex[f]
  BY <1>1 DEF FileInv, CutsOK, SentOK, Unstarted
<1>5. SentOK(f, j, r)' /\ RowOK(f, j)'
  BY <1>1, <1>4 DEF SentOK, RowOK, AfterPublish, Counted, Cut, stream
<1>6. FileInv(f)'
  BY <1>1, <1>3, <1>5 DEF FileInv, Of, Tiles, Tile
<1>7. \A g \in Files \ {f} : Same(g)
  BY <1>1 DEF Same, Of, stream
<1>. QED  BY <1>2, <1>6, <1>7

LEMMA StreamKeeps ==
    ASSUME TypeOK, NEW f \in Files, FileInv(f), Stream(f)
    PROVE  TypeOK' /\ FileInv(f)' /\ \A g \in Files \ {f} : Same(g)
<1>. PICK j \in Nat, r \in Nat :
          /\ Of(f, published) = Tiles(f, j)
          /\ f \notin deleted => Of(f, batches) = Tiles(f, r)
          /\ SentOK(f, j, r)
          /\ RowOK(f, j)
  BY DEF FileInv
<1>. DEFINE k == batchIndex[f]
            n == MinOf(BatchSize, SizeOf[f] - read[f])
<1>1. /\ pc[f] = "stream"
      /\ UNCHANGED <<processes, batches, published, current, deleted, faults>>
  BY DEF Stream
<1>2. /\ k \in Nat /\ read[f] = Cut(f, k) /\ read[f] \in Nat /\ read[f] <= SizeOf[f]
      /\ j = k /\ r = k
  BY <1>1, CutType DEF FileInv, CutsOK, SentOK, TypeOK, AfterPublish
<1>3. CASE /\ n > 0
           /\ BadAt[f] = 0 \/ read[f] + n < BadAt[f]
           /\ read' = [read EXCEPT ![f] = @ + n]
           /\ batch' = [batch EXCEPT ![f] = n]
           /\ batchIndex' = [batchIndex EXCEPT ![f] = @ + 1]
           /\ pc' = [pc EXCEPT ![f] = "createBatch"]
  <2>1. /\ n \in Nat /\ BatchSize * k < SizeOf[f]
        /\ n = Tile(f, k + 1) /\ read[f] + n = Cut(f, k + 1)
    BY <1>2, <1>3, CutNext
  <2>. HIDE DEF n
  <2>2. /\ read'[f] = Cut(f, k + 1) /\ batch'[f] = Tile(f, k + 1)
        /\ batchIndex'[f] = k + 1 /\ pc'[f] = "createBatch"
        /\ BadAt[f] = 0 \/ read'[f] < BadAt[f]
    BY <1>3, <2>1 DEF TypeOK
  <2>3. TypeOK'
    BY <1>1, <1>2, <1>3, <2>1 DEF TypeOK, Controls, Running, InTry
  <2>4. CutsOK(f)'
    BY <1>2, <2>1, <2>2 DEF CutsOK, Cut, Tile, Unstarted
  <2>5. LifeOK(f)'
    BY <1>1, <2>2 DEF FileInv, LifeOK
  <2>6. SentOK(f, j, r)'
    BY <1>2, <2>2 DEF SentOK, AfterPublish
  <2>7. RowOK(f, j)'
    BY <1>1, <2>2 DEF RowOK, Cut, Counted
  <2>8. \A g \in Files \ {f} : Same(g)
    BY <1>1, <1>3 DEF Same, Of, TypeOK
  <2>. QED  BY <1>1, <2>3, <2>4, <2>5, <2>6, <2>7, <2>8 DEF FileInv, Of, Tiles, Tile
<1>4. CASE n = 0 /\ pc' = [pc EXCEPT ![f] = "complete"] /\ UNCHANGED stream
  <2>1. read[f] = SizeOf[f]
    BY <1>2, <1>4, Sizes DEF MinOf
  <2>2. pc'[f] = "complete" /\ \A g \in Files \ {f} : pc'[g] = pc[g]
    BY <1>4 DEF TypeOK
  <2>3. TypeOK'
    BY <1>1, <1>4 DEF TypeOK, Controls, Running, InTry, stream
  <2>4. CutsOK(f)' /\ LifeOK(f)'
    BY <1>1, <1>4, <2>1, <2>2 DEF FileInv, CutsOK, LifeOK, Cut, Tile, Unstarted, WithBatch,
                                  stream
  <2>5. SentOK(f, j, r)' /\ RowOK(f, j)'
    BY <1>1, <1>2, <1>4, <2>2 DEF SentOK, RowOK, AfterPublish, Counted, Cut, stream
  <2>6. \A g \in Files \ {f} : Same(g)
    BY <1>1, <1>4, <2>2 DEF Same, Of, stream
  <2>. QED  BY <1>1, <2>3, <2>4, <2>5, <2>6 DEF FileInv, Of, Tiles, Tile
<1>5. CASE Throw(f) /\ UNCHANGED stream
  <2>1. /\ pc'[f] = "catch" /\ pc' \in [Files -> Controls]
        /\ \A g \in Files \ {f} : pc'[g] = pc[g]
    BY <1>1, <1>5, ThrowTarget DEF InTry
  <2>2. TypeOK'
    BY <1>1, <1>5, <2>1 DEF TypeOK, stream
  <2>3. CutsOK(f)' /\ LifeOK(f)'
    BY <1>1, <1>5, <2>1 DEF FileInv, CutsOK, LifeOK, Cut, Tile, Unstarted, WithBatch, stream
  <2>4. SentOK(f, j, r)' /\ RowOK(f, j)'
    BY <1>1, <1>5, <2>1 DEF SentOK, RowOK, AfterPublish, Counted, Cut, stream
  <2>5. \A g \in Files \ {f} : Same(g)
    BY <1>1, <1>5, <2>1 DEF Same, Of, stream
  <2>. QED  BY <1>1, <2>2, <2>3, <2>4, <2>5 DEF FileInv, Of, Tiles, Tile
<1>. QED  BY <1>3, <1>4, <1>5 DEF Stream

LEMMA CreateBatchKeeps ==
    ASSUME TypeOK, NEW f \in Files, FileInv(f), CreateBatch(f)
    PROVE  TypeOK' /\ FileInv(f)' /\ \A g \in Files \ {f} : Same(g)
<1>. PICK j \in Nat, r \in Nat :
          /\ Of(f, published) = Tiles(f, j)
          /\ f \notin deleted => Of(f, batches) = Tiles(f, r)
          /\ SentOK(f, j, r)
          /\ RowOK(f, j)
  BY DEF FileInv
<1>. PICK k \in Nat : k = batchIndex[f]
  BY DEF TypeOK
<1>1. /\ pc[f] = "createBatch" /\ pc'[f] \in {"publish", "catch"}
      /\ pc' \in [Files -> Controls] /\ faults' \in 0 .. MaxFaults
      /\ \A g \in Files \ {f} : pc'[g] = pc[g]
  BY GoToTarget DEF CreateBatch, Controls, Running, InTry
<1>2. /\ batches' = batches \union {<<f, k, batch[f]>>}
      /\ UNCHANGED <<processes, published, stream, current, deleted>>
  BY DEF CreateBatch
<1>3. k \in Nat /\ k > 0 /\ batch[f] = Tile(f, k) /\ j = k - 1 /\ r = k - 1
  BY <1>1 DEF FileInv, CutsOK, SentOK, WithBatch, TypeOK
<1>4. f \notin deleted' => Of(f, batches)' = Tiles(f, k)
  <2>1. Of(f, batches)' = Of(f, batches) \union {<<f, k, Tile(f, k)>>}
    BY <1>2, <1>3, OneMore DEF Of
  <2>. QED  BY <1>2, <1>3, <2>1, TilesGrow
<1>5. TypeOK'
  <2>1. <<f, k, batch[f]>> \in Files \X Nat \X Nat
    BY DEF TypeOK
  <2>. QED  BY <1>1, <1>2, <2>1 DEF TypeOK, stream
<1>6. CutsOK(f)' /\ LifeOK(f)'
  BY <1>1, <1>2 DEF FileInv, CutsOK, LifeOK, Cut, Tile, Unstarted, WithBatch, stream
<1>7. SentOK(f, j, k)' /\ RowOK(f, j)'
  BY <1>1, <1>2, <1>3 DEF SentOK, RowOK, AfterPublish, Counted, Cut, stream
<1>8. \A g \in Files : Of(g, published)' = Of(g, published)
  BY <1>2 DEF Of
<1>9. FileInv(f)'
  BY <1>3, <1>4, <1>6, <1>7, <1>8 DEF FileInv, Tiles, Tile
<1>10. \A g \in Files \ {f} : Of(g, batches)' = Of(g, batches)
  BY <1>2, OneMore DEF Of
<1>11. \A g \in Files \ {f} : Same(g)
  BY <1>1, <1>2, <1>8, <1>10 DEF Same, stream
<1>. QED  BY <1>5, <1>9, <1>11

LEMMA PublishBatchKeeps ==
    ASSUME TypeOK, NEW f \in Files, FileInv(f), PublishBatch(f)
    PROVE  TypeOK' /\ FileInv(f)' /\ \A g \in Files \ {f} : Same(g)
<1>. PICK j \in Nat, r \in Nat :
          /\ Of(f, published) = Tiles(f, j)
          /\ f \notin deleted => Of(f, batches) = Tiles(f, r)
          /\ SentOK(f, j, r)
          /\ RowOK(f, j)
  BY DEF FileInv
<1>. PICK k \in Nat : k = batchIndex[f]
  BY DEF TypeOK
<1>1. /\ pc[f] = "publish" /\ pc'[f] \in {"readProgress", "catch"}
      /\ pc' \in [Files -> Controls] /\ faults' \in 0 .. MaxFaults
      /\ \A g \in Files \ {f} : pc'[g] = pc[g]
  BY GoToTarget DEF PublishBatch, Controls, Running, InTry
<1>2. /\ published' = published \union {<<f, k, batch[f]>>}
      /\ UNCHANGED <<processes, batches, stream, current, deleted>>
  BY DEF PublishBatch
<1>3. k \in Nat /\ k > 0 /\ batch[f] = Tile(f, k) /\ j = k - 1 /\ r = k
  BY <1>1 DEF FileInv, CutsOK, SentOK, WithBatch, TypeOK
<1>4. Of(f, published)' = Tiles(f, k)
  <2>1. Of(f, published)' = Of(f, published) \union {<<f, k, Tile(f, k)>>}
    BY <1>2, <1>3, OneMore DEF Of
  <2>. QED  BY <1>3, <2>1, TilesGrow
<1>5. TypeOK'
  <2>1. <<f, k, batch[f]>> \in Files \X Nat \X Nat
    BY DEF TypeOK
  <2>. QED  BY <1>1, <1>2, <2>1 DEF TypeOK, stream
<1>6. CutsOK(f)' /\ LifeOK(f)'
  BY <1>1, <1>2 DEF FileInv, CutsOK, LifeOK, Cut, Tile, Unstarted, WithBatch, stream
<1>7. SentOK(f, k, r)'
  BY <1>1, <1>2, <1>3 DEF SentOK, AfterPublish, stream
<1>8. RowOK(f, k)'
  BY <1>1, <1>2, <1>3 DEF RowOK, TypeOK, ProcessRows, Counted, Cut, stream
<1>9. \A g \in Files : Of(g, batches)' = Of(g, batches)
  BY <1>2 DEF Of
<1>10. FileInv(f)'
  BY <1>2, <1>3, <1>4, <1>6, <1>7, <1>8, <1>9 DEF FileInv, Tiles, Tile
<1>11. \A g \in Files \ {f} : Of(g, published)' = Of(g, published)
  BY <1>2, OneMore DEF Of
<1>12. \A g \in Files \ {f} : Same(g)
  BY <1>1, <1>2, <1>9, <1>11 DEF Same, stream
<1>. QED  BY <1>5, <1>10, <1>12

LEMMA ReadProgressKeeps ==
    ASSUME TypeOK, NEW f \in Files, FileInv(f), ReadProgress(f)
    PROVE  TypeOK' /\ FileInv(f)' /\ \A g \in Files \ {f} : Same(g)
<1>. PICK j \in Nat, r \in Nat :
          /\ Of(f, published) = Tiles(f, j)
          /\ f \notin deleted => Of(f, batches) = Tiles(f, r)
          /\ SentOK(f, j, r)
          /\ RowOK(f, j)
  BY DEF FileInv
<1>1. /\ pc[f] = "readProgress"
      /\ pc'[f] = IF processes[f].status = "absent" THEN "stream" ELSE "saveProgress"
      /\ \A g \in Files \ {f} : pc'[g] = pc[g] /\ current'[g] = current[g]
      /\ current'[f] = processes[f]
      /\ UNCHANGED <<processes, batches, published, stream, deleted, faults>>
  BY DEF ReadProgress, TypeOK
<1>2. TypeOK'
  BY <1>1 DEF ReadProgress, TypeOK, Controls, Running, InTry, stream
<1>3. CutsOK(f)' /\ LifeOK(f)'
  BY <1>1 DEF FileInv, CutsOK, LifeOK, Cut, Tile, Unstarted, WithBatch, stream
<1>4. SentOK(f, j, r)' /\ RowOK(f, j)'
  BY <1>1 DEF SentOK, RowOK, AfterPublish, Counted, Cut, stream
<1>5. FileInv(f)'
  BY <1>1, <1>3, <1>4 DEF FileInv, Of, Tiles, Tile
<1>6. \A g \in Files \ {f} : Same(g)
  BY <1>1 DEF Same, Of, stream
<1>. QED  BY <1>2, <1>5, <1>6

LEMMA SaveProgressKeeps ==
    ASSUME TypeOK, NEW f \in Files, FileInv(f), SaveProgress(f)
    PROVE  TypeOK' /\ FileInv(f)' /\ \A g \in Files \ {f} : Same(g)
<1>. PICK j \in Nat, r \in Nat :
          /\ Of(f, published) = Tiles(f, j)
          /\ f \notin deleted => Of(f, batches) = Tiles(f, r)
          /\ SentOK(f, j, r)
          /\ RowOK(f, j)
  BY DEF FileInv
<1>. DEFINE k == batchIndex[f]
            row == [processes[f] EXCEPT !.records = current[f].records + batch[f],
                                        !.batches = current[f].batches + 1]
<1>1. /\ pc[f] = "saveProgress" /\ pc'[f] \in {"stream", "catch"}
      /\ pc' \in [Files -> Controls] /\ faults' \in 0 .. MaxFaults
      /\ \A g \in Files \ {f} : pc'[g] = pc[g]
  BY GoToTarget DEF SaveProgress, Controls, Running, InTry
<1>2. /\ processes' = update(f, row)
      /\ UNCHANGED <<batches, published, stream, current, deleted>>
  BY DEF SaveProgress, saveProgress
<1>3. row \in ProcessRows
  <2>1. processes[f] \in ProcessRows /\ current[f] \in ProcessRows /\ batch[f] \in Nat
    BY DEF TypeOK
  <2>2. current[f].records + batch[f] \in Nat /\ current[f].batches + 1 \in Nat
    BY <2>1 DEF ProcessRows
  <2>. QED  BY <2>1, <2>2 DEF ProcessRows
<1>4. /\ processes' \in [Files -> ProcessRows]
      /\ processes'[f] = IF processes[f].status = "absent" THEN processes[f] ELSE row
      /\ \A g \in Files \ {f} : processes'[g] = processes[g]
  BY <1>2, <1>3, UpdateRow
<1>5. TypeOK'
  BY <1>1, <1>2, <1>4 DEF TypeOK, stream
<1>6. CutsOK(f)'
  BY <1>1, <1>2 DEF FileInv, CutsOK, Cut, Tile, Unstarted, WithBatch, stream
<1>7. LifeOK(f)'
  BY <1>1, <1>2, <1>4 DEF FileInv, LifeOK, AbsentProcess
<1>8. SentOK(f, j, r)'
  BY <1>1, <1>2 DEF SentOK, AfterPublish, stream
<1>9. /\ k \in Nat /\ k > 0 /\ j = k
      /\ Cut(f, k - 1) + batch[f] = Cut(f, k)
  BY <1>1, CutAdds DEF FileInv, CutsOK, SentOK, WithBatch, AfterPublish, TypeOK
<1>10. RowOK(f, j)'
  <2>1. CASE processes[f].status = "absent"
    BY <1>4, <2>1 DEF RowOK
  <2>2. CASE processes[f].status # "absent"
    <3>1. /\ processes[f].batches = k - 1 /\ current[f].batches = k - 1
          /\ current[f].records = Cut(f, k - 1)
          /\ processes[f].status \notin {"COMPLETADO", "ERROR"}
      BY <1>1, <1>9, <2>2 DEF RowOK
    <3>2. /\ processes'[f].batches = k /\ processes'[f].records = Cut(f, k)
          /\ processes'[f].status = processes[f].status
      BY <1>4, <1>9, <2>2, <3>1 DEF TypeOK, ProcessRows
    <3>. QED  BY <1>1, <1>9, <3>1, <3>2 DEF RowOK, Cut
  <2>. QED  BY <2>1, <2>2
<1>11. FileInv(f)'
  BY <1>2, <1>6, <1>7, <1>8, <1>10 DEF FileInv, Of, Tiles, Tile
<1>12. \A g \in Files \ {f} : Same(g)
  BY <1>1, <1>2, <1>4 DEF Same, Of, stream
<1>. QED  BY <1>5, <1>11, <1>12

LEMMA CompleteKeeps ==
    ASSUME TypeOK, NEW f \in Files, FileInv(f), Complete(f)
    PROVE  TypeOK' /\ FileInv(f)' /\ \A g \in Files \ {f} : Same(g)
<1>. PICK j \in Nat, r \in Nat :
          /\ Of(f, published) = Tiles(f, j)
          /\ f \notin deleted => Of(f, batches) = Tiles(f, r)
          /\ SentOK(f, j, r)
          /\ RowOK(f, j)
  BY DEF FileInv
<1>. PICK k \in Nat : k = batchIndex[f]
  BY DEF TypeOK
<1>. DEFINE row == [status |-> "COMPLETADO", records |-> read[f], batches |-> k]
<1>1. /\ pc[f] = "complete" /\ pc'[f] \in {"answered", "catch"}
      /\ pc' \in [Files -> Controls] /\ faults' \in 0 .. MaxFaults
      /\ \A g \in Files \ {f} : pc'[g] = pc[g]
  BY GoToTarget DEF Complete, Controls, Ended, InTry
<1>2. /\ processes' = update(f, row)
      /\ UNCHANGED <<batches, published, stream, current, deleted>>
  BY DEF Complete, markCompleted
<1>3. row \in ProcessRows
  BY DEF TypeOK, ProcessRows, Statuses
<1>4. /\ processes' \in [Files -> ProcessRows]
      /\ processes'[f] = IF processes[f].status = "absent" THEN processes[f] ELSE row
      /\ \A g \in Files \ {f} : processes'[g] = processes[g]
  BY <1>2, <1>3, UpdateRow
<1>5. TypeOK'
  BY <1>1, <1>2, <1>4 DEF TypeOK, stream
<1>6. CutsOK(f)'
  BY <1>1, <1>2 DEF FileInv, CutsOK, Cut, Tile, Unstarted, WithBatch, stream
<1>7. LifeOK(f)'
  BY <1>1, <1>2, <1>4 DEF FileInv, LifeOK, AbsentProcess
<1>8. SentOK(f, j, r)'
  BY <1>1, <1>2 DEF SentOK, AfterPublish, stream
<1>9. j = k /\ read[f] = Cut(f, k) /\ read[f] = SizeOf[f]
  BY <1>1 DEF FileInv, CutsOK, SentOK, AfterPublish
<1>10. RowOK(f, j)'
  BY <1>1, <1>2, <1>4, <1>9 DEF RowOK, Cut, stream
<1>11. FileInv(f)'
  BY <1>2, <1>6, <1>7, <1>8, <1>10 DEF FileInv, Of, Tiles, Tile
<1>12. \A g \in Files \ {f} : Same(g)
  BY <1>1, <1>2, <1>4 DEF Same, Of, stream
<1>. QED  BY <1>5, <1>11, <1>12

LEMMA CatchKeeps ==
    ASSUME TypeOK, NEW f \in Files, FileInv(f), Catch(f)
    PROVE  TypeOK' /\ FileInv(f)' /\ \A g \in Files \ {f} : Same(g)
<1>. PICK j \in Nat, r \in Nat :
          /\ Of(f, published) = Tiles(f, j)
          /\ f \notin deleted => Of(f, batches) = Tiles(f, r)
          /\ SentOK(f, j, r)
          /\ RowOK(f, j)
  BY DEF FileInv
<1>. DEFINE row == [processes[f] EXCEPT !.status = "ERROR"]
<1>1. /\ pc[f] = "catch" /\ pc'[f] = "failed"
      /\ \A g \in Files \ {f} : pc'[g] = pc[g]
      /\ processes' = update(f, row)
      /\ UNCHANGED <<batches, published, stream, current, deleted, faults>>
  BY DEF Catch, markError, TypeOK
<1>2. row \in ProcessRows /\ row.status = "ERROR"
      /\ row.batches = processes[f].batches /\ row.records = processes[f].records
  BY DEF TypeOK, ProcessRows, Statuses
<1>3. /\ processes' \in [Files -> ProcessRows]
      /\ processes'[f] = IF processes[f].status = "absent" THEN processes[f] ELSE row
      /\ \A g \in Files \ {f} : processes'[g] = processes[g]
  BY <1>1, <1>2, UpdateRow
<1>4. TypeOK'
  BY <1>1, <1>3 DEF Catch, TypeOK, Controls, Ended, stream
<1>5. CutsOK(f)'
  BY <1>1 DEF FileInv, CutsOK, Cut, Tile, Unstarted, WithBatch, stream
<1>6. LifeOK(f)'
  BY <1>1, <1>3 DEF FileInv, LifeOK, AbsentProcess
<1>7. SentOK(f, j, r)'
  BY <1>1 DEF SentOK, AfterPublish, stream
<1>8. RowOK(f, j)'
  BY <1>1, <1>2, <1>3 DEF RowOK, Cut, Counted, stream
<1>9. FileInv(f)'
  BY <1>1, <1>5, <1>6, <1>7, <1>8 DEF FileInv, Of, Tiles, Tile
<1>10. \A g \in Files \ {f} : Same(g)
  BY <1>1, <1>3 DEF Same, Of, stream
<1>. QED  BY <1>4, <1>9, <1>10

LEMMA CallFailsKeeps ==
    ASSUME TypeOK, NEW f \in Files, FileInv(f), CallFails(f)
    PROVE  TypeOK' /\ FileInv(f)' /\ \A g \in Files \ {f} : Same(g)
<1>. PICK j \in Nat, r \in Nat :
          /\ Of(f, published) = Tiles(f, j)
          /\ f \notin deleted => Of(f, batches) = Tiles(f, r)
          /\ SentOK(f, j, r)
          /\ RowOK(f, j)
  BY DEF FileInv
<1>1. /\ pc[f] \in Running \ {"config", "stream"}
      /\ pc'[f] \in {"catch", "failed"} /\ (pc'[f] = "catch" => pc[f] \in InTry)
      /\ pc' \in [Files -> Controls]
      /\ \A g \in Files \ {f} : pc'[g] = pc[g]
      /\ UNCHANGED <<processes, batches, published, stream, current, deleted>>
  BY ThrowTarget DEF CallFails
<1>2. faults' \in 0 .. MaxFaults
  BY IngestorAssumption DEF CallFails, TypeOK
<1>3. TypeOK'
  BY <1>1, <1>2 DEF TypeOK, stream
<1>4. CutsOK(f)' /\ LifeOK(f)'
  BY <1>1 DEF FileInv, CutsOK, LifeOK, Cut, Tile, Unstarted, WithBatch, stream
<1>5. SentOK(f, j, r)'
  BY <1>1 DEF SentOK, AfterPublish, stream
<1>6. RowOK(f, j)'
  BY <1>1 DEF RowOK, Running, InTry, Cut, Counted, stream
<1>7. FileInv(f)'
  BY <1>1, <1>4, <1>5, <1>6 DEF FileInv, Of, Tiles, Tile
<1>8. \A g \in Files \ {f} : Same(g)
  BY <1>1 DEF Same, Of, stream
<1>. QED  BY <1>3, <1>7, <1>8

LEMMA DeleteProcessKeeps ==
    ASSUME TypeOK, NEW f \in Files, FileInv(f), DeleteProcess(f)
    PROVE  TypeOK' /\ FileInv(f)' /\ \A g \in Files \ {f} : Same(g)
<1>. PICK j \in Nat, r \in Nat :
          /\ Of(f, published) = Tiles(f, j)
          /\ f \notin deleted => Of(f, batches) = Tiles(f, r)
          /\ SentOK(f, j, r)
          /\ RowOK(f, j)
  BY DEF FileInv
<1>1. /\ processes[f].status # "absent"
      /\ processes'[f] = AbsentProcess
      /\ \A g \in Files \ {f} : processes'[g] = processes[g]
      /\ batches' = {b \in batches : b[1] # f}
      /\ deleted' = deleted \union {f}
      /\ UNCHANGED <<published, pc, stream, current, faults>>
  BY DEF DeleteProcess, TypeOK
<1>2. TypeOK'
  <2>1. processes' \in [Files -> ProcessRows]
    BY AbsentIsRow DEF DeleteProcess, TypeOK
  <2>. QED  BY <1>1, <2>1 DEF TypeOK, stream
<1>3. CutsOK(f)'
  BY <1>1 DEF FileInv, CutsOK, Cut, Tile, Unstarted, WithBatch, stream
<1>4. LifeOK(f)'
  BY <1>1 DEF FileInv, LifeOK
<1>5. SentOK(f, j, r)'
  BY <1>1 DEF SentOK, AfterPublish, stream
<1>6. RowOK(f, j)'
  BY <1>1 DEF RowOK, AbsentProcess
<1>7. FileInv(f)'
  BY <1>1, <1>3, <1>4, <1>5, <1>6 DEF FileInv, Of, Tiles, Tile
<1>8. \A g \in Files \ {f} : Of(g, batches)' = Of(g, batches)
  BY <1>1 DEF Of
<1>9. \A g \in Files \ {f} : Same(g)
  BY <1>1, <1>8 DEF Same, Of, stream
<1>. QED  BY <1>2, <1>7, <1>9

LEMMA CrashKeeps ==
    ASSUME TypeOK, NEW f \in Files, FileInv(f), Crash
    PROVE  TypeOK' /\ FileInv(f)'
<1>. PICK j \in Nat, r \in Nat :
          /\ Of(f, published) = Tiles(f, j)
          /\ f \notin deleted => Of(f, batches) = Tiles(f, r)
          /\ SentOK(f, j, r)
          /\ RowOK(f, j)
  BY DEF FileInv
<1>1. /\ pc'[f] = IF pc[f] \in Running THEN "dead" ELSE pc[f]
      /\ UNCHANGED <<processes, batches, published, stream, current, deleted>>
  BY DEF Crash
<1>2. TypeOK'
  BY IngestorAssumption DEF Crash, TypeOK, Controls, Ended, stream
<1>3. CutsOK(f)' /\ LifeOK(f)'
  BY <1>1 DEF FileInv, CutsOK, LifeOK, Cut, Tile, Unstarted, WithBatch, stream
<1>4. SentOK(f, j, r)'
  BY <1>1 DEF SentOK, AfterPublish, stream
<1>5. RowOK(f, j)'
  BY <1>1 DEF RowOK, Running, InTry, Cut, Counted, stream
<1>6. FileInv(f)'
  BY <1>1, <1>3, <1>4, <1>5 DEF FileInv, Of, Tiles, Tile
<1>. QED  BY <1>2, <1>6

-----------------------------------------------------------------------------
(* The invariant *)

LEMMA InitEstablishes == Init => IInv
<1>. SUFFICES ASSUME Init
              PROVE  IInv
  OBVIOUS
<1>1. TypeOK
  BY AbsentIsRow, IngestorAssumption DEF Init, TypeOK, Controls
<1>2. ASSUME NEW f \in Files
      PROVE  FileInv(f)
  <2>1. CutsOK(f)
    BY CutNothing, Sizes DEF Init, CutsOK, WithBatch
  <2>2. LifeOK(f)
    BY DEF Init, LifeOK, AbsentProcess
  <2>3. SentOK(f, 0, 0) /\ RowOK(f, 0)
    BY DEF Init, SentOK, RowOK, AbsentProcess, AfterPublish
  <2>4. Of(f, published) = Tiles(f, 0) /\ Of(f, batches) = Tiles(f, 0)
    BY NoTiles DEF Init, Of
  <2>. QED  BY <2>1, <2>2, <2>3, <2>4 DEF FileInv
<1>. QED  BY <1>1, <1>2 DEF IInv

\* Every step but a crash is a step of one upload.
ActionOf(f) ==
    \/ Request(f) \/ CreateProcess(f) \/ CheckConfig(f) \/ Stream(f)
    \/ CreateBatch(f) \/ PublishBatch(f) \/ ReadProgress(f) \/ SaveProgress(f)
    \/ Complete(f) \/ Catch(f) \/ CallFails(f) \/ DeleteProcess(f)

LEMMA NextIsLocal == Next <=> Crash \/ \E f \in Files : ActionOf(f)
BY DEF Next, Step, ActionOf

LEMMA ActionKeeps ==
    ASSUME TypeOK, NEW f \in Files, FileInv(f), ActionOf(f)
    PROVE  TypeOK' /\ FileInv(f)' /\ \A g \in Files \ {f} : Same(g)
BY RequestKeeps, CreateProcessKeeps, CheckConfigKeeps, StreamKeeps, CreateBatchKeeps,
   PublishBatchKeeps, ReadProgressKeeps, SaveProgressKeeps, CompleteKeeps, CatchKeeps,
   CallFailsKeeps, DeleteProcessKeeps DEF ActionOf

LEMMA NextPreserves == IInv /\ [Next]_vars => IInv'
<1>. SUFFICES ASSUME IInv, [Next]_vars
              PROVE  IInv'
  OBVIOUS
<1>1. ASSUME NEW f \in Files, ActionOf(f)
      PROVE  IInv'
  <2>1. TypeOK' /\ FileInv(f)' /\ \A g \in Files \ {f} : Same(g)
    BY <1>1, ActionKeeps DEF IInv
  <2>2. \A g \in Files \ {f} : FileInv(g)'
    BY <2>1, SameKeeps DEF IInv
  <2>. QED  BY <2>1, <2>2 DEF IInv
<1>2. CASE Crash
  <2>1. \A f \in Files : TypeOK' /\ FileInv(f)'
    BY <1>2, CrashKeeps DEF IInv
  <2>2. Files # {}
    BY <1>2 DEF Crash
  <2>. QED  BY <2>1, <2>2 DEF IInv
<1>3. CASE UNCHANGED vars
  <2>1. TypeOK'
    BY <1>3 DEF vars, stream, IInv, TypeOK
  <2>2. \A f \in Files : Same(f)
    BY <1>3 DEF vars, stream, Same, Of
  <2>3. \A f \in Files : FileInv(f)'
    BY <2>2, SameKeeps DEF IInv
  <2>. QED  BY <2>1, <2>3 DEF IInv
<1>. QED  BY <1>1, <1>2, <1>3, NextIsLocal

LEMMA InvariantHolds == Spec => []IInv
BY InitEstablishes, NextPreserves, PTL DEF Spec

\* The part of the invariant the theorems use: j batches published, r registered.
LEMMA Sent ==
    ASSUME IInv, NEW f \in Files
    PROVE  \E j, r \in Nat :
              /\ Of(f, published) = Tiles(f, j) /\ Cardinality(Of(f, published)) = j
              /\ f \notin deleted => /\ Of(f, batches) = Tiles(f, r)
                                     /\ Cardinality(Of(f, batches)) = r
              /\ SentOK(f, j, r)
              /\ RowOK(f, j)
BY TilesCount DEF IInv, FileInv

-----------------------------------------------------------------------------
(* The theorems *)

\* Every variable keeps its type.
THEOREM TypesHold == Spec => []TypeOK
<1>1. IInv => TypeOK
  BY DEF IInv
<1>. QED  BY <1>1, InvariantHolds, PTL

\* Published batches tile the file from its start, whatever fails on the way: no
\* number is skipped or taken twice, and only the last batch of a file is short.
THEOREM BatchesAlwaysTile == Spec => []BatchesTileTheFile
<1>1. IInv => BatchesTileTheFile
  <2>. SUFFICES ASSUME IInv, NEW f \in Files
                PROVE  /\ Indices(f, published) = 1 .. Cardinality(Of(f, published))
                       /\ \A b \in Of(f, published) :
                             b[3] = MinOf(BatchSize, SizeOf[f] - BatchSize * (b[2] - 1))
    BY DEF BatchesTileTheFile
  <2>1. PICK j \in Nat : /\ Of(f, published) = Tiles(f, j)
                         /\ Cardinality(Of(f, published)) = j
    BY Sent
  <2>2. \A b \in Tiles(f, j) : b[3] = Tile(f, b[2])
    BY DEF Tiles
  <2>3. {b[2] : b \in Tiles(f, j)} = 1 .. j
    <3>1. \A b \in Tiles(f, j) : b[2] \in 1 .. j
      BY DEF Tiles
    <3>2. ASSUME NEW i \in 1 .. j
          PROVE  \E b \in Tiles(f, j) : b[2] = i
      <4>1. <<f, i, Tile(f, i)>> \in Tiles(f, j)
        BY DEF Tiles
      <4>. QED  BY <4>1
    <3>. QED  BY <3>1, <3>2
  <2>. QED  BY <2>1, <2>2, <2>3 DEF Indices, Tile
<1>. QED  BY <1>1, InvariantHolds, PTL

\* What a worker is sent has its row in file_process_batches, and at most one row
\* is there for a batch nobody is sent, until the BFF deletes the process.
THEOREM PublishedAlwaysRegistered == Spec => []PublishedIsRegistered
<1>1. IInv => PublishedIsRegistered
  <2>. SUFFICES ASSUME IInv, NEW f \in Files \ deleted
                PROVE  /\ published \intersect Of(f, batches) = Of(f, published)
                       /\ Cardinality(Of(f, batches)) - Cardinality(Of(f, published)) \in {0, 1}
    BY DEF PublishedIsRegistered
  <2>1. PICK j \in Nat, r \in Nat :
              /\ Of(f, published) = Tiles(f, j) /\ Cardinality(Of(f, published)) = j
              /\ Of(f, batches) = Tiles(f, r) /\ Cardinality(Of(f, batches)) = r
              /\ SentOK(f, j, r)
    BY Sent
  <2>2. j <= r /\ r <= j + 1
    BY <2>1 DEF SentOK, IInv, TypeOK
  <2>3. Tiles(f, j) \subseteq Tiles(f, r)
    BY <2>2 DEF Tiles
  <2>4. published \intersect Of(f, batches) \subseteq Of(f, published)
    BY DEF Of
  <2>5. Of(f, published) \subseteq published
    BY DEF Of
  <2>. QED  BY <2>1, <2>2, <2>3, <2>4, <2>5
<1>. QED  BY <1>1, InvariantHolds, PTL

\* COMPLETADO is only ever said of a file without a bad record, all of whose
\* records have been published, in as many batches as they need.
THEOREM CompletedIsAlwaysWhole == Spec => []CompletedIsWhole
<1>1. IInv => CompletedIsWhole
  <2>. SUFFICES ASSUME IInv, NEW f \in Files, processes[f].status = "COMPLETADO"
                PROVE  /\ BadAt[f] = 0
                       /\ processes[f].records = SizeOf[f]
                       /\ processes[f].batches = Cardinality(Of(f, published))
                       /\ (processes[f].batches - 1) * BatchSize < SizeOf[f]
                       /\ processes[f].batches * BatchSize >= SizeOf[f]
    BY DEF CompletedIsWhole
  <2>1. PICK j \in Nat, r \in Nat :
              /\ Cardinality(Of(f, published)) = j
              /\ SentOK(f, j, r)
              /\ RowOK(f, j)
    BY Sent
  <2>2. PICK k \in Nat : k = batchIndex[f]
    BY DEF IInv, TypeOK
  <2>3. /\ processes[f].batches = k /\ j = k
        /\ processes[f].records = Cut(f, k)
        /\ read[f] = SizeOf[f]
    BY <2>1, <2>2 DEF RowOK, SentOK
  <2>4. /\ read[f] = Cut(f, k)
        /\ k > 0 => BatchSize * (k - 1) < SizeOf[f]
        /\ BadAt[f] = 0 \/ read[f] < BadAt[f]
    BY <2>2 DEF IInv, FileInv, CutsOK
  <2>5. BadAt[f] = 0
    <3>1. BadAt[f] \in Nat /\ SizeOf[f] \in Nat /\ BadAt[f] <= SizeOf[f]
      BY Sizes
    <3>2. ~(SizeOf[f] < BadAt[f])
      BY <3>1
    <3>3. BadAt[f] = 0 \/ SizeOf[f] < BadAt[f]
      BY <2>3, <2>4
    <3>. QED  BY <3>2, <3>3
  <2>6. (k - 1) * BatchSize < SizeOf[f]
    <3>1. CASE k = 0
      BY <3>1, Sizes
    <3>2. CASE k > 0
      <4>1. (k - 1) * BatchSize = BatchSize * (k - 1)
        BY Sizes
      <4>. QED  BY <2>4, <3>2, <4>1
    <3>. QED  BY <3>1, <3>2
  <2>7. k * BatchSize >= SizeOf[f]
    <3>1. k * BatchSize = BatchSize * k /\ BatchSize * k \in Nat
      BY Sizes
    <3>2. Cut(f, k) <= BatchSize * k
      BY <3>1, Sizes DEF Cut, MinOf
    <3>. QED  BY <2>3, <2>4, <3>1, <3>2, Sizes
  <2>. QED  BY <2>1, <2>3, <2>4, <2>5, <2>6, <2>7
<1>. QED  BY <1>1, InvariantHolds, PTL

\* The counters of a row trail what has been published by at most the batch in
\* hand, through every fault and deletion.
THEOREM ProgressAlwaysLagsByOne == Spec => []ProgressLagsByOne
<1>1. IInv => ProgressLagsByOne
  <2>. SUFFICES ASSUME IInv, NEW f \in Files, processes[f].status # "absent"
                PROVE  /\ Cardinality(Of(f, published)) - processes[f].batches \in {0, 1}
                       /\ processes[f].records =
                             MinOf(SizeOf[f], BatchSize * processes[f].batches)
    BY DEF ProgressLagsByOne
  <2>1. PICK j \in Nat : Cardinality(Of(f, published)) = j /\ RowOK(f, j)
    BY Sent
  <2>2. processes[f].batches \in Nat
    BY DEF IInv, TypeOK, ProcessRows
  <2>. QED  BY <2>1, <2>2 DEF RowOK, Cut
<1>. QED  BY <1>1, InvariantHolds, PTL

\* A process that ended stays ended, and a deleted one deleted: no request writes to
\* a row after the row has said ERROR, or after it is gone.
THEOREM FinishedAlwaysStaysFinished == Spec => FinishedStaysFinished
<1>. DEFINE Stays(f) ==
        /\ processes[f].status = "ERROR" => processes'[f].status \in {"ERROR", "absent"}
        /\ processes[f].status = "COMPLETADO" =>
              processes'[f].status \in {"COMPLETADO", "ERROR", "absent"}
        /\ f \in deleted => processes'[f] = AbsentProcess
<1>1. ASSUME IInv, NEW f \in Files, processes'[f] = processes[f]
      PROVE  Stays(f)
  BY <1>1 DEF IInv, FileInv, LifeOK
<1>2. ASSUME IInv, NEW f \in Files, ActionOf(f)
      PROVE  Stays(f)
  <2>1. TypeOK /\ LifeOK(f)
    BY <1>2 DEF IInv, FileInv
  <2>2. PICK j \in Nat : RowOK(f, j)
    BY <1>2, Sent
  <2>3. CASE CreateProcess(f)
    BY <2>1, <2>3 DEF CreateProcess, LifeOK
  <2>4. CASE SaveProgress(f)
    <3>1. processes[f].status \notin {"ERROR", "COMPLETADO"}
      BY <2>2, <2>4 DEF SaveProgress, RowOK
    <3>2. f \in deleted => processes' = processes
      BY <2>1, <2>4 DEF SaveProgress, saveProgress, update, LifeOK, AbsentProcess
    <3>. QED  BY <2>1, <3>1, <3>2 DEF LifeOK
  <2>5. CASE Complete(f)
    <3>1. processes[f].status \notin {"ERROR", "COMPLETADO"}
      BY <2>2, <2>5 DEF Complete, RowOK
    <3>2. f \in deleted => processes' = processes
      BY <2>1, <2>5 DEF Complete, markCompleted, update, LifeOK, AbsentProcess
    <3>. QED  BY <2>1, <3>1, <3>2 DEF LifeOK
  <2>6. CASE Catch(f)
    <3>1. f \in deleted => processes' = processes
      BY <2>1, <2>6 DEF Catch, markError, update, LifeOK, AbsentProcess
    <3>2. processes[f].status # "absent" => processes'[f].status = "ERROR"
      BY <2>1, <2>6 DEF Catch, markError, update, TypeOK, ProcessRows
    <3>. QED  BY <2>1, <3>1, <3>2 DEF LifeOK
  <2>7. CASE DeleteProcess(f)
    BY <2>1, <2>7 DEF DeleteProcess, TypeOK, AbsentProcess
  <2>8. CASE \/ Request(f) \/ CheckConfig(f) \/ Stream(f) \/ CreateBatch(f)
             \/ PublishBatch(f) \/ ReadProgress(f) \/ CallFails(f)
    <3>1. processes' = processes
      BY <2>8 DEF Request, CheckConfig, Stream, CreateBatch, PublishBatch, ReadProgress,
                  CallFails
    <3>. QED  BY <1>1, <1>2, <3>1
  <2>. QED  BY <1>2, <2>3, <2>4, <2>5, <2>6, <2>7, <2>8 DEF ActionOf
<1>3. IInv /\ [Next]_vars => [\A f \in Files : Stays(f)]_vars
  <2>. SUFFICES ASSUME IInv, Next, NEW f \in Files
                PROVE  Stays(f)
    OBVIOUS
  <2>1. CASE Crash
    BY <1>1, <2>1 DEF Crash
  <2>2. ASSUME NEW g \in Files, ActionOf(g)
        PROVE  Stays(f)
    <3>1. CASE g = f
      BY <1>2, <2>2, <3>1
    <3>2. CASE g # f
      <4>1. processes'[f] = processes[f]
        BY <2>2, <3>2, ActionKeeps DEF IInv, Same
      <4>. QED  BY <1>1, <4>1
    <3>. QED  BY <3>1, <3>2
  <2>. QED  BY <2>1, <2>2, NextIsLocal
<1>. QED  BY <1>3, InvariantHolds, PTL DEF Spec, FinishedStaysFinished
=============================================================================
