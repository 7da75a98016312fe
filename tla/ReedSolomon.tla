----------------------------- MODULE ReedSolomon -----------------------------
(***************************************************************************)
(* The life of the bytes of one coded file: create_parity_shards           *)
(* (uploader.c) computes the parity shards, the farmers keep them, a       *)
(* download stores what it can get into the destination file, and          *)
(* recover_shards (downloader.c) repairs the rest with                     *)
(* reed_solomon_reconstruct (rs.c).                                        *)
(*                                                                         *)
(* A shard is a sequence of bytes as long as the code lets it be: the last *)
(* data shard ends with the file, parity shards have the shard size.  The  *)
(* encryption of the whole file before coding, and its decryption after    *)
(* recovery, are left out: the bytes here are the encrypted ones.          *)
(***************************************************************************)
EXTENDS GaloisField, FiniteSets

CONSTANTS
  Geometries,   \* [data, parity, block, total]: numbers of shards and bytes
  Bytes,        \* the bytes a file is made of
  Stale         \* the bytes a shard that could not be had leaves in the file

ASSUME GeometriesAssumption ==
  \A g \in Geometries :
    /\ g.data >= 1 /\ g.parity >= 1 /\ g.data + g.parity <= GF_SIZE + 1
    /\ (g.data - 1) * g.block < g.total /\ g.total <= g.data * g.block

ASSUME BytesAssumption == Bytes \subseteq Elements /\ Stale \subseteq Elements

VARIABLES
  geometry,     \* what reed_solomon_new is called with on both sides
  file,         \* the data shards of the uploader
  stored,       \* the shards as sent to farmers: data, then parity
  destination,  \* the shards in the destination file of the download
  missing,      \* shards given up: POINTER_MISSING
  fetched,      \* shards downloaded: POINTER_DOWNLOADED
  result        \* "none" until recover_shards returns its error status

vars == <<geometry, file, stored, destination, missing, fetched, result>>

-----------------------------------------------------------------------------
(* Matrices are functions of functions, rows and columns from 0.           *)

(* Wrong on purpose: rows and columns changed places. *)
VandermondeTransposed(nrows, ncols) ==
  [row \in 0..(nrows - 1) |-> [col \in 0..(ncols - 1) |-> galExp(col, row)]]

vandermonde(nrows, ncols) ==
  [row \in 0..(nrows - 1) |-> [col \in 0..(ncols - 1) |-> galExp(row, col)]]

sub_matrix(m, rmin, rmax) == [r \in 0..(rmax - rmin - 1) |-> m[r + rmin]]

(* The sum over i of a[i] times b[i], for i below n.                       *)
Dot(a, b, n) ==
  LET sum[i \in 0..n] ==
        IF i = 0 THEN 0 ELSE Plus(sum[i - 1], gf_mul(a[i - 1], b[i - 1]))
  IN sum[n]

multiply1(a, b, ar, ac, bc) ==
  [r \in 0..(ar - 1) |-> [c \in 0..(bc - 1) |->
     Dot(a[r], [i \in 0..(ac - 1) |-> b[i][c]], ac)]]

(* The pivot of a column: the diagonal if it will do, else the first       *)
(* element, row by row, outside the rows and columns already used.         *)
Pivots(m, used, col, k) ==
  IF col \notin used /\ m[col][col] # 0 THEN {<<col, col>>}
  ELSE {p \in ((0..(k - 1)) \ used) \X ((0..(k - 1)) \ used) : m[p[1]][p[2]] # 0}

FirstPivot(pivots) ==
  CHOOSE p \in pivots : \A q \in pivots : p[1] < q[1] \/ (p[1] = q[1] /\ p[2] <= q[2])

SwapRows(m, r, s) == [m EXCEPT ![r] = m[s], ![s] = m[r]]

SwapColumns(m, r, s, k) ==
  [i \in 0..(k - 1) |-> [m[i] EXCEPT ![r] = m[i][s], ![s] = m[i][r]]]

(* Scale the pivot row and clear the pivot's column in the others, with    *)
(* the inverse growing in place of the columns already done.               *)
Eliminate(m, p, k) ==
  LET c == inverse[m[p][p]]
      row == [ix \in 0..(k - 1) |-> gf_mul(c, IF ix = p THEN 1 ELSE m[p][ix])]
  IN [r \in 0..(k - 1) |->
        IF r = p THEN row
        ELSE [ix \in 0..(k - 1) |->
                Plus(IF ix = p THEN 0 ELSE m[r][ix], gf_mul(m[r][p], row[ix]))]]

(* Gauss-Jordan.  swaps are indxr and indxc; error is 1 when singular.     *)
invert_mat(src, k) ==
  LET reduced[n \in 0..k] ==
        IF n = 0 THEN [m |-> src, used |-> {}, swaps |-> <<>>, error |-> 0]
        ELSE LET s == reduced[n - 1]
                 pivots == Pivots(s.m, s.used, n - 1, k)
             IN IF s.error = 1 \/ pivots = {} THEN [s EXCEPT !.error = 1]
                ELSE LET p == FirstPivot(pivots)
                     IN [m |-> Eliminate(SwapRows(s.m, p[1], p[2]), p[2], k),
                         used |-> s.used \union {p[2]},
                         swaps |-> Append(s.swaps, p),
                         error |-> 0]
      unswapped[n \in 0..k] ==
        IF n = 0 THEN reduced[k].m
        ELSE LET p == reduced[k].swaps[k + 1 - n]
             IN IF p[1] = p[2] THEN unswapped[n - 1]
                ELSE SwapColumns(unswapped[n - 1], p[1], p[2], k)
  IN [m |-> IF reduced[k].error = 1 THEN reduced[k].m ELSE unswapped[k],
      error |-> reduced[k].error]

(* The coding matrix of reed_solomon_new: the data rows are the identity.  *)
(* rs->parity is the rest of it.                                           *)
CodingMatrix(ds, ps) ==
  LET vm == vandermonde(ds + ps, ds)
  IN multiply1(vm, invert_mat(sub_matrix(vm, 0, ds), ds).m, ds + ps, ds, ds)

Matrices == [g \in Geometries |-> CodingMatrix(g.data, g.parity)]

-----------------------------------------------------------------------------
(* One output of code_some_shards: mul by the first column, addmul by the  *)
(* others.  Both stop at the end of the shorter of input and output, and a *)
(* zero coefficient leaves the output as it was (mul's memset has length   *)
(* c, which is 0).                                                         *)
CodeShard(row, inputs, output, ds) ==
  [b \in DOMAIN output |->
     LET byte[n \in 0..ds] ==
           IF n = 0 THEN output[b]
           ELSE LET in == inputs[n]
                    c == row[n - 1]
                IN IF c = 0 \/ b > Len(in) THEN byte[n - 1]
                   ELSE IF n = 1 THEN gf_mul(c, in[b])
                   ELSE Plus(byte[n - 1], gf_mul(c, in[b]))
     IN byte[ds]]

code_some_shards(rows, inputs, outputs, ds) ==
  [i \in DOMAIN outputs |-> CodeShard(rows[i - 1], inputs, outputs[i], ds)]

Zeros(n) == [b \in 1..n |-> 0]

(* The members of a set of indexes below n, in order.                      *)
Sorted(S, n) ==
  LET upTo[i \in 0..n] ==
        IF i = 0 THEN <<>>
        ELSE IF i - 1 \in S THEN Append(upTo[i - 1], i - 1) ELSE upTo[i - 1]
  IN upTo[n]

(* How many bytes of data shard i the file has.                            *)
DataLength(g, i) == IF i < g.data - 1 THEN g.block ELSE g.total - i * g.block

(* The parity file is new and filled with zeros.                           *)
reed_solomon_encode(g, data) ==
  code_some_shards(sub_matrix(Matrices[g], g.data, g.data + g.parity),
                   data, [i \in 1..g.parity |-> Zeros(g.block)], g.data)

(* Wrong on purpose: the outputs are the first blocks. *)
DecodeIntoFirst(g, blocks, erased, fec) ==
  LET survivors == Sorted((0..(g.data - 1)) \ {erased[e] : e \in DOMAIN erased},
                          g.data) \o fec
      decode == invert_mat([r \in 0..(g.data - 1) |->
                              Matrices[g][survivors[r + 1]]], g.data).m
      coded == code_some_shards(
                 [i \in 0..(Len(erased) - 1) |-> decode[erased[i + 1]]],
                 [r \in 1..g.data |-> blocks[survivors[r]]],
                 [i \in DOMAIN erased |-> blocks[erased[i]]], g.data)
  IN [s \in DOMAIN blocks |-> IF s < Len(coded) THEN coded[s + 1] ELSE blocks[s]]

(* blocks are all the shards of the destination, erased the data shards to *)
(* repair, fec the parity rows to repair them from.                        *)
reed_solomon_decode(g, blocks, erased, fec) ==
  LET survivors == Sorted((0..(g.data - 1)) \ {erased[e] : e \in DOMAIN erased},
                          g.data) \o fec
      decode == invert_mat([r \in 0..(g.data - 1) |->
                              Matrices[g][survivors[r + 1]]], g.data).m
      coded == code_some_shards(
                 [i \in 0..(Len(erased) - 1) |-> decode[erased[i + 1]]],
                 [r \in 1..g.data |-> blocks[survivors[r]]],
                 [i \in DOMAIN erased |-> blocks[erased[i]]], g.data)
  IN [s \in DOMAIN blocks |->
        IF \E i \in DOMAIN erased : erased[i] = s
        THEN coded[CHOOSE i \in DOMAIN erased : erased[i] = s]
        ELSE blocks[s]]

(* marks are the missing shards; as many valid parity rows are taken as    *)
(* data shards are missing.                                                *)
reed_solomon_reconstruct(g, blocks, marks) ==
  LET erased == Sorted(marks \intersect 0..(g.data - 1), g.data)
      valid == Sorted((g.data..(g.data + g.parity - 1)) \ marks, g.data + g.parity)
  IN CASE Len(erased) = 0 -> [blocks |-> blocks, error |-> 0]
       [] Len(erased) > 0 /\ Len(valid) >= Len(erased) ->
            [blocks |-> reed_solomon_decode(g, blocks, erased,
                                            SubSeq(valid, 1, Len(erased))),
             error |-> 0]
       [] OTHER -> [blocks |-> blocks, error |-> 1]

-----------------------------------------------------------------------------
Shards == 0..(geometry.data + geometry.parity - 1)
DataShards == 0..(geometry.data - 1)

ShardLength(g, s) == IF s < g.data THEN DataLength(g, s) ELSE g.block

(* The contents a file of a geometry may have, as its data shards. *)
FilesOf(g) ==
  {f \in [1..g.data -> UNION {[1..DataLength(g, i) -> Bytes] : i \in 0..(g.data - 1)}] :
     \A i \in 1..g.data : Len(f[i]) = DataLength(g, i - 1)}

(* The destination starts empty, and a region nobody writes reads as zero  *)
(* once recover_shards has extended the file.                              *)
Untouched(g) == [s \in 0..(g.data + g.parity - 1) |-> Zeros(ShardLength(g, s))]

Init ==
  /\ geometry \in Geometries
  /\ file \in FilesOf(geometry)
  /\ stored = <<>>
  /\ destination = Untouched(geometry)
  /\ missing = {}
  /\ fetched = {}
  /\ result = "none"

CreateParityShards ==
  /\ stored = <<>>
  /\ stored' = file \o reed_solomon_encode(geometry, file)
  /\ UNCHANGED <<geometry, file, destination, missing, fetched, result>>

(* body_shard_receive has written a whole shard, and its hash was right.   *)
FetchShard(s) ==
  /\ stored # <<>>
  /\ s \notin missing \union fetched
  /\ destination' = [destination EXCEPT ![s] = stored[s + 1]]
  /\ fetched' = fetched \union {s}
  /\ UNCHANGED <<geometry, file, stored, missing, result>>

(* The replacements are used up.  What body_shard_receive wrote of failed  *)
(* attempts stays in the file.                                             *)
GiveUpShard(s) ==
  /\ stored # <<>>
  /\ s \notin missing \union fetched
  /\ \E left \in [1..ShardLength(geometry, s) -> Stale] :
       destination' = [destination EXCEPT ![s] = left]
  /\ missing' = missing \union {s}
  /\ UNCHANGED <<geometry, file, stored, fetched, result>>

(* Wrong on purpose: the parity shards count as well. *)
ReceivedWithParity ==
  LET length[n \in 0..Len(stored)] ==
        IF n = 0 THEN 0 ELSE length[n - 1] + Len(stored[n])
  IN [data |-> Len(stored) - geometry.parity, parity |-> geometry.parity,
      block |-> Len(stored[1]), total |-> length[Len(stored)]]

(* The code as the download knows it, from the list of pointers: their     *)
(* number, the parity flags, the size of the first of them, and the sum of *)
(* the sizes of those that are not parity.                                 *)
Received ==
  LET data == Len(stored) - geometry.parity
      length[n \in 0..data] == IF n = 0 THEN 0 ELSE length[n - 1] + Len(stored[n])
  IN [data |-> data, parity |-> geometry.parity,
      block |-> Len(stored[1]), total |-> length[data]]

(* can_recover_shards let it through, and every pointer is ready.          *)
Recoverable ==
  /\ stored # <<>>
  /\ missing \union fetched = Shards
  /\ Cardinality(missing) <= geometry.parity

recover_shards ==
  /\ Recoverable
  /\ result = "none"
  /\ LET r == IF missing = {} THEN [blocks |-> destination, error |-> 0]
              ELSE reed_solomon_reconstruct(Received, destination, missing)
     IN /\ destination' = r.blocks
        /\ result' = IF r.error = 0 THEN "ok" ELSE "STORJ_FILE_RECOVER_ERROR"
  /\ UNCHANGED <<geometry, file, stored, missing, fetched>>

Next ==
  \/ CreateParityShards
  \/ \E s \in Shards : FetchShard(s) \/ GiveUpShard(s)
  \/ recover_shards

Spec == Init /\ [][Next]_vars

-----------------------------------------------------------------------------
TypeOK ==
  /\ geometry \in Geometries
  /\ missing \subseteq Shards /\ fetched \subseteq Shards
  /\ \A s \in Shards : /\ Len(destination[s]) = ShardLength(geometry, s)
                       /\ \A b \in DOMAIN destination[s] : destination[s][b] \in Elements
  /\ result \in {"none", "ok", "STORJ_FILE_RECOVER_ERROR"}

(* What recover_shards accepts it can repair: with no more shards missing  *)
(* than there are parity shards, reed_solomon_reconstruct never fails      *)
(* (rs.c's dn = pn).                                                       *)
AcceptedIsRecovered == result # "STORJ_FILE_RECOVER_ERROR"

(* "Will repair missing data in blocks ... and 0 on success" (rs.h): after *)
(* a successful recovery the data shards in the destination are the        *)
(* uploader's, whichever shards were missing and whatever was left in      *)
(* their place.                                                            *)
RepairsMissingData ==
  result = "ok" => \A i \in DataShards : destination[i] = file[i + 1]

(* The one exception is the first survivor: when it is the last data shard *)
(* and shorter than the shard size, mul does not overwrite the bytes past  *)
(* its end, and what failed attempts left there is added to.               *)
StaleTailStays ==
  LET last == geometry.data - 1
  IN /\ DataShards \ missing = {last}
     /\ \E s \in DataShards \ {last}, b \in 1..geometry.block :
          b > DataLength(geometry, last) /\ destination[s][b] # 0

RepairsButForTail ==
  result = "none" /\ result' = "ok" /\ ~StaleTailStays =>
    \A i \in DataShards : destination'[i] = file[i + 1]

FetchedStay == \A s \in fetched : destination'[s] = destination[s]

(* With any other first survivor, or with zeros there, the bytes of failed *)
(* attempts do no harm: recovery leaves the uploader's data shards.  And   *)
(* no step writes to a shard that was fetched.                             *)
RepairsOverStaleBytes == [][RepairsButForTail /\ FetchedStay]_vars

(* The two ends never tell each other the geometry of the code: the        *)
(* uploader cuts a file of a size it knows, the downloader counts pointers *)
(* and takes the size of the first for that of all.                        *)
GeometriesAgree == stored # <<>> => Received = geometry

(* The coding matrix tells the data shards apart from any data-many rows:  *)
(* whichever parity shards are lost, the decode matrix is never singular   *)
(* (reed_solomon_decode ignores what invert_mat returns).                  *)
AnyRowsSuffice ==
  result # "none" =>
    LET g == geometry
        rows == Sorted(Shards \ missing, g.data + g.parity)
    IN invert_mat([r \in 0..(g.data - 1) |-> Matrices[g][rows[r + 1]]], g.data).error = 0

=============================================================================
