----------------------------- MODULE IpcProofs ------------------------------
(***************************************************************************)
(* What programs share: shared memory is counted exactly, the ring of a    *)
(* pipe implements the channel Fifo, a terminal wakes its readers and      *)
(* keeps its jobs apart.  For any number of tasks, processes, job rows,    *)
(* regions and pages and for any size of the rings.                        *)
(***************************************************************************)
EXTENDS Pipe, Terminal, Shmem, Induction

\* What a sum is, for all the numbers of terms up to n.
Sums(f, n, s) == s \in [0 .. n -> Nat] /\ s[0] = 0 /\ \A k \in 1 .. n : s[k] = s[k - 1] + f[k]

\* The sum over the tasks or the regions is what the loop that adds them computes.
LEMMA TotalSums ==
    ASSUME NEW n \in Nat, NEW f \in [1 .. n -> Nat]
    PROVE  \E s : Sums(f, n, s) /\ Total(f, n) = s[n]
  <1> DEFINE F == [k \in 1 .. n |-> [v \in Nat |-> v + f[k]]]
             Is(s) == s = [k \in 0 .. n |-> IF k = 0 THEN 0 ELSE s[k - 1] + f[k]]
             sum == CHOOSE s : Is(s)
             zero == 0
  <1>1. Total(f, n) = sum[n] BY DEF Total
  <1>2. F \in [1 .. n -> [Nat -> Nat]] OBVIOUS
  <1>3. \A k \in 1 .. n : \A v \in Nat : F[k][v] = v + f[k] OBVIOUS
  <1>4. zero \in Nat OBVIOUS
  <1> HIDE DEF F, zero, sum
  <1>5. PICK s : Iterates(s, n, Nat, zero, F) BY Zenon, <1>2, <1>4, Iteration
  <1>6. s \in [0 .. n -> Nat] /\ s[0] = 0 /\ \A k \in 1 .. n : s[k] = F[k][s[k - 1]]
    BY Zenon, <1>5 DEF Iterates, zero
  <1>7. \A k \in 1 .. n : s[k] = s[k - 1] + f[k]
    <2> SUFFICES ASSUME NEW k \in 1 .. n PROVE s[k] = s[k - 1] + f[k] OBVIOUS
    <2>1. s[k - 1] \in Nat BY <1>6
    <2> QED BY Zenon, <1>3, <1>6, <2>1
  <1>8. Is(s)
    <2> DEFINE g == [k \in 0 .. n |-> IF k = 0 THEN 0 ELSE s[k - 1] + f[k]]
    <2>1. \A k \in 0 .. n : s[k] = g[k] BY <1>6, <1>7
    <2>2. s = [k \in 0 .. n |-> s[k]] BY <1>6
    <2>3. g = [k \in 0 .. n |-> g[k]] OBVIOUS
    <2> HIDE DEF g
    <2>4. s = g BY <2>1, <2>2, <2>3
    <2> QED BY Zenon, <2>4 DEF g
  <1>9. Is(sum) BY Zenon, <1>8 DEF sum
  <1>10. /\ sum = [k \in 0 .. n |-> sum[k]]
         /\ \A k \in 0 .. n : sum[k] = IF k = 0 THEN 0 ELSE sum[k - 1] + f[k]
    <2> DEFINE g == [k \in 0 .. n |-> IF k = 0 THEN 0 ELSE sum[k - 1] + f[k]]
    <2>1. sum = g BY Zenon, <1>9
    <2>2. g = [k \in 0 .. n |-> g[k]] OBVIOUS
    <2>3. \A k \in 0 .. n : g[k] = IF k = 0 THEN 0 ELSE sum[k - 1] + f[k] OBVIOUS
    <2> HIDE DEF g
    <2> QED BY Zenon, <2>1, <2>2, <2>3
  <1>17. \A k \in 1 .. n : k \in 0 .. n /\ k # 0 OBVIOUS
  <1>18. 0 \in 0 .. n OBVIOUS
  <1>19. sum[0] = 0 /\ \A k \in 1 .. n : sum[k] = sum[k - 1] + f[k] BY Zenon, <1>10, <1>17, <1>18
  <1> DEFINE S == {k \in 0 .. n : sum[k] \in Nat}
  <1>11. 0 \in S BY <1>19
  <1>12. \A k \in 0 .. (n - 1) : k \in S => k + 1 \in S
    <2> SUFFICES ASSUME NEW k \in 0 .. (n - 1), k \in S PROVE k + 1 \in S OBVIOUS
    <2>1. k + 1 \in 1 .. n /\ (k + 1) - 1 = k OBVIOUS
    <2>2. sum[k + 1] = sum[(k + 1) - 1] + f[k + 1] BY Zenon, <1>19, <2>1
    <2> QED BY <2>1, <2>2
  <1> HIDE DEF S
  <1>13. 0 .. n \subseteq S BY Zenon, <1>11, <1>12, SetInduction
  <1>14. \A k \in 0 .. n : sum[k] \in Nat BY <1>13 DEF S
  <1>15. sum \in [0 .. n -> Nat] BY <1>10, <1>14
  <1>16. Sums(f, n, sum) BY Zenon, <1>19, <1>15 DEF Sums
  <1> QED BY Zenon, <1>1, <1>16

\* The terms of h are those of f and g together.
Added(f, g, h, n) == \A i \in 1 .. n : h[i] = f[i] + g[i]

\* Sums of terms that are added are added.
LEMMA TotalAdds ==
    ASSUME NEW n \in Nat, NEW f \in [1 .. n -> Nat], NEW g \in [1 .. n -> Nat], NEW h \in [1 .. n -> Nat],
           Added(f, g, h, n)
    PROVE  /\ Total(f, n) \in Nat /\ Total(g, n) \in Nat
           /\ Total(h, n) = Total(f, n) + Total(g, n)
  <1>1. PICK a : Sums(f, n, a) /\ Total(f, n) = a[n] BY Zenon, TotalSums
  <1>2. PICK b : Sums(g, n, b) /\ Total(g, n) = b[n] BY Zenon, TotalSums
  <1>3. PICK c : Sums(h, n, c) /\ Total(h, n) = c[n] BY Zenon, TotalSums
  <1> DEFINE S == {k \in 0 .. n : c[k] = a[k] + b[k]}
  <1>0. a[0] = 0 /\ b[0] = 0 /\ c[0] = 0 BY Zenon, <1>1, <1>2, <1>3 DEF Sums
  <1>4. 0 \in S BY <1>0
  <1>5. \A k \in 0 .. (n - 1) : k \in S => k + 1 \in S
    <2> SUFFICES ASSUME NEW k \in 0 .. (n - 1), k \in S PROVE k + 1 \in S OBVIOUS
    <2>1. k + 1 \in 1 .. n /\ (k + 1) - 1 = k /\ k \in 0 .. n OBVIOUS
    <2>2. a[k + 1] = a[k] + f[k + 1] /\ a[k] \in Nat BY <1>1, <2>1 DEF Sums
    <2>3. b[k + 1] = b[k] + g[k + 1] /\ b[k] \in Nat BY <1>2, <2>1 DEF Sums
    <2>4. c[k + 1] = c[k] + h[k + 1] /\ c[k] \in Nat /\ h[k + 1] \in Nat BY <1>3, <2>1 DEF Sums
    <2>5. h[k + 1] = f[k + 1] + g[k + 1] /\ f[k + 1] \in Nat /\ g[k + 1] \in Nat BY <2>1 DEF Added
    <2>6. c[k] = a[k] + b[k] OBVIOUS
    <2>7. k + 1 \in 0 .. n BY <2>1
    <2> DEFINE ak == a[k]  bk == b[k]  fk == f[k + 1]  gk == g[k + 1]
    <2>8. ak \in Nat /\ bk \in Nat /\ fk \in Nat /\ gk \in Nat BY Zenon, <2>2, <2>3, <2>5
    <2>9. c[k + 1] = (ak + bk) + (fk + gk) BY Zenon, <2>4, <2>5, <2>6
    <2>10. a[k + 1] + b[k + 1] = (ak + fk) + (bk + gk) BY Zenon, <2>2, <2>3
    <2> HIDE DEF ak, bk, fk, gk
    <2>11. (ak + bk) + (fk + gk) = (ak + fk) + (bk + gk) BY <2>8
    <2>12. c[k + 1] = a[k + 1] + b[k + 1] BY Zenon, <2>9, <2>10, <2>11
    <2> QED BY Zenon, <2>7, <2>12
  <1> HIDE DEF S
  <1>6. 0 .. n \subseteq S BY Zenon, <1>4, <1>5, SetInduction
  <1>7. c[n] = a[n] + b[n] BY <1>6 DEF S
  <1>8. a[n] \in Nat /\ b[n] \in Nat BY <1>1, <1>2 DEF Sums
  <1> QED BY <1>1, <1>2, <1>3, <1>7, <1>8

\* A sum with one term that is not 0 is that term.
LEMMA TotalOfOne ==
    ASSUME NEW n \in Nat, NEW j \in 1 .. n, NEW d \in Nat, NEW f \in [1 .. n -> Nat],
           \A i \in 1 .. n : f[i] = IF i = j THEN d ELSE 0
    PROVE  Total(f, n) = d
  <1>1. PICK a : Sums(f, n, a) /\ Total(f, n) = a[n] BY Zenon, TotalSums
  <1> DEFINE S == {k \in 0 .. n : a[k] = IF j <= k THEN d ELSE 0}
  <1>2. 0 \in S BY <1>1 DEF Sums
  <1>3. \A k \in 0 .. (n - 1) : k \in S => k + 1 \in S
    <2> SUFFICES ASSUME NEW k \in 0 .. (n - 1), k \in S PROVE k + 1 \in S OBVIOUS
    <2>1. k + 1 \in 1 .. n /\ (k + 1) - 1 = k OBVIOUS
    <2>2. a[k + 1] = a[k] + f[k + 1] BY <1>1, <2>1 DEF Sums
    <2>3. f[k + 1] = IF k + 1 = j THEN d ELSE 0 BY <2>1
    <2> QED BY <2>1, <2>2, <2>3
  <1> HIDE DEF S
  <1>4. 0 .. n \subseteq S BY Zenon, <1>2, <1>3, SetInduction
  <1>5. a[n] = d BY <1>4 DEF S
  <1> QED BY <1>1, <1>5

\* A sum in which every term is 0 is 0.
LEMMA TotalOfNone ==
    ASSUME NEW n \in Nat, NEW f \in [1 .. n -> Nat], \A i \in 1 .. n : f[i] = 0
    PROVE  Total(f, n) = 0
  <1>1. Added(f, f, f, n) BY DEF Added
  <1>2. Total(f, n) \in Nat /\ Total(f, n) = Total(f, n) + Total(f, n) BY Zenon, <1>1, TotalAdds
  <1> QED BY <1>2

\* Term j of h is larger by d than that of f.
Grown(f, h, n, j, d) == \A i \in 1 .. n : h[i] = IF i = j THEN f[i] + d ELSE f[i]

\* A sum in which one term grows by d grows by d.
LEMMA TotalGrows ==
    ASSUME NEW n \in Nat, NEW f \in [1 .. n -> Nat], NEW h \in [1 .. n -> Nat], NEW j \in 1 .. n, NEW d \in Nat,
           Grown(f, h, n, j, d)
    PROVE  Total(f, n) \in Nat /\ Total(h, n) = Total(f, n) + d
  <1> DEFINE g == [i \in 1 .. n |-> IF i = j THEN d ELSE 0]
  <1>1. g \in [1 .. n -> Nat] OBVIOUS
  <1>2. \A i \in 1 .. n : g[i] = IF i = j THEN d ELSE 0 OBVIOUS
  <1> HIDE DEF g
  <1>3. Added(f, g, h, n) BY <1>2 DEF Added, Grown
  <1>4. Total(g, n) = d BY Zenon, <1>1, <1>2, TotalOfOne
  <1>5. Total(f, n) \in Nat /\ Total(h, n) = Total(f, n) + Total(g, n) BY Zenon, <1>1, <1>3, TotalAdds
  <1> QED BY <1>4, <1>5

\* No term is larger than the sum.
LEMMA TotalTerm ==
    ASSUME NEW n \in Nat, NEW g \in [1 .. n -> Nat], NEW i \in 1 .. n
    PROVE  g[i] \in Nat /\ Total(g, n) \in Nat /\ g[i] <= Total(g, n)
  <1> DEFINE e == [k \in 1 .. n |-> IF k = i THEN 0 ELSE g[k]]
  <1>1. e \in [1 .. n -> Nat] OBVIOUS
  <1>2. Grown(e, g, n, i, g[i]) BY DEF Grown
  <1> HIDE DEF e
  <1>3. g[i] \in Nat OBVIOUS
  <1>4. Total(e, n) \in Nat /\ Total(g, n) = Total(e, n) + g[i] BY Zenon, <1>1, <1>2, <1>3, TotalGrows
  <1> QED BY <1>3, <1>4

\* No term is larger than the sum, and the others are 0 when one is the sum.
LEMMA TotalBounds ==
    ASSUME NEW n \in Nat, NEW f \in [1 .. n -> Nat], NEW j \in 1 .. n
    PROVE  /\ f[j] <= Total(f, n)
           /\ f[j] = Total(f, n) => \A i \in 1 .. n : i # j => f[i] = 0
  <1> DEFINE g == [i \in 1 .. n |-> IF i = j THEN 0 ELSE f[i]]
  <1>1. g \in [1 .. n -> Nat] OBVIOUS
  <1>2. Grown(g, f, n, j, f[j]) BY DEF Grown
  <1>3. \A i \in 1 .. n : i # j => g[i] = f[i] OBVIOUS
  <1> HIDE DEF g
  <1>4. f[j] \in Nat OBVIOUS
  <1>5. Total(g, n) \in Nat /\ Total(f, n) = Total(g, n) + f[j] BY Zenon, <1>1, <1>2, <1>4, TotalGrows
  <1>6. ASSUME NEW i \in 1 .. n, Total(g, n) = 0 PROVE g[i] = 0
    <2>1. g[i] \in Nat /\ g[i] <= Total(g, n) BY Zenon, <1>1, TotalTerm
    <2> QED BY <1>6, <2>1
  <1> QED BY <1>3, <1>4, <1>5, <1>6

\* A sum is a number, and the same terms have the same sum.
LEMMA TotalNat ==
    ASSUME NEW n \in Nat, NEW f \in [1 .. n -> Nat]
    PROVE  Total(f, n) \in Nat
  <1>1. PICK s : Sums(f, n, s) /\ Total(f, n) = s[n] BY Zenon, TotalSums
  <1>2. s[n] \in Nat BY <1>1 DEF Sums
  <1> QED BY <1>1, <1>2
-----------------------------------------------------------------------------
\* The references to region i, the pages of the regions and the pages that
\* count for task t, as the sums of the model add them.
RefRow(i) == [t \in ShmTask |-> shmRefs[t][i]]
PageRow == [i \in 1 .. ShmIds |-> shmRegion[i].pages]
TaskRow(t) == [i \in 1 .. ShmIds |-> shmRefs[t][i] * shmRegion[i].pages]

\* A region has references and pages, or it is none.
Real(r) == r = Freed \/ (r.refcount # 0 /\ r.pages \in ShmPages)

\* A region without references is no region, and the numbers that were not
\* given out yet belong to none.
ShmInv ==
    /\ ShmTypeOK /\ ShmRefsExact /\ ShmWithinLimit
    /\ \A i \in 1 .. ShmIds : Real(shmRegion[i])
    /\ \A i \in 1 .. ShmIds : i >= shmNextId => shmRegion[i] = Freed

\* The terms of the sums are numbers.
LEMMA RowTypes ==
    ASSUME ShmTypeOK
    PROVE  /\ \A i \in 1 .. ShmIds : RefRow(i) \in [1 .. ShmTasks -> Nat]
           /\ PageRow \in [1 .. ShmIds -> Nat]
           /\ \A t \in ShmTask : TaskRow(t) \in [1 .. ShmIds -> Nat]
  <1> USE ShmAssumption
  <1>1. \A i \in 1 .. ShmIds : RefRow(i) \in [1 .. ShmTasks -> Nat] BY DEF ShmTypeOK, RefRow, ShmTask
  <1>2. \A i \in 1 .. ShmIds : shmRegion[i].pages \in Nat
    <2> SUFFICES ASSUME NEW i \in 1 .. ShmIds PROVE shmRegion[i].pages \in Nat OBVIOUS
    <2>1. shmRegion[i] \in [pages : ShmPages \cup {0}, refcount : Nat] BY DEF ShmTypeOK
    <2>2. shmRegion[i].pages \in ShmPages \cup {0} BY Zenon, <2>1
    <2>3. \A x \in ShmPages \cup {0} : x \in Nat OBVIOUS
    <2> QED BY Zenon, <2>2, <2>3
  <1>3. PageRow \in [1 .. ShmIds -> Nat] BY <1>2 DEF PageRow
  <1>4. \A t \in ShmTask, i \in 1 .. ShmIds : shmRefs[t][i] \in Nat BY DEF ShmTypeOK
  <1>5. \A x, y \in Nat : x * y \in Nat OBVIOUS
  <1>6. \A t \in ShmTask, i \in 1 .. ShmIds : shmRefs[t][i] * shmRegion[i].pages \in Nat BY Zenon, <1>2, <1>4, <1>5
  <1>7. \A t \in ShmTask : TaskRow(t) \in [1 .. ShmIds -> Nat] BY <1>6 DEF TaskRow
  <1> QED BY <1>1, <1>3, <1>7

\* Nobody holds a region that has no references.
LEMMA NobodyHolds ==
    ASSUME ShmTypeOK, NEW i \in 1 .. ShmIds, RefsTo(i) = 0
    PROVE  \A t \in ShmTask : shmRefs[t][i] = 0
  <1>1. RefRow(i) \in [1 .. ShmTasks -> Nat] /\ ShmTasks \in Nat BY RowTypes, ShmAssumption
  <1> SUFFICES ASSUME NEW t \in ShmTask PROVE shmRefs[t][i] = 0 OBVIOUS
  <1>2. t \in 1 .. ShmTasks /\ RefRow(i)[t] = shmRefs[t][i] BY DEF RefRow, ShmTask
  <1>3. RefRow(i)[t] <= Total(RefRow(i), ShmTasks) BY Zenon, <1>1, <1>2, TotalBounds
  <1>4. Total(RefRow(i), ShmTasks) = 0 BY DEF RefsTo, RefRow
  <1>5. RefRow(i)[t] \in Nat BY <1>1, <1>2
  <1> QED BY <1>2, <1>3, <1>4, <1>5

\* vfs_shmem_create() and vfs_shmem_map() alike: task t gets one more reference
\* to region i, which has p pages or is new.
Takes(t, i, p) ==
    /\ shmRegion[i] # Freed => shmRegion[i].pages = p
    /\ CanAdd(t, p) /\ p - shmRegion[i].pages <= shmFree
    /\ shmRegion' = [shmRegion EXCEPT ![i] = [pages |-> p, refcount |-> shmRegion[i].refcount + 1]]
    /\ shmRefs' = [shmRefs EXCEPT ![t][i] = @ + 1]
    /\ shmFree' = shmFree - (p - shmRegion[i].pages)

\* What Takes changes in the two tables, entry by entry.
Taken(t, i, p) ==
    /\ shmRegion' \in [1 .. ShmIds -> [pages : ShmPages \cup {0}, refcount : Nat]]
    /\ shmRefs' \in [ShmTask -> [1 .. ShmIds -> Nat]]
    /\ \A u \in ShmTask, j \in 1 .. ShmIds :
           shmRefs'[u][j] = IF u = t /\ j = i THEN shmRefs[u][j] + 1 ELSE shmRefs[u][j]
    /\ \A j \in 1 .. ShmIds : j # i => shmRegion'[j] = shmRegion[j]
    /\ shmRegion'[i].pages = p /\ shmRegion'[i].refcount = shmRegion[i].refcount + 1
    /\ shmRegion[i].refcount \in Nat

\* The tables are updated as vfs_shmem_create() and vfs_shmem_map() say.
LEMMA TakesEntries ==
    ASSUME ShmInv, NEW t \in ShmTask, NEW i \in 1 .. ShmIds, NEW p \in ShmPages, Takes(t, i, p)
    PROVE  Taken(t, i, p)
  <1>1. /\ shmRegion \in [1 .. ShmIds -> [pages : ShmPages \cup {0}, refcount : Nat]]
        /\ shmRefs \in [ShmTask -> [1 .. ShmIds -> Nat]]
    BY DEF ShmInv, ShmTypeOK
  <1>2. shmRegion[i].refcount \in Nat BY <1>1
  <1>3. [pages |-> p, refcount |-> shmRegion[i].refcount + 1] \in [pages : ShmPages \cup {0}, refcount : Nat]
    BY <1>2
  <1>4. /\ shmRegion' = [shmRegion EXCEPT ![i] = [pages |-> p, refcount |-> shmRegion[i].refcount + 1]]
        /\ shmRefs' = [shmRefs EXCEPT ![t][i] = @ + 1]
    BY DEF Takes
  <1>5. shmRegion' \in [1 .. ShmIds -> [pages : ShmPages \cup {0}, refcount : Nat]] BY <1>1, <1>3, <1>4
  <1>6. shmRegion'[i].pages = p /\ shmRegion'[i].refcount = shmRegion[i].refcount + 1 BY <1>1, <1>4
  <1>7. \A j \in 1 .. ShmIds : j # i => shmRegion'[j] = shmRegion[j] BY <1>1, <1>4
  <1> DEFINE R == [1 .. ShmIds -> Nat]
             row == [shmRefs[t] EXCEPT ![i] = shmRefs[t][i] + 1]
  <1>8. \A f \in R : /\ [f EXCEPT ![i] = f[i] + 1] \in R
                     /\ \A j \in 1 .. ShmIds : [f EXCEPT ![i] = f[i] + 1][j] = IF j = i THEN f[j] + 1 ELSE f[j]
    OBVIOUS
  <1>9. shmRefs \in [ShmTask -> R] BY Zenon, <1>1
  <1>11. shmRefs[t] \in R BY Zenon, <1>9
  <1>12. row \in R /\ \A j \in 1 .. ShmIds : row[j] = IF j = i THEN shmRefs[t][j] + 1 ELSE shmRefs[t][j]
    BY Zenon, <1>8, <1>11
  <1>16. shmRefs' = [shmRefs EXCEPT ![t][i] = @ + 1] BY Zenon, <1>4
  <1>13. shmRefs' = [shmRefs EXCEPT ![t] = row] BY Zenon, <1>16
  <1> HIDE DEF R, row
  <1>14. shmRefs' \in [ShmTask -> R] /\ \A u \in ShmTask : shmRefs'[u] = IF u = t THEN row ELSE shmRefs[u]
    BY <1>9, <1>12, <1>13
  <1>15. shmRefs' \in [ShmTask -> [1 .. ShmIds -> Nat]] BY Zenon, <1>14 DEF R
  <1>10. \A u \in ShmTask, j \in 1 .. ShmIds :
             shmRefs'[u][j] = IF u = t /\ j = i THEN shmRefs[u][j] + 1 ELSE shmRefs[u][j]
    BY Zenon, <1>12, <1>14
  <1> QED BY Zenon, <1>2, <1>5, <1>6, <1>7, <1>10, <1>15 DEF Taken

\* The pages of the regions grow by what the new region has.
LEMMA TakesPages ==
    ASSUME ShmInv, NEW t \in ShmTask, NEW i \in 1 .. ShmIds, NEW p \in ShmPages, Takes(t, i, p)
    PROVE  shmFree' + Total(PageRow', ShmIds) = ShmFrames /\ shmFree' \in 0 .. ShmFrames
  <1> USE ShmAssumption
  <1>1. ShmTypeOK /\ PageRow \in [1 .. ShmIds -> Nat] BY RowTypes DEF ShmInv
  <1>0. Taken(t, i, p) BY Zenon, TakesEntries
  <1> DEFINE d == p - shmRegion[i].pages
  <1>2. shmRegion[i].pages = 0 \/ shmRegion[i].pages = p BY DEF Takes, Freed
  <1>3. d \in Nat /\ p = shmRegion[i].pages + d BY <1>2
  <1>4. /\ \A j \in 1 .. ShmIds : j # i => shmRegion'[j] = shmRegion[j]
        /\ shmRegion'[i].pages = p
    BY <1>0 DEF Taken
  <1>5. PageRow' = [j \in 1 .. ShmIds |-> shmRegion'[j].pages] BY DEF PageRow
  <1>6. \A j \in 1 .. ShmIds : PageRow[j] = shmRegion[j].pages BY DEF PageRow
  <1>7. \A j \in 1 .. ShmIds : PageRow'[j] = shmRegion'[j].pages BY <1>5
  <1>8. shmFree' = shmFree - d /\ d <= shmFree BY DEF Takes
  <1> HIDE DEF d
  <1>9. Grown(PageRow, PageRow', ShmIds, i, d) BY <1>3, <1>4, <1>6, <1>7 DEF Grown
  <1>10. PageRow' \in [1 .. ShmIds -> Nat]
    <2>1. \A j \in 1 .. ShmIds : PageRow'[j] \in Nat BY <1>1, <1>3, <1>9 DEF Grown
    <2> QED BY <1>5, <1>7, <2>1
  <1>11. Total(PageRow, ShmIds) \in Nat /\ Total(PageRow', ShmIds) = Total(PageRow, ShmIds) + d
    <2> DEFINE old == PageRow
               now == PageRow'
    <2>1. old \in [1 .. ShmIds -> Nat] /\ now \in [1 .. ShmIds -> Nat] /\ Grown(old, now, ShmIds, i, d)
      BY Zenon, <1>1, <1>9, <1>10
    <2>2. d \in Nat BY Zenon, <1>3
    <2> HIDE DEF old, now
    <2>3. Total(old, ShmIds) \in Nat /\ Total(now, ShmIds) = Total(old, ShmIds) + d
      BY Zenon, <2>1, <2>2, TotalGrows
    <2> QED BY Zenon, <2>3 DEF old, now
  <1>12. shmFree + Total(PageRow, ShmIds) = ShmFrames /\ shmFree \in Nat
    BY <1>1 DEF ShmInv, ShmRefsExact, PageRow, ShmTypeOK
  <1> QED BY <1>3, <1>8, <1>11, <1>12

\* The references to region i are one more, those to the others are the same.
LEMMA TakesRefs ==
    ASSUME ShmInv, NEW t \in ShmTask, NEW i \in 1 .. ShmIds, NEW p \in ShmPages, Takes(t, i, p),
           NEW j \in 1 .. ShmIds
    PROVE  RefsTo(j)' = IF j = i THEN RefsTo(j) + 1 ELSE RefsTo(j)
  <1> DEFINE old == RefRow(j)
             now == RefRow(j)'
             d == IF j = i THEN 1 ELSE 0
  <1>1. Taken(t, i, p) BY Zenon, TakesEntries
  <1>2. ShmTypeOK /\ ShmTasks \in Nat /\ t \in 1 .. ShmTasks BY ShmAssumption DEF ShmInv, ShmTask
  <1>3. old \in [1 .. ShmTasks -> Nat] BY Zenon, <1>2, RowTypes
  <1>4. now = [u \in ShmTask |-> shmRefs'[u][j]] BY Zenon DEF RefRow
  <1>5. shmRefs' \in [ShmTask -> [1 .. ShmIds -> Nat]]
    BY <1>1 DEF Taken
  <1>6. \A u \in ShmTask : shmRefs'[u][j] \in Nat BY Zenon, <1>5
  <1>7. \A u \in ShmTask : shmRefs'[u][j] = IF u = t /\ j = i THEN shmRefs[u][j] + 1 ELSE shmRefs[u][j]
    BY Zenon, <1>1 DEF Taken
  <1>8. \A u \in ShmTask : old[u] = shmRefs[u][j] BY DEF RefRow
  <1>9. RefsTo(j) = Total(old, ShmTasks) /\ RefsTo(j)' = Total(now, ShmTasks) BY Zenon DEF RefsTo, RefRow
  <1>10. d \in Nat BY DEF d
  <1> HIDE DEF old, now
  <1>11. now \in [1 .. ShmTasks -> Nat] BY <1>4, <1>6 DEF ShmTask
  <1>12. \A u \in ShmTask : now[u] = shmRefs'[u][j] BY <1>4
  <1>13. \A u \in ShmTask : old[u] \in Nat BY <1>3 DEF ShmTask
  <1>14. Grown(old, now, ShmTasks, t, d)
    <2> SUFFICES ASSUME NEW u \in ShmTask PROVE now[u] = IF u = t THEN old[u] + d ELSE old[u]
      BY Zenon DEF Grown, ShmTask
    <2>1. now[u] = IF u = t /\ j = i THEN old[u] + 1 ELSE old[u] BY Zenon, <1>7, <1>8, <1>12
    <2>2. old[u] + 0 = old[u] BY <1>13
    <2> QED BY Zenon, <2>1, <2>2 DEF d
  <1> HIDE DEF d
  <1>15. Total(old, ShmTasks) \in Nat /\ Total(now, ShmTasks) = Total(old, ShmTasks) + d
    BY Zenon, <1>2, <1>3, <1>10, <1>11, <1>14, TotalGrows
  <1> QED BY <1>9, <1>15 DEF d

\* The pages of task t are more by those of the region, those of the others are
\* the same: nobody else holds a region that is new.
LEMMA TakesLimit ==
    ASSUME ShmInv, NEW t \in ShmTask, NEW i \in 1 .. ShmIds, NEW p \in ShmPages, Takes(t, i, p),
           NEW u \in ShmTask
    PROVE  PagesOf(u)' <= ShmTaskPages
  <1> DEFINE old == TaskRow(u)
             now == TaskRow(u)'
             d == IF u = t THEN p ELSE 0
             r == shmRefs[u][i]
             q == shmRegion[i].pages
  <1>1. Taken(t, i, p) BY Zenon, TakesEntries
  <1>2. ShmTypeOK /\ ShmIds \in Nat /\ ShmTaskPages \in Nat BY ShmAssumption DEF ShmInv
  <1>3. old \in [1 .. ShmIds -> Nat] BY Zenon, <1>2, RowTypes
  <1>4. now = [j \in 1 .. ShmIds |-> shmRefs'[u][j] * shmRegion'[j].pages] BY Zenon DEF TaskRow
  <1>5. \A j \in 1 .. ShmIds : old[j] = shmRefs[u][j] * shmRegion[j].pages BY DEF TaskRow
  <1>6. PagesOf(u) = Total(old, ShmIds) /\ PagesOf(u)' = Total(now, ShmIds) BY Zenon DEF PagesOf, TaskRow
  <1>7. p \in Nat /\ d \in Nat BY ShmAssumption DEF d
  <1>8. r \in Nat BY <1>2 DEF ShmTypeOK
  <1>9. q = p \/ (q = 0 /\ r = 0)
    <2>1. CASE shmRegion[i] # Freed BY <2>1 DEF Takes
    <2>2. CASE shmRegion[i] = Freed
      <3>1. q = 0 /\ shmRegion[i].refcount = 0 BY <2>2 DEF Freed
      <3>2. RefsTo(i) = 0 BY <3>1 DEF ShmInv, ShmRefsExact
      <3>3. r = 0 BY Zenon, <1>2, <3>2, NobodyHolds
      <3> QED BY <3>1, <3>3
    <2> QED BY <2>1, <2>2
  <1>10. \A j \in 1 .. ShmIds :
             /\ shmRefs'[u][j] = IF u = t /\ j = i THEN shmRefs[u][j] + 1 ELSE shmRefs[u][j]
             /\ shmRegion'[j].pages = IF j = i THEN p ELSE shmRegion[j].pages
    BY Zenon, <1>1 DEF Taken
  <1>11. old[i] = r * q BY Zenon, <1>5
  <1>12. PagesOf(u) <= ShmTaskPages /\ PagesOf(t) + p <= ShmTaskPages BY DEF ShmInv, ShmWithinLimit, Takes, CanAdd
  <1> HIDE DEF old, now, r, q
  <1>13. \A j \in 1 .. ShmIds : now[j] = shmRefs'[u][j] * shmRegion'[j].pages BY <1>4
  <1>14. now[i] = (IF u = t THEN r + 1 ELSE r) * p BY Zenon, <1>10, <1>13 DEF r
  <1>15. (IF u = t THEN r + 1 ELSE r) * p = r * q + d
    <2>1. r * p \in Nat BY <1>7, <1>8
    <2>2. (r + 1) * p = r * p + p BY <1>7, <1>8
    <2>3. q = 0 /\ r = 0 => r * p = 0 /\ r * q = 0 BY <1>7
    <2>4. r * q = r * p BY Zenon, <1>9, <2>3
    <2>5. r * p + 0 = r * p BY <2>1
    <2> QED BY Zenon, <2>2, <2>4, <2>5 DEF d
  <1>16. \A j \in 1 .. ShmIds : old[j] \in Nat BY <1>3
  <1>17. Grown(old, now, ShmIds, i, d)
    <2> SUFFICES ASSUME NEW j \in 1 .. ShmIds PROVE now[j] = IF j = i THEN old[j] + d ELSE old[j]
      BY Zenon DEF Grown
    <2>1. CASE j = i BY Zenon, <1>11, <1>14, <1>15, <2>1
    <2>2. CASE j # i BY Zenon, <1>5, <1>10, <1>13, <2>2
    <2> QED BY <2>1, <2>2
  <1> HIDE DEF d
  <1>18. now \in [1 .. ShmIds -> Nat]
    <2>1. \A j \in 1 .. ShmIds : now[j] \in Nat BY <1>7, <1>16, <1>17 DEF Grown
    <2> QED BY <1>4, <1>13, <2>1
  <1>19. Total(old, ShmIds) \in Nat /\ Total(now, ShmIds) = Total(old, ShmIds) + d
    BY Zenon, <1>2, <1>3, <1>7, <1>17, <1>18, TotalGrows
  <1> QED BY <1>2, <1>6, <1>12, <1>19 DEF d

\* Creating and mapping keep the invariant.
LEMMA TakesKeeps ==
    ASSUME ShmInv, NEW t \in ShmTask, NEW i \in 1 .. ShmIds, NEW p \in ShmPages, Takes(t, i, p),
           shmNextId' \in 1 .. ShmIds + 1, shmNextId <= shmNextId', i < shmNextId',
           shmMapped' \subseteq {ShmSpace[u] : u \in ShmTask} \X (1 .. ShmIds), shmTasks' = shmTasks
    PROVE  ShmInv'
  <1> USE ShmAssumption
  <1>1. Taken(t, i, p) BY Zenon, TakesEntries
  <1>2. shmFree' + Total(PageRow', ShmIds) = ShmFrames /\ shmFree' \in 0 .. ShmFrames BY Zenon, TakesPages
  <1>3. shmTasks' \in [ShmTask -> {"live", "dead", "gone"}] BY DEF ShmInv, ShmTypeOK
  <1>4. ShmTypeOK' BY Zenon, <1>1, <1>2, <1>3 DEF Taken, ShmTypeOK
  <1>5. \A j \in 1 .. ShmIds : shmRegion'[j].refcount = RefsTo(j)'
    <2> SUFFICES ASSUME NEW j \in 1 .. ShmIds PROVE shmRegion'[j].refcount = RefsTo(j)' OBVIOUS
    <2>1. RefsTo(j)' = IF j = i THEN RefsTo(j) + 1 ELSE RefsTo(j) BY Zenon, TakesRefs
    <2>2. shmRegion[j].refcount = RefsTo(j) BY Zenon DEF ShmInv, ShmRefsExact
    <2>3. shmRegion'[j].refcount = IF j = i THEN shmRegion[j].refcount + 1 ELSE shmRegion[j].refcount
      BY Zenon, <1>1 DEF Taken
    <2>4. CASE j = i BY Zenon, <2>1, <2>2, <2>3, <2>4
    <2>5. CASE j # i BY Zenon, <2>1, <2>2, <2>3, <2>5
    <2> QED BY Zenon, <2>4, <2>5
  <1>6. ShmRefsExact' BY Zenon, <1>2, <1>5 DEF ShmRefsExact, PageRow
  <1>7. ShmWithinLimit' BY Zenon, TakesLimit DEF ShmWithinLimit
  <1>8. ASSUME NEW j \in 1 .. ShmIds PROVE Real(shmRegion'[j])
    <2>1. CASE j = i
      <3>1. shmRegion'[i].pages = p /\ shmRegion'[i].refcount # 0 BY <1>1 DEF Taken
      <3> QED BY Zenon, <2>1, <3>1 DEF Real
    <2>2. CASE j # i BY Zenon, <1>1, <2>2 DEF Taken, ShmInv
    <2> QED BY Zenon, <2>1, <2>2
  <1>9. ASSUME NEW j \in 1 .. ShmIds, j >= shmNextId' PROVE shmRegion'[j] = Freed
    <2>1. j # i /\ j >= shmNextId BY <1>9 DEF ShmInv, ShmTypeOK
    <2> QED BY Zenon, <1>1, <2>1 DEF Taken, ShmInv
  <1> QED BY Zenon, <1>4, <1>6, <1>7, <1>8, <1>9 DEF ShmInv

\* What drop_task_shmem_refs() does to region i: the references of t are gone,
\* and with the last one the region.
Dropped(t, i) ==
    /\ shmRegion'[i] \in [pages : ShmPages \cup {0}, refcount : Nat]
    /\ shmRegion'[i].refcount = RefsTo(i)'
    /\ Real(shmRegion'[i])
    /\ \/ shmRegion'[i].pages = shmRegion[i].pages
       \/ shmRegion'[i] = Freed /\ \A u \in ShmTask : u # t => shmRefs[u][i] = 0

\* The references that are left to a region.
LEMMA DropRefs ==
    ASSUME ShmInv, NEW t \in ShmTask, drop_task_shmem_refs(t), NEW i \in 1 .. ShmIds
    PROVE  /\ RefsTo(i)' \in Nat /\ RefsTo(i) = RefsTo(i)' + shmRefs[t][i]
           /\ shmRefs[t][i] = RefsTo(i) => \A u \in ShmTask : u # t => shmRefs[u][i] = 0
  <1> DEFINE old == RefRow(i)
             now == RefRow(i)'
             d == shmRefs[t][i]
  <1>1. ShmTypeOK /\ ShmTasks \in Nat /\ t \in 1 .. ShmTasks BY ShmAssumption DEF ShmInv, ShmTask
  <1>2. old \in [1 .. ShmTasks -> Nat] BY Zenon, <1>1, RowTypes
  <1>3. shmRefs' = [shmRefs EXCEPT ![t] = [j \in 1 .. ShmIds |-> 0]] BY DEF drop_task_shmem_refs
  <1>4. shmRefs \in [ShmTask -> [1 .. ShmIds -> Nat]] BY <1>1 DEF ShmTypeOK
  <1>5. \A u \in ShmTask : shmRefs'[u] = IF u = t THEN [j \in 1 .. ShmIds |-> 0] ELSE shmRefs[u]
    BY <1>3, <1>4
  <1>6. [j \in 1 .. ShmIds |-> 0][i] = 0 OBVIOUS
  <1>7. \A u \in ShmTask : shmRefs'[u][i] = IF u = t THEN 0 ELSE shmRefs[u][i] BY Zenon, <1>5, <1>6
  <1>8. d \in Nat BY Zenon, <1>4
  <1>9. \A u \in ShmTask : old[u] = shmRefs[u][i] BY DEF RefRow
  <1>10. now = [u \in ShmTask |-> shmRefs'[u][i]] BY Zenon DEF RefRow
  <1>11. RefsTo(i) = Total(old, ShmTasks) /\ RefsTo(i)' = Total(now, ShmTasks) BY Zenon DEF RefsTo, RefRow
  <1>12. old[t] = d BY Zenon, <1>9
  <1> HIDE DEF old, now, d
  <1>13. \A u \in ShmTask : now[u] = shmRefs'[u][i] BY Zenon, <1>10
  <1>14. \A u \in ShmTask : old[u] \in Nat BY <1>2 DEF ShmTask
  <1>15. \A u \in ShmTask : now[u] = IF u = t THEN 0 ELSE old[u] BY Zenon, <1>7, <1>9, <1>13
  <1>16. now \in [1 .. ShmTasks -> Nat]
    <2>1. \A u \in ShmTask : now[u] \in Nat BY <1>14, <1>15
    <2> QED BY <1>10, <1>13, <2>1 DEF ShmTask
  <1>17. Grown(now, old, ShmTasks, t, d)
    <2>1. 0 + d = d BY <1>8
    <2> QED BY Zenon, <1>12, <1>15, <2>1 DEF Grown, ShmTask
  <1>18. Total(now, ShmTasks) \in Nat /\ Total(old, ShmTasks) = Total(now, ShmTasks) + d
    BY Zenon, <1>1, <1>2, <1>8, <1>16, <1>17, TotalGrows
  <1>19. old[t] = Total(old, ShmTasks) => \A u \in 1 .. ShmTasks : u # t => old[u] = 0
    BY Zenon, <1>1, <1>2, TotalBounds
  <1> QED BY Zenon, <1>9, <1>11, <1>12, <1>18, <1>19 DEF d, ShmTask

\* drop_task_shmem_refs(), region by region.
LEMMA DropRegion ==
    ASSUME ShmInv, NEW t \in ShmTask, drop_task_shmem_refs(t), NEW i \in 1 .. ShmIds
    PROVE  Dropped(t, i)
  <1> DEFINE d == shmRefs[t][i]
             x == shmRegion[i]
             y == shmRegion'[i]
             n == RefsTo(i)'
  <1>1. /\ n \in Nat /\ RefsTo(i) = n + d
        /\ d = RefsTo(i) => \A u \in ShmTask : u # t => shmRefs[u][i] = 0
    BY Zenon, DropRefs
  <1>2. x \in [pages : ShmPages \cup {0}, refcount : Nat] /\ d \in Nat
    BY Zenon DEF ShmInv, ShmTypeOK
  <1>3. x.refcount = n + d /\ Real(x) BY Zenon, <1>1 DEF ShmInv, ShmRefsExact
  <1>4. y = IF d > 0 THEN (IF x.refcount <= d THEN Freed ELSE [x EXCEPT !.refcount = @ - d]) ELSE x
    BY DEF drop_task_shmem_refs, Released
  <1>5. Freed.pages = 0 /\ Freed.refcount = 0 /\ Freed \in [pages : ShmPages \cup {0}, refcount : Nat] BY DEF Freed
  <1> HIDE DEF d, x, y, n
  <1>6. CASE ~(d > 0)
    <2>1. y = x /\ d = 0 /\ x.refcount = n BY <1>1, <1>2, <1>3, <1>4, <1>6
    <2> QED BY Zenon, <1>2, <1>3, <2>1 DEF Dropped, d, x, y, n
  <1>7. CASE d > 0 /\ x.refcount <= d
    <2>1. y = Freed /\ n = 0 /\ d = RefsTo(i) BY <1>1, <1>2, <1>3, <1>4, <1>7
    <2> QED BY Zenon, <1>1, <1>5, <2>1 DEF Dropped, Real, d, x, y, n
  <1>8. CASE d > 0 /\ ~(x.refcount <= d)
    <2>1. y = [x EXCEPT !.refcount = @ - d] /\ x.refcount - d = n /\ n # 0
      BY <1>1, <1>2, <1>3, <1>4, <1>8
    <2>2. y.refcount = n /\ y.pages = x.pages /\ y \in [pages : ShmPages \cup {0}, refcount : Nat]
      BY <1>1, <1>2, <2>1
    <2>3. x # Freed BY <1>2, <1>5, <1>8
    <2>4. Real(y) BY Zenon, <1>3, <2>1, <2>2, <2>3 DEF Real
    <2> QED BY Zenon, <2>2, <2>4 DEF Dropped, x, y, n
  <1> QED BY Zenon, <1>6, <1>7, <1>8

\* The frames of the regions that end are free again.
LEMMA DropPages ==
    ASSUME ShmInv, NEW t \in ShmTask, drop_task_shmem_refs(t)
    PROVE  shmFree' + Total(PageRow', ShmIds) = ShmFrames /\ shmFree' \in 0 .. ShmFrames
  <1> DEFINE old == PageRow
             now == PageRow'
             back == [i \in 1 .. ShmIds |-> IF i \in {j \in 1 .. ShmIds : shmRefs[t][j] > 0} /\ Released(t, i) = Freed
                                            THEN shmRegion[i].pages ELSE 0]
  <1>1. ShmTypeOK /\ ShmIds \in Nat /\ ShmFrames \in Nat BY ShmAssumption DEF ShmInv
  <1>2. old \in [1 .. ShmIds -> Nat] BY Zenon, <1>1, RowTypes
  <1>3. now = [i \in 1 .. ShmIds |-> shmRegion'[i].pages] BY Zenon DEF PageRow
  <1>4. \A i \in 1 .. ShmIds : old[i] = shmRegion[i].pages BY DEF PageRow
  <1>5. shmFree' = shmFree + Total(back, ShmIds) BY Zenon DEF drop_task_shmem_refs
  <1>6. shmFree + Total(old, ShmIds) = ShmFrames /\ shmFree \in Nat
    BY <1>1 DEF ShmInv, ShmRefsExact, PageRow, ShmTypeOK
  <1>7. \A i \in 1 .. ShmIds :
            back[i] = IF shmRefs[t][i] > 0 /\ Released(t, i) = Freed THEN shmRegion[i].pages ELSE 0
    OBVIOUS
  <1>8. back = [i \in 1 .. ShmIds |-> back[i]] BY Zenon
  <1> HIDE DEF old, now, back
  <1>9. \A i \in 1 .. ShmIds : now[i] = shmRegion'[i].pages BY <1>3
  <1>10. \A i \in 1 .. ShmIds :
             shmRegion'[i] = IF shmRefs[t][i] > 0 THEN Released(t, i) ELSE shmRegion[i]
    BY DEF drop_task_shmem_refs
  <1>11. ASSUME NEW i \in 1 .. ShmIds PROVE now[i] \in Nat /\ back[i] \in Nat /\ old[i] = now[i] + back[i]
    <2>1. old[i] \in Nat BY <1>2
    <2>2. old[i] = shmRegion[i].pages /\ now[i] = shmRegion'[i].pages BY Zenon, <1>4, <1>9
    <2>3. back[i] = IF shmRefs[t][i] > 0 /\ Released(t, i) = Freed THEN old[i] ELSE 0 BY Zenon, <1>7, <2>2
    <2>4. CASE shmRefs[t][i] > 0 /\ Released(t, i) = Freed
      <3>1. Freed.pages = 0 BY DEF Freed
      <3>2. now[i] = 0 /\ back[i] = old[i] BY Zenon, <1>10, <2>2, <2>3, <2>4, <3>1
      <3> QED BY <2>1, <3>2
    <2>5. CASE ~(shmRefs[t][i] > 0 /\ Released(t, i) = Freed)
      <3>1. back[i] = 0 BY Zenon, <2>3, <2>5
      <3>2. shmRegion'[i] = Freed => shmRegion[i] = Freed BY Zenon, <1>10, <2>5
      <3>3. shmRegion'[i].pages = shmRegion[i].pages BY Zenon, <3>2, DropRegion DEF Dropped
      <3>4. now[i] = old[i] BY Zenon, <2>2, <3>3
      <3> QED BY <2>1, <3>1, <3>4
    <2> QED BY Zenon, <2>4, <2>5
  <1>12. now \in [1 .. ShmIds -> Nat] /\ back \in [1 .. ShmIds -> Nat] BY <1>3, <1>8, <1>9, <1>11
  <1>13. Added(now, back, old, ShmIds) BY Zenon, <1>11 DEF Added
  <1>14. /\ Total(now, ShmIds) \in Nat /\ Total(back, ShmIds) \in Nat
         /\ Total(old, ShmIds) = Total(now, ShmIds) + Total(back, ShmIds)
    BY Zenon, <1>1, <1>2, <1>12, <1>13, TotalAdds
  <1>15. shmFree' + Total(now, ShmIds) = ShmFrames /\ shmFree' \in 0 .. ShmFrames BY <1>1, <1>5, <1>6, <1>14
  <1> QED BY Zenon, <1>15 DEF now

\* Nobody else has more pages than before: a region that ended was held by t alone.
LEMMA DropLimit ==
    ASSUME ShmInv, NEW t \in ShmTask, drop_task_shmem_refs(t), NEW u \in ShmTask
    PROVE  PagesOf(u)' <= ShmTaskPages
  <1> DEFINE old == TaskRow(u)
             now == TaskRow(u)'
  <1>1. ShmTypeOK /\ ShmIds \in Nat /\ ShmTaskPages \in Nat BY ShmAssumption DEF ShmInv
  <1>2. old \in [1 .. ShmIds -> Nat] BY Zenon, <1>1, RowTypes
  <1>3. now = [i \in 1 .. ShmIds |-> shmRefs'[u][i] * shmRegion'[i].pages] BY Zenon DEF TaskRow
  <1>4. \A i \in 1 .. ShmIds : old[i] = shmRefs[u][i] * shmRegion[i].pages BY DEF TaskRow
  <1>5. PagesOf(u) = Total(old, ShmIds) /\ PagesOf(u)' = Total(now, ShmIds) BY Zenon DEF PagesOf, TaskRow
  <1>6. PagesOf(u) <= ShmTaskPages BY DEF ShmInv, ShmWithinLimit
  <1>7. shmRefs' = [shmRefs EXCEPT ![t] = [j \in 1 .. ShmIds |-> 0]] BY DEF drop_task_shmem_refs
  <1>8. shmRefs \in [ShmTask -> [1 .. ShmIds -> Nat]] BY <1>1 DEF ShmTypeOK
  <1>9. old = [i \in 1 .. ShmIds |-> old[i]] BY Zenon DEF TaskRow
  <1> HIDE DEF old, now
  <1>10. \A i \in 1 .. ShmIds : now[i] = shmRefs'[u][i] * shmRegion'[i].pages BY <1>3
  <1>11. \A i \in 1 .. ShmIds : shmRegion'[i].pages \in Nat
    <2> SUFFICES ASSUME NEW i \in 1 .. ShmIds PROVE shmRegion'[i].pages \in Nat OBVIOUS
    <2>1. shmRegion'[i] \in [pages : ShmPages \cup {0}, refcount : Nat] BY Zenon, DropRegion DEF Dropped
    <2>2. shmRegion'[i].pages \in ShmPages \cup {0} BY Zenon, <2>1
    <2>3. \A x \in ShmPages \cup {0} : x \in Nat BY ShmAssumption
    <2> QED BY Zenon, <2>2, <2>3
  <1>12. CASE u = t
    <2>1. shmRefs'[u] = [j \in 1 .. ShmIds |-> 0] BY <1>7, <1>8, <1>12
    <2>2. \A i \in 1 .. ShmIds : shmRefs'[u][i] = 0 BY <2>1
    <2>3. \A x \in Nat : 0 * x = 0 OBVIOUS
    <2>4. \A i \in 1 .. ShmIds : now[i] = 0 BY Zenon, <1>10, <1>11, <2>2, <2>3
    <2>5. now \in [1 .. ShmIds -> Nat] BY <1>3, <1>10, <2>4
    <2>6. Total(now, ShmIds) = 0 BY Zenon, <1>1, <2>4, <2>5, TotalOfNone
    <2> QED BY <1>1, <1>5, <2>6
  <1>13. CASE u # t
    <2>1. shmRefs'[u] = shmRefs[u] BY <1>7, <1>8, <1>13
    <2>2. ASSUME NEW i \in 1 .. ShmIds PROVE now[i] = old[i]
      <3>1. shmRegion'[i].pages = shmRegion[i].pages \/ shmRefs[u][i] = 0
        BY Zenon, <1>13, DropRegion DEF Dropped
      <3>2. \A x \in Nat : 0 * x = 0 OBVIOUS
      <3>3. shmRegion[i].pages \in Nat
        <4>1. PageRow \in [1 .. ShmIds -> Nat] BY Zenon, <1>1, RowTypes
        <4>2. PageRow[i] = shmRegion[i].pages BY DEF PageRow
        <4> QED BY <4>1, <4>2
      <3>4. CASE shmRefs[u][i] = 0
        <4>1. old[i] = 0 * shmRegion[i].pages /\ now[i] = 0 * shmRegion'[i].pages BY Zenon, <1>4, <1>10, <2>1, <3>4
        <4>2. 0 * shmRegion[i].pages = 0 BY Zenon, <3>2, <3>3
        <4>3. 0 * shmRegion'[i].pages = 0 BY Zenon, <1>11, <3>2
        <4> QED BY Zenon, <4>1, <4>2, <4>3
      <3>5. CASE shmRegion'[i].pages = shmRegion[i].pages BY Zenon, <1>4, <1>10, <2>1, <3>5
      <3> QED BY Zenon, <3>1, <3>4, <3>5
    <2>3. now = [i \in 1 .. ShmIds |-> now[i]] BY <1>3, <1>10
    <2>4. now = old BY Zenon, <1>9, <2>2, <2>3
    <2> QED BY Zenon, <1>5, <1>6, <2>4
  <1> QED BY Zenon, <1>12, <1>13

\* Exits, execs and the cleanup of a killed task keep the invariant.
LEMMA DropKeeps ==
    ASSUME ShmInv, NEW t \in ShmTask, drop_task_shmem_refs(t),
           shmNextId' = shmNextId, shmMapped' \subseteq shmMapped,
           shmTasks' \in [ShmTask -> {"live", "dead", "gone"}]
    PROVE  ShmInv'
  <1>1. \A i \in 1 .. ShmIds : Dropped(t, i) BY Zenon, DropRegion
  <1>2. shmFree' + Total(PageRow', ShmIds) = ShmFrames /\ shmFree' \in 0 .. ShmFrames BY Zenon, DropPages
  <1>3. ShmTypeOK BY DEF ShmInv
  <1>4. shmRegion' \in [1 .. ShmIds -> [pages : ShmPages \cup {0}, refcount : Nat]]
    <2>1. \A i \in 1 .. ShmIds : shmRegion'[i] \in [pages : ShmPages \cup {0}, refcount : Nat]
      BY Zenon, <1>1 DEF Dropped
    <2>2. shmRegion' = [i \in 1 .. ShmIds |-> shmRegion'[i]] BY Zenon DEF drop_task_shmem_refs
    <2> HIDE <1>1
    <2> QED BY Zenon, <2>1, <2>2
  <1>5. shmRefs' \in [ShmTask -> [1 .. ShmIds -> Nat]]
    <2> DEFINE none == [j \in 1 .. ShmIds |-> 0]
               R == [1 .. ShmIds -> Nat]
    <2>1. none \in R OBVIOUS
    <2>2. shmRefs' = [shmRefs EXCEPT ![t] = none] BY Zenon DEF drop_task_shmem_refs
    <2>3. shmRefs \in [ShmTask -> R] BY Zenon, <1>3 DEF ShmTypeOK
    <2> HIDE DEF none, R
    <2>4. shmRefs' \in [ShmTask -> R] BY <2>1, <2>2, <2>3
    <2> QED BY Zenon, <2>4 DEF R
  <1>6. ShmTypeOK'
    <2>1. shmNextId' \in 1 .. ShmIds + 1 /\ shmMapped' \subseteq {ShmSpace[u] : u \in ShmTask} \X (1 .. ShmIds)
      BY Zenon, <1>3 DEF ShmTypeOK
    <2> QED BY Zenon, <1>2, <1>4, <1>5, <2>1 DEF ShmTypeOK
  <1>7. ShmRefsExact' BY Zenon, <1>1, <1>2 DEF ShmRefsExact, PageRow, Dropped
  <1>8. ShmWithinLimit' BY Zenon, DropLimit DEF ShmWithinLimit
  <1>9. \A i \in 1 .. ShmIds : Real(shmRegion'[i]) BY Zenon, <1>1 DEF Dropped
  <1>10. ASSUME NEW i \in 1 .. ShmIds, i >= shmNextId' PROVE shmRegion'[i] = Freed
    <2>1. shmRegion[i] = Freed BY Zenon, <1>10 DEF ShmInv
    <2>2. Freed.refcount = 0 BY DEF Freed
    <2>3. shmRegion'[i] = IF shmRefs[t][i] > 0 THEN Released(t, i) ELSE shmRegion[i]
      BY DEF drop_task_shmem_refs
    <2>6. shmRefs \in [ShmTask -> [1 .. ShmIds -> Nat]] BY <1>3 DEF ShmTypeOK
    <2>4. shmRefs[t][i] \in Nat BY Zenon, <2>6
    <2>5. Released(t, i) = Freed BY <2>1, <2>2, <2>4 DEF Released
    <2> QED BY Zenon, <2>1, <2>3, <2>5
  <1> QED BY Zenon, <1>6, <1>7, <1>8, <1>9, <1>10 DEF ShmInv

\* Every step of a task keeps the invariant.
LEMMA ShmStep == ShmInv /\ [ShmNext]_shmVars => ShmInv'
  <1> SUFFICES ASSUME ShmInv, [ShmNext]_shmVars PROVE ShmInv' OBVIOUS
  <1> USE ShmAssumption
  <1>1. ShmTypeOK BY DEF ShmInv
  <1>2. ASSUME NEW t \in ShmTask, vfs_shmem_create(t) PROVE ShmInv'
    <2>1. PICK p \in ShmPages :
             /\ shmNextId <= ShmIds /\ CanAdd(t, p) /\ p <= shmFree
             /\ shmFree' = shmFree - p
             /\ shmRegion' = [shmRegion EXCEPT ![shmNextId] = [pages |-> p, refcount |-> 1]]
             /\ shmRefs' = [shmRefs EXCEPT ![t][shmNextId] = 1]
             /\ shmNextId' = shmNextId + 1 /\ UNCHANGED <<shmMapped, shmTasks>>
      BY Zenon, <1>2 DEF vfs_shmem_create
    <2> DEFINE i == shmNextId
    <2>2. i \in 1 .. ShmIds /\ i \in Nat /\ p \in Nat BY <1>1, <2>1 DEF ShmTypeOK
    <2>3. shmRegion[i] = Freed
      <3>1. i >= shmNextId BY <2>2
      <3> QED BY Zenon, <2>2, <3>1 DEF ShmInv
    <2>4. shmRegion[i].pages = 0 /\ shmRegion[i].refcount = 0 BY <2>3 DEF Freed
    <2>5. shmRefs[t][i] = 0
      <3>1. RefsTo(i) = 0 BY Zenon, <2>2, <2>4 DEF ShmInv, ShmRefsExact
      <3> QED BY Zenon, <1>1, <2>2, <3>1, NobodyHolds
    <2>6. shmRegion[i].refcount + 1 = 1 /\ shmRefs[t][i] + 1 = 1 /\ p - shmRegion[i].pages = p BY <2>2, <2>4, <2>5
    <2>7. shmRefs' = [shmRefs EXCEPT ![t][i] = @ + 1] BY Zenon, <2>1, <2>6
    <2>8. shmRegion' = [shmRegion EXCEPT ![i] = [pages |-> p, refcount |-> shmRegion[i].refcount + 1]]
      BY Zenon, <2>1, <2>6
    <2>9. p - shmRegion[i].pages <= shmFree /\ shmFree' = shmFree - (p - shmRegion[i].pages) BY Zenon, <2>1, <2>6
    <2>10. Takes(t, i, p) BY Zenon, <2>1, <2>3, <2>7, <2>8, <2>9 DEF Takes
    <2>11. shmNextId' \in 1 .. ShmIds + 1 /\ shmNextId <= shmNextId' /\ i < shmNextId' BY <2>1, <2>2
    <2>12. shmMapped' \subseteq {ShmSpace[u] : u \in ShmTask} \X (1 .. ShmIds) /\ shmTasks' = shmTasks
      BY Zenon, <1>1, <2>1 DEF ShmTypeOK
    <2> HIDE DEF i
    <2> QED BY Zenon, <2>2, <2>10, <2>11, <2>12, TakesKeeps
  <1>3. ASSUME NEW t \in ShmTask, NEW i \in 1 .. ShmIds, vfs_shmem_map(t, i) PROVE ShmInv'
    <2> DEFINE p == shmRegion[i].pages
    <2>1. /\ shmRegion[i] # Freed /\ CanAdd(t, p)
          /\ shmRegion' = [shmRegion EXCEPT ![i].refcount = @ + 1]
          /\ shmRefs' = [shmRefs EXCEPT ![t][i] = @ + 1]
          /\ shmMapped' = shmMapped \cup {<<ShmSpace[t], i>>}
          /\ UNCHANGED <<shmNextId, shmFree, shmTasks>>
      BY Zenon, <1>3 DEF vfs_shmem_map
    <2>2. /\ shmRegion[i] \in [pages : ShmPages \cup {0}, refcount : Nat] /\ shmNextId \in 1 .. ShmIds + 1
          /\ shmFree \in 0 .. ShmFrames
          /\ shmMapped \subseteq {ShmSpace[u] : u \in ShmTask} \X (1 .. ShmIds)
      BY Zenon, <1>1 DEF ShmTypeOK
    <2>3. p \in ShmPages BY Zenon, <2>1 DEF ShmInv, Real
    <2>11. \A x \in ShmPages : x - x = 0 OBVIOUS
    <2>12. p - p = 0 BY Zenon, <2>3, <2>11
    <2>13. shmFree \in 0 .. ShmFrames /\ shmNextId \in 1 .. ShmIds + 1 BY Zenon, <2>2
    <2>14. 0 <= shmFree /\ shmFree = shmFree - 0 BY <2>13
    <2>15. shmNextId <= shmNextId /\ i \in Nat /\ shmNextId \in Nat BY <2>13
    <2>4. p - p = 0 /\ 0 <= shmFree /\ shmFree = shmFree - 0 /\ shmNextId <= shmNextId /\ i \in Nat /\ shmNextId \in Nat
      BY Zenon, <2>12, <2>14, <2>15
    <2>5. shmRegion' = [shmRegion EXCEPT ![i] = [pages |-> p, refcount |-> shmRegion[i].refcount + 1]]
      <3>1. [shmRegion[i] EXCEPT !.refcount = @ + 1] = [pages |-> p, refcount |-> shmRegion[i].refcount + 1]
        BY <2>2
      <3> QED BY Zenon, <2>1, <3>1
    <2>6. p - p <= shmFree /\ shmFree' = shmFree - (p - p) BY Zenon, <2>1, <2>4
    <2>7. Takes(t, i, p) BY Zenon, <2>1, <2>5, <2>6 DEF Takes
    <2>8. i < shmNextId'
      <3>1. ~(i >= shmNextId) BY Zenon, <2>1 DEF ShmInv
      <3> QED BY <2>1, <2>4, <3>1
    <2>9. shmMapped' \subseteq {ShmSpace[u] : u \in ShmTask} \X (1 .. ShmIds)
      <3> DEFINE P == {ShmSpace[u] : u \in ShmTask} \X (1 .. ShmIds)
                 pair == <<ShmSpace[t], i>>
      <3>1. pair \in P OBVIOUS
      <3> HIDE DEF P, pair
      <3>2. shmMapped \subseteq P BY Zenon, <2>2 DEF P
      <3>3. shmMapped' = shmMapped \cup {pair} BY Zenon, <2>1 DEF pair
      <3> QED BY Zenon, <3>1, <3>2, <3>3 DEF P
    <2>10. shmNextId' \in 1 .. ShmIds + 1 /\ shmNextId <= shmNextId' /\ shmTasks' = shmTasks BY Zenon, <2>1, <2>2, <2>4
    <2> HIDE DEF p
    <2> QED BY Zenon, <2>3, <2>7, <2>8, <2>9, <2>10, TakesKeeps
  <1>4. ASSUME UNCHANGED <<shmRegion, shmNextId, shmRefs, shmFree>>,
               shmMapped' \subseteq {ShmSpace[u] : u \in ShmTask} \X (1 .. ShmIds),
               shmTasks' \in [ShmTask -> {"live", "dead", "gone"}]
        PROVE  ShmInv'
    <2>1. ShmTypeOK' BY Zenon, <1>1, <1>4 DEF ShmTypeOK
    <2>2. ShmRefsExact' BY Zenon, <1>4 DEF ShmInv, ShmRefsExact, RefsTo
    <2>3. ShmWithinLimit' BY Zenon, <1>4 DEF ShmInv, ShmWithinLimit, PagesOf
    <2> QED BY Zenon, <1>4, <2>1, <2>2, <2>3 DEF ShmInv
  <1>5. /\ shmTasks \in [ShmTask -> {"live", "dead", "gone"}]
        /\ shmMapped \subseteq {ShmSpace[u] : u \in ShmTask} \X (1 .. ShmIds)
    BY Zenon, <1>1 DEF ShmTypeOK
  <1>6. ASSUME NEW t \in ShmTask, NEW i \in 1 .. ShmIds, MapFails(t, i) PROVE ShmInv'
    <2>1. shmMapped' = shmMapped \cup {<<ShmSpace[t], i>>} /\ UNCHANGED <<shmRegion, shmNextId, shmRefs, shmFree, shmTasks>>
      BY Zenon, <1>6 DEF MapFails
    <2>2. shmMapped' \subseteq {ShmSpace[u] : u \in ShmTask} \X (1 .. ShmIds)
      <3> DEFINE P == {ShmSpace[u] : u \in ShmTask} \X (1 .. ShmIds)
                 pair == <<ShmSpace[t], i>>
      <3>1. pair \in P OBVIOUS
      <3> HIDE DEF P, pair
      <3>2. shmMapped \subseteq P BY Zenon, <1>5 DEF P
      <3>3. shmMapped' = shmMapped \cup {pair} BY Zenon, <2>1 DEF pair
      <3> QED BY Zenon, <3>1, <3>2, <3>3 DEF P
    <2> QED BY Zenon, <1>4, <1>5, <2>1, <2>2
  <1>7. ASSUME NEW t \in ShmTask, ShmKill(t) PROVE ShmInv'
    <2>1. shmTasks' \in [ShmTask -> {"live", "dead", "gone"}] BY <1>5, <1>7 DEF ShmKill
    <2> QED BY Zenon, <1>4, <1>5, <1>7, <2>1 DEF ShmKill
  <1>8. ASSUME NEW t \in ShmTask, ShmExec(t) \/ ShmExit(t) \/ ShmCleanup(t) PROVE ShmInv'
    <2>1. drop_task_shmem_refs(t) /\ shmNextId' = shmNextId BY Zenon, <1>8 DEF ShmExec, ShmExit, ShmCleanup
    <2>2. shmMapped' \subseteq shmMapped BY <1>8 DEF ShmExec, ShmExit, ShmCleanup
    <2>3. shmTasks' \in [ShmTask -> {"live", "dead", "gone"}] BY <1>5, <1>8 DEF ShmExec, ShmExit, ShmCleanup
    <2> QED BY Zenon, <2>1, <2>2, <2>3, DropKeeps
  <1>9. CASE UNCHANGED shmVars BY Zenon, <1>4, <1>5, <1>9 DEF shmVars
  <1> QED BY Zenon, <1>2, <1>3, <1>6, <1>7, <1>8, <1>9 DEF ShmNext

\* The boot: no region, no reference, all frames free.
LEMMA ShmStart == ShmInit => ShmInv
  <1> SUFFICES ASSUME ShmInit PROVE ShmInv BY Zenon
  <1> USE ShmAssumption
  <1>1. Freed \in [pages : ShmPages \cup {0}, refcount : Nat] /\ Freed.refcount = 0 /\ Freed.pages = 0 BY DEF Freed
  <1>2. /\ shmRegion \in [1 .. ShmIds -> [pages : ShmPages \cup {0}, refcount : Nat]]
        /\ \A i \in 1 .. ShmIds : shmRegion[i] = Freed
    BY <1>1 DEF ShmInit
  <1>3. /\ shmRefs \in [ShmTask -> [1 .. ShmIds -> Nat]]
        /\ \A t \in ShmTask, i \in 1 .. ShmIds : shmRefs[t][i] = 0
    BY DEF ShmInit
  <1>4. /\ shmNextId \in 1 .. ShmIds + 1 /\ shmFree \in 0 .. ShmFrames /\ shmFree = ShmFrames /\ shmMapped = {}
        /\ shmTasks \in [ShmTask -> {"live", "dead", "gone"}]
    BY DEF ShmInit
  <1>5. ShmTypeOK BY Zenon, <1>2, <1>3, <1>4 DEF ShmTypeOK
  <1>6. ASSUME NEW i \in 1 .. ShmIds PROVE shmRegion[i].refcount = RefsTo(i)
    <2>1. RefRow(i) \in [1 .. ShmTasks -> Nat] BY Zenon, <1>5, RowTypes
    <2>2. \A t \in 1 .. ShmTasks : RefRow(i)[t] = 0 BY <1>3 DEF RefRow, ShmTask
    <2>3. Total(RefRow(i), ShmTasks) = 0 BY Zenon, <2>1, <2>2, TotalOfNone
    <2> QED BY Zenon, <1>1, <1>2, <2>3 DEF RefsTo, RefRow
  <1>7. shmFree + Total(PageRow, ShmIds) = ShmFrames
    <2>1. PageRow \in [1 .. ShmIds -> Nat] BY Zenon, <1>5, RowTypes
    <2>2. \A i \in 1 .. ShmIds : PageRow[i] = 0 BY <1>1, <1>2 DEF PageRow
    <2>3. Total(PageRow, ShmIds) = 0 BY Zenon, <2>1, <2>2, TotalOfNone
    <2> QED BY <1>4, <2>3
  <1>8. ASSUME NEW t \in ShmTask PROVE PagesOf(t) <= ShmTaskPages
    <2>1. TaskRow(t) \in [1 .. ShmIds -> Nat] BY Zenon, <1>5, RowTypes
    <2>5. \A i \in 1 .. ShmIds : TaskRow(t)[i] = shmRefs[t][i] * shmRegion[i].pages BY Zenon DEF TaskRow
    <2>6. 0 * 0 = 0 OBVIOUS
    <2>2. \A i \in 1 .. ShmIds : TaskRow(t)[i] = 0 BY Zenon, <1>1, <1>2, <1>3, <2>5, <2>6
    <2>3. Total(TaskRow(t), ShmIds) = 0 BY Zenon, <2>1, <2>2, TotalOfNone
    <2>4. PagesOf(t) = 0 BY Zenon, <2>3 DEF PagesOf, TaskRow
    <2> QED BY <2>4
  <1>9. ShmRefsExact BY Zenon, <1>6, <1>7 DEF ShmRefsExact, PageRow
  <1>10. ShmWithinLimit BY Zenon, <1>8 DEF ShmWithinLimit
  <1> QED BY Zenon, <1>2, <1>5, <1>9, <1>10 DEF ShmInv, Real

\* For any number of tasks, regions and frames: the count of a region is the
\* number of references that tasks hold to it, and every frame is free or of a
\* region that somebody holds, whatever is created, mapped again, dropped by an
\* exit or an exec, or killed (vfs.rs).
THEOREM SharedMemoryIsCounted == ShmSpec => []ShmRefsExact
  <1>1. ShmInv => ShmRefsExact BY DEF ShmInv
  <1> QED BY <1>1, ShmStart, ShmStep, PTL DEF ShmSpec

\* No task ever holds references to more pages than MAX_SHMEM_BYTES_PER_TASK
\* allows, and no count leaves its type.
THEOREM SharedMemoryIsBounded == ShmSpec => [](ShmTypeOK /\ ShmWithinLimit)
  <1>1. ShmInv => ShmTypeOK /\ ShmWithinLimit BY DEF ShmInv
  <1> QED BY <1>1, ShmStart, ShmStep, PTL DEF ShmSpec

-----------------------------------------------------------------------------

\* head is len places behind tail, on the ring.
Inv == TypeOK /\ head = (tail + len) % PIPE_SIZE

\* The remainder of a number that is less than two turns of the ring.
LEMMA Wrap ==
    ASSUME NEW x \in Nat, x < PIPE_SIZE + PIPE_SIZE
    PROVE  /\ x < PIPE_SIZE => x % PIPE_SIZE = x
           /\ x >= PIPE_SIZE => x % PIPE_SIZE = x - PIPE_SIZE
  <1>1. CASE x < PIPE_SIZE BY <1>1, PipeAssumption, SMT
  <1>2. CASE x >= PIPE_SIZE BY <1>2, PipeAssumption, SMT
  <1> QED BY <1>1, <1>2, PipeAssumption

\* Places less than a turn apart are different slots of the ring.
LEMMA OneTurn ==
    ASSUME NEW t \in Slot, NEW i \in 0 .. PIPE_SIZE - 1, NEW j \in 0 .. PIPE_SIZE - 1
    PROVE  /\ (t + i) % PIPE_SIZE \in Slot
           /\ (t + i) % PIPE_SIZE = (t + j) % PIPE_SIZE => i = j
  <1>1. t + i \in Nat /\ t + i < PIPE_SIZE + PIPE_SIZE /\ t + j \in Nat /\ t + j < PIPE_SIZE + PIPE_SIZE
    BY PipeAssumption DEF Slot
  <1>2. /\ t + i < PIPE_SIZE => (t + i) % PIPE_SIZE = t + i
        /\ t + i >= PIPE_SIZE => (t + i) % PIPE_SIZE = t + i - PIPE_SIZE
    BY <1>1, Wrap, PipeAssumption DEF Slot
  <1>3. /\ t + j < PIPE_SIZE => (t + j) % PIPE_SIZE = t + j
        /\ t + j >= PIPE_SIZE => (t + j) % PIPE_SIZE = t + j - PIPE_SIZE
    BY <1>1, Wrap, PipeAssumption DEF Slot
  <1> QED BY <1>2, <1>3, PipeAssumption DEF Slot

\* A place counted from the place len behind t is a place counted from t.
LEMMA Turn ==
    ASSUME NEW t \in Slot, NEW i \in 0 .. PIPE_SIZE, NEW j \in 0 .. PIPE_SIZE, i + j <= PIPE_SIZE
    PROVE  (((t + i) % PIPE_SIZE) + j) % PIPE_SIZE = (t + i + j) % PIPE_SIZE
  <1> DEFINE h == (t + i) % PIPE_SIZE
  <1>1. t + i \in Nat /\ t + i < PIPE_SIZE + PIPE_SIZE /\ t + i + j \in Nat /\ t + i + j < PIPE_SIZE + PIPE_SIZE
    BY PipeAssumption DEF Slot
  <1>2. /\ t + i < PIPE_SIZE => h = t + i
        /\ t + i >= PIPE_SIZE => h = t + i - PIPE_SIZE
    BY <1>1, Wrap, PipeAssumption DEF Slot
  <1>3. /\ t + i + j < PIPE_SIZE => (t + i + j) % PIPE_SIZE = t + i + j
        /\ t + i + j >= PIPE_SIZE => (t + i + j) % PIPE_SIZE = t + i + j - PIPE_SIZE
    BY <1>1, Wrap, PipeAssumption DEF Slot
  <1>4. h + j \in Nat /\ h + j < PIPE_SIZE + PIPE_SIZE
    BY <1>1, <1>2, PipeAssumption DEF Slot
  <1>5. /\ h + j < PIPE_SIZE => (h + j) % PIPE_SIZE = h + j
        /\ h + j >= PIPE_SIZE => (h + j) % PIPE_SIZE = h + j - PIPE_SIZE
    BY <1>4, Wrap, PipeAssumption DEF Slot
  <1> QED BY <1>1, <1>2, <1>3, <1>5, PipeAssumption DEF Slot

\* Pipe::new().
LEMMA InitInv == new => Inv
  <1> SUFFICES ASSUME new PROVE Inv BY Zenon
  <1>1. TypeOK BY PipeAssumption DEF new, TypeOK, Slot
  <1>2. (0 + 0) % PIPE_SIZE = 0 BY PipeAssumption, Wrap
  <1> QED BY <1>1, <1>2 DEF new, Inv

\* Pipe::write() appends to the channel what fits.
LEMMA WriteStep ==
    ASSUME Inv, NEW k \in 0 .. Chunk, NEW input \in [1 .. k -> Byte], write(input)
    PROVE  Inv' /\ Channel!Send(input)
  <1> DEFINE n == Lesser(Len(input), PIPE_SIZE - len)
             S(j) == (head + j - 1) % PIPE_SIZE
             T(j) == (tail + j - 1) % PIPE_SIZE
  <1>1. /\ k \in Nat /\ Len(input) = k /\ input \in Seq(Byte)
        /\ len \in 0 .. PIPE_SIZE /\ tail \in Slot /\ head \in Slot /\ buf \in [Slot -> Byte]
    BY PipeAssumption DEF Inv, TypeOK
  <1>2. n \in 0 .. (PIPE_SIZE - len) /\ n <= k
    BY <1>1, PipeAssumption DEF Lesser
  <1>3. \A j \in 1 .. n : S(j) = T(len + j)
    <2> SUFFICES ASSUME NEW j \in 1 .. n PROVE S(j) = T(len + j) OBVIOUS
    <2>1. head + j - 1 = head + (j - 1) /\ tail + (len + j) - 1 = tail + len + (j - 1)
      BY <1>1, <1>2, PipeAssumption DEF Slot
    <2>2. j - 1 \in 0 .. PIPE_SIZE /\ len + (j - 1) <= PIPE_SIZE
      BY <1>1, <1>2, PipeAssumption
    <2>3. (((tail + len) % PIPE_SIZE) + (j - 1)) % PIPE_SIZE = (tail + len + (j - 1)) % PIPE_SIZE
      BY <1>1, <2>2, Turn
    <2> QED BY <2>1, <2>3 DEF Inv
  <1>4. \A i, j \in 1 .. (len + n) : T(i) \in Slot /\ (T(i) = T(j) => i = j)
    <2> SUFFICES ASSUME NEW i \in 1 .. (len + n), NEW j \in 1 .. (len + n)
                 PROVE  T(i) \in Slot /\ (T(i) = T(j) => i = j)
      OBVIOUS
    <2>1. /\ tail + i - 1 = tail + (i - 1) /\ tail + j - 1 = tail + (j - 1)
          /\ i - 1 \in 0 .. PIPE_SIZE - 1 /\ j - 1 \in 0 .. PIPE_SIZE - 1
      BY <1>1, <1>2, PipeAssumption DEF Slot
    <2>2. /\ (tail + (i - 1)) % PIPE_SIZE \in Slot
          /\ (tail + (i - 1)) % PIPE_SIZE = (tail + (j - 1)) % PIPE_SIZE => i - 1 = j - 1
      BY <1>1, <2>1, OneTurn
    <2>3. i - 1 = j - 1 => i = j
      BY <1>1, <1>2, PipeAssumption
    <2> QED BY <2>1, <2>2, <2>3
  <1>5. /\ len' = len + n /\ tail' = tail /\ out' = out /\ head' = (head + n) % PIPE_SIZE
        /\ buf' = [i \in Slot |-> IF \E j \in 1 .. n : i = S(j)
                                  THEN input[CHOOSE j \in 1 .. n : i = S(j)]
                                  ELSE buf[i]]
    BY DEF write
  <1> HIDE DEF n, S, T
  \* The bytes that were there stay, the new ones follow them.
  <1>6. \A i \in 1 .. len : buf'[T(i)] = buf[T(i)]
    <2> SUFFICES ASSUME NEW i \in 1 .. len PROVE buf'[T(i)] = buf[T(i)] OBVIOUS
    <2>1. i \in 1 .. (len + n) /\ \A j \in 1 .. n : len + j \in 1 .. (len + n) /\ len + j # i
      BY <1>1, <1>2, PipeAssumption
    <2>2. ~ \E j \in 1 .. n : T(i) = S(j)
      BY <1>3, <1>4, <2>1
    <2>3. T(i) \in Slot
      BY <1>4, <2>1
    <2> QED BY <1>5, <2>2, <2>3
  <1>7. \A j \in 1 .. n : buf'[T(len + j)] = input[j]
    <2> SUFFICES ASSUME NEW j \in 1 .. n PROVE buf'[T(len + j)] = input[j] OBVIOUS
    <2>1. \A m \in 1 .. n : len + m \in 1 .. (len + n)
      BY <1>1, <1>2, PipeAssumption
    <2>2. \A m \in 1 .. n : T(len + j) = S(m) => len + m = len + j
      BY <1>3, <1>4, <2>1
    <2>3. \A m \in 1 .. n : len + m = len + j => m = j
      BY <1>1, <1>2, PipeAssumption
    <2>4. T(len + j) = S(j) /\ T(len + j) \in Slot
      BY <1>3, <1>4, <2>1
    <2>5. (CHOOSE m \in 1 .. n : T(len + j) = S(m)) = j
      BY <2>2, <2>3, <2>4
    <2> QED BY <1>5, <2>4, <2>5
  <1>8. Inv'
    <2>1. len' \in 0 .. PIPE_SIZE
      BY <1>1, <1>2, <1>5, PipeAssumption
    <2>2. (head + n) % PIPE_SIZE = (tail + (len + n)) % PIPE_SIZE
      <3>1. (((tail + len) % PIPE_SIZE) + n) % PIPE_SIZE = (tail + len + n) % PIPE_SIZE
        <4>1. n \in 0 .. PIPE_SIZE /\ len + n <= PIPE_SIZE
          BY <1>1, <1>2, PipeAssumption
        <4> QED BY <1>1, <4>1, Turn
      <3>2. tail + len + n = tail + (len + n)
        BY <1>1, <1>2, PipeAssumption DEF Slot
      <3> QED BY <3>1, <3>2 DEF Inv
    <2>3. (head + n) % PIPE_SIZE \in Slot
      BY <1>1, <1>2, PipeAssumption DEF Slot
    <2>4. buf' \in [Slot -> Byte]
      <3>1. \A m \in 1 .. n : input[m] \in Byte
        BY <1>1, <1>2
      <3>2. \A i \in Slot : (\E j \in 1 .. n : i = S(j)) => (CHOOSE j \in 1 .. n : i = S(j)) \in 1 .. n
        OBVIOUS
      <3> QED BY <1>1, <1>5, <3>1, <3>2
    <2> QED BY <1>1, <1>5, <2>1, <2>2, <2>3, <2>4 DEF Inv, TypeOK
  <1>9. Channel!Send(input)
    <2>1. Contents \in Seq(Byte) /\ Len(Contents) = len /\ \A i \in 1 .. len : Contents[i] = buf[T(i)]
      <3>1. \A i \in 1 .. len : T(i) \in Slot
        <4>1. \A i \in 1 .. len : i \in 1 .. (len + n)
          BY <1>1, <1>2, PipeAssumption
        <4> QED BY <1>4, <4>1
      <3>2. Contents = [i \in 1 .. len |-> buf[T(i)]]
        BY DEF Contents, T
      <3> QED BY <1>1, <3>1, <3>2
    <2>2. Contents' = [i \in 1 .. (len + n) |-> buf'[T(i)]]
      BY <1>5 DEF Contents, T
    <2> DEFINE s == SubSeq(input, 1, n)
    <2>3. s \in Seq(Byte) /\ Len(s) = n /\ \A j \in 1 .. n : s[j] = input[j]
      BY <1>1, <1>2, PipeAssumption
    <2> HIDE DEF s
    <2>4. /\ Contents \o s \in Seq(Byte) /\ Len(Contents \o s) = len + n
          /\ \A i \in 1 .. (len + n) :
                (Contents \o s)[i] = IF i <= len THEN Contents[i] ELSE s[i - len]
      BY Zenon, <2>1, <2>3, SeqConcat
    <2>5. ASSUME NEW i \in 1 .. (len + n)
          PROVE  buf'[T(i)] = IF i <= len THEN Contents[i] ELSE s[i - len]
      <3>1. CASE i <= len
        <4>1. i \in 1 .. len BY <1>1, <1>2, <3>1
        <4> QED BY <1>6, <2>1, <3>1, <4>1
      <3>2. CASE ~(i <= len)
        <4>1. i - len \in 1 .. n /\ len + (i - len) = i BY <1>1, <1>2, <3>2, PipeAssumption
        <4>2. buf'[T(len + (i - len))] = input[i - len] BY <1>7, <4>1
        <4> QED BY <2>3, <3>2, <4>1, <4>2
      <3> QED BY <3>1, <3>2
    <2>6. Contents' = Contents \o s
      <3> DEFINE d == Contents \o s
                 m == len + n
                 c == [i \in 1 .. m |-> buf'[T(i)]]
      <3>1. m \in Nat /\ d \in Seq(Byte) /\ Len(d) = m
        BY <1>1, <1>2, <2>4, PipeAssumption
      <3>2. \A i \in 1 .. m : buf'[T(i)] = d[i]
        BY <2>4, <2>5
      <3> HIDE DEF d, m
      <3>3. \A i \in 1 .. m : d[i] \in Byte
        BY <3>1
      <3>4. c \in Seq(Byte) /\ Len(c) = m /\ \A i \in 1 .. m : c[i] = d[i]
        BY <3>1, <3>2, <3>3
      <3>5. c = d
        BY <3>1, <3>4, SeqEquals
      <3> QED BY <2>2, <3>5 DEF d, m
    <2>7. n = IF Len(input) > PIPE_SIZE - Len(Contents) THEN PIPE_SIZE - Len(Contents) ELSE Len(input)
      BY <1>1, <2>1, PipeAssumption DEF n, Lesser
    <2> QED BY <1>5, <2>6, <2>7 DEF Channel!Send, s
  <1> QED BY <1>8, <1>9

\* Pipe::read() takes the oldest bytes of the channel.
LEMMA ReadStep ==
    ASSUME Inv, NEW want \in 0 .. Chunk, read(want)
    PROVE  Inv' /\ Channel!Receive(want)
  <1> DEFINE n == Lesser(want, len)
             T(j) == (tail + j - 1) % PIPE_SIZE
  <1>1. /\ want \in Nat /\ len \in 0 .. PIPE_SIZE /\ len \in Nat /\ tail \in Slot
        /\ head \in Slot /\ buf \in [Slot -> Byte]
    BY PipeAssumption DEF Inv, TypeOK
  <1>2. n \in 0 .. len
    BY <1>1 DEF Lesser
  <1>3. \A i \in 1 .. len : T(i) \in Slot
    <2> SUFFICES ASSUME NEW i \in 1 .. len PROVE T(i) \in Slot OBVIOUS
    <2>1. tail + i - 1 = tail + (i - 1) /\ i - 1 \in 0 .. PIPE_SIZE - 1
      BY <1>1, PipeAssumption DEF Slot
    <2>2. (tail + (i - 1)) % PIPE_SIZE \in Slot
      BY <1>1, <2>1, OneTurn
    <2> QED BY <2>1, <2>2
  <1>4. \A j \in 1 .. (len - n) : (((tail + n) % PIPE_SIZE) + j - 1) % PIPE_SIZE = T(n + j)
    <2> SUFFICES ASSUME NEW j \in 1 .. (len - n)
                 PROVE  (((tail + n) % PIPE_SIZE) + j - 1) % PIPE_SIZE = T(n + j)
      OBVIOUS
    <2>1. tail + (n + j) - 1 = tail + n + (j - 1) /\ j - 1 \in 0 .. PIPE_SIZE
          /\ n \in 0 .. PIPE_SIZE /\ n + (j - 1) <= PIPE_SIZE
      BY <1>1, <1>2, PipeAssumption DEF Slot
    <2>2. (((tail + n) % PIPE_SIZE) + (j - 1)) % PIPE_SIZE = (tail + n + (j - 1)) % PIPE_SIZE
      BY <1>1, <2>1, Turn
    <2>3. (tail + n) % PIPE_SIZE \in Nat
      BY <1>1, <1>2, PipeAssumption DEF Slot
    <2>4. ((tail + n) % PIPE_SIZE) + j - 1 = ((tail + n) % PIPE_SIZE) + (j - 1)
      BY <1>1, <1>2, <2>3
    <2> QED BY <2>1, <2>2, <2>4
  <1>5. /\ out' = [k \in 1 .. n |-> buf[T(k)]] /\ tail' = (tail + n) % PIPE_SIZE
        /\ len' = len - n /\ buf' = buf /\ head' = head
    BY DEF read
  <1> HIDE DEF n, T
  <1>6. Inv'
    <2>1. (tail + n) % PIPE_SIZE \in Slot
      BY <1>1, <1>2, PipeAssumption DEF Slot
    <2>2. (((tail + n) % PIPE_SIZE) + (len - n)) % PIPE_SIZE = (tail + len) % PIPE_SIZE
      <3>1. n \in 0 .. PIPE_SIZE /\ len - n \in 0 .. PIPE_SIZE /\ n + (len - n) <= PIPE_SIZE
            /\ tail + n + (len - n) = tail + len
        BY <1>1, <1>2, PipeAssumption DEF Slot
      <3> QED BY <1>1, <3>1, Turn
    <2>3. out' \in Seq(Byte) /\ len' \in 0 .. PIPE_SIZE
      BY <1>1, <1>2, <1>3, <1>5, PipeAssumption
    <2> QED BY <1>1, <1>5, <2>1, <2>2, <2>3 DEF Inv, TypeOK
  <1>7. Channel!Receive(want)
    <2>1. Contents \in Seq(Byte) /\ Len(Contents) = len /\ \A i \in 1 .. len : Contents[i] = buf[T(i)]
      <3>1. Contents = [i \in 1 .. len |-> buf[T(i)]]
        BY DEF Contents, T
      <3> QED BY <1>1, <1>3, <3>1
    <2>2. out' = SubSeq(Contents, 1, n)
      <3>1. SubSeq(Contents, 1, n) = [i \in 1 .. n |-> Contents[i]]
        BY <1>1, <1>2, <2>1
      <3>2. \A i \in 1 .. n : buf[T(i)] = Contents[i]
        BY <1>1, <1>2, <2>1
      <3> QED BY <1>5, <3>1, <3>2
    <2>3. Contents' = SubSeq(Contents, n + 1, Len(Contents))
      <3>1. SubSeq(Contents, n + 1, Len(Contents)) = [i \in 1 .. (len - n) |-> Contents[n + i]]
        BY <1>1, <1>2, <2>1
      <3>2. Contents' = [i \in 1 .. (len - n) |-> buf[(((tail + n) % PIPE_SIZE) + i - 1) % PIPE_SIZE]]
        BY <1>5 DEF Contents
      <3>3. \A i \in 1 .. (len - n) :
              buf[(((tail + n) % PIPE_SIZE) + i - 1) % PIPE_SIZE] = Contents[n + i]
        <4>1. \A i \in 1 .. (len - n) : n + i \in 1 .. len
          BY <1>1, <1>2
        <4> QED BY <1>4, <2>1, <4>1
      <3> QED BY <3>1, <3>2, <3>3
    <2>4. n = IF want > Len(Contents) THEN Len(Contents) ELSE want
      BY <1>1, <2>1 DEF n, Lesser
    <2> QED BY <2>2, <2>3, <2>4 DEF Channel!Receive
  <1> QED BY <1>6, <1>7

\* Every step of the ring is a step of the channel.
LEMMA NextInv == Inv /\ [Next]_vars => Inv' /\ [Channel!Next]_<<Contents, out>>
  <1> SUFFICES ASSUME Inv, [Next]_vars PROVE Inv' /\ [Channel!Next]_<<Contents, out>>
    OBVIOUS
  <1>1. ASSUME NEW k \in 0 .. Chunk, NEW input \in [1 .. k -> Byte], write(input)
        PROVE  Inv' /\ Channel!Next
    BY <1>1, WriteStep DEF Channel!Next
  <1>2. ASSUME NEW want \in 0 .. Chunk, read(want)
        PROVE  Inv' /\ Channel!Next
    BY <1>2, ReadStep DEF Channel!Next
  <1>3. CASE UNCHANGED vars
    BY <1>3 DEF vars, Inv, TypeOK, Contents
  <1> QED BY <1>1, <1>2, <1>3 DEF Next

\* struct Pipe: head, tail and len stay inside the ring and out holds bytes.
THEOREM PipeTypeCorrect == Spec => []TypeOK
  <1>1. Inv => TypeOK BY DEF Inv
  <1> QED BY InitInv, NextInv, <1>1, PTL DEF Spec

\* Pipe::read and Pipe::write implement a first-in first-out channel of the
\* ring's size: no byte is lost, repeated or overtaken, for every size.
THEOREM PipeIsFifo == Spec => ImplementsFifo
  <1>1. new => Channel!Init
    BY DEF new, Channel!Init, Contents
  <1> QED BY InitInv, NextInv, <1>1, PTL DEF Spec, ImplementsFifo, Channel!Spec

-----------------------------------------------------------------------------
\* What TtyReaderIsWoken rests on: while task 0 carries a key to the terminal
\* it has nobody left to wake, so take_readers() forgets no earlier wake-up.
TtyInv ==
    /\ ttyTasks \in [TtyTask -> [status : {"Ready", "Blocked", "Dead"}, at : {"user", "read", "poll"}]]
    /\ ttyKey # NoKey => ttyKey.key \in TtyKeys /\ ttyWakes = {}
    /\ TtyReaderIsWoken

\* Task 0 submits a key: whoever changes the input or reports its end takes the
\* waiting readers along.
LEMMA SubmitStep ==
    ASSUME TtyInv, forward_foreground_input
    PROVE  \/ UNCHANGED <<ttyInput, ttyEof, ttyWakes, ttyWaiting>>
           \/ TakeReaders
<1> USE DEF forward_foreground_input
<1>1. \A bytes : submit_char(bytes) => (NoReaders /\ UNCHANGED <<ttyInput, ttyEof>>) \/ TakeReaders
  BY DEF submit_char, EditLine, push_raw_input
<1>2. submit_enter => TakeReaders
  BY DEF submit_enter, flush_line, push_raw_input
<1>3. submit_backspace => (NoReaders /\ UNCHANGED <<ttyInput, ttyEof>>) \/ TakeReaders
  BY DEF submit_backspace, push_raw_input
<1>4. \A bytes : submit_bytes(bytes) => (NoReaders /\ UNCHANGED <<ttyInput, ttyEof>>) \/ TakeReaders
  BY DEF submit_bytes, push_raw_input
<1>5. submit_eof => TakeReaders
  BY DEF submit_eof, flush_line
<1>6. ttyKey.key \in TtyKeys
  BY DEF TtyInv
<1> QED BY Zenon, <1>1, <1>2, <1>3, <1>4, <1>5, <1>6 DEF NoReaders, TtyKeys

\* Every step of keys, readers, mode changes and task 0.
LEMMA TtyStep == TtyInv /\ [TtyNext]_ttyVars => TtyInv'
<1> SUFFICES ASSUME TtyInv, [TtyNext]_ttyVars PROVE TtyInv'
  OBVIOUS
<1> USE DEF TtyInv, TtyReaderIsWoken, InputReady
<1>1. CASE \E key \in TtyKeys : ReadMode(key)
  BY <1>1 DEF ReadMode
<1>2. CASE forward_foreground_input
  <2>1. ttyWakes = {} /\ ttyKey' = NoKey /\ UNCHANGED ttyTasks
    BY <1>2 DEF forward_foreground_input
  <2>2. CASE UNCHANGED <<ttyInput, ttyEof, ttyWakes, ttyWaiting>>
    BY <2>1, <2>2
  <2>3. CASE TakeReaders
    BY <2>1, <2>3 DEF TakeReaders
  <2> QED BY <1>2, <2>2, <2>3, SubmitStep
<1>3. CASE wake_readers
  <2>1. PICK t \in ttyWakes :
          /\ ttyWakes' = ttyWakes \ {t} /\ ttyTasks' = Unblock(t)
          /\ UNCHANGED <<ttyInput, ttyEof, ttyWaiting, ttyKey>>
    BY <1>3 DEF wake_readers
  <2>2. /\ ttyTasks' \in [TtyTask -> [status : {"Ready", "Blocked", "Dead"}, at : {"user", "read", "poll"}]]
        /\ \A u \in TtyTask : ttyTasks'[u].status = "Blocked" => u # t /\ ttyTasks[u].status = "Blocked"
    BY Zenon, <2>1 DEF Unblock
  <2> QED BY <2>1, <2>2
<1>4. ASSUME NEW t \in TtyTask, read_input_blocking(t)
      PROVE  TtyInv'
  <2>1. PICK max \in 1 .. 2 : ReadPass(t, max)
    BY <1>4 DEF read_input_blocking
  <2> QED BY <1>4, <2>1 DEF read_input_blocking, ReadPass
<1>5. ASSUME NEW t \in TtyTask, PollTty(t) \/ PollExpires(t)
      PROVE  TtyInv'
  BY <1>5 DEF PollTty, PollExpires
<1>6. ASSUME NEW t \in TtyTask, set_input_mode(t) \/ WokenElsewhere(t)
      PROVE  TtyInv'
  BY <1>6 DEF set_input_mode, WokenElsewhere
<1>7. CASE UNCHANGED ttyVars
  BY <1>7 DEF ttyVars
<1> QED BY <1>1, <1>2, <1>3, <1>4, <1>5, <1>6, <1>7 DEF TtyNext

\* tty.rs: a task that sleeps for input sleeps only while there is none and the
\* terminal knows it, or task 0 is about to wake it, for any number of readers,
\* keys and mode changes in between.
THEOREM ReadersAreWoken == TtySpec => []TtyReaderIsWoken
<1>1. TtyInit => TtyInv
  BY DEF TtyInit, TtyInv, TtyReaderIsWoken
<1>2. TtyInv => TtyReaderIsWoken
  BY DEF TtyInv
<1> QED BY <1>1, <1>2, TtyStep, PTL DEF TtySpec

\* tty.rs: the end of file is consumed only by a read that finds the input
\* empty, so what was typed before it is read before it.
THEOREM EofIsLast == TtySpec => TtyEofIsLast
<1>1. TtyInv /\ [TtyNext]_ttyVars => [ttyEof /\ ~ttyEof' => ttyInput = <<>>]_ttyVars
  <2> SUFFICES ASSUME TtyInv, TtyNext, ttyEof, ~ttyEof' PROVE ttyInput = <<>>
    OBVIOUS
  <2>1. CASE forward_foreground_input
    <3>1. /\ \A bytes : submit_char(bytes) \/ submit_bytes(bytes) => UNCHANGED ttyEof
          /\ submit_enter \/ submit_backspace => UNCHANGED ttyEof
          /\ submit_eof => ttyEof' = TRUE \/ UNCHANGED ttyEof
      BY Zenon DEF submit_char, submit_enter, submit_backspace, submit_bytes, submit_eof
    <3> QED BY Zenon, <2>1, <3>1 DEF forward_foreground_input, TtyInv, TtyKeys
  <2>2. CASE \E t \in TtyTask : read_input_blocking(t)
    BY Zenon, <2>2 DEF read_input_blocking, ReadPass
  <2> QED BY Zenon, <2>1, <2>2 DEF TtyNext, ReadMode, wake_readers, PollTty, PollExpires, set_input_mode, WokenElsewhere
<1>2. TtyInit => TtyInv
  BY DEF TtyInit, TtyInv, TtyReaderIsWoken
<1> QED BY <1>1, <1>2, TtyStep, PTL DEF TtySpec, TtyEofIsLast
-----------------------------------------------------------------------------
(* Jobs.  The rows of the table have different numbers, all of them given    *)
(* out by NEXT_JOB_ID, and a row's process has been started: this is what    *)
(* lets cancel(), pause() and resume() find the process that a row is about. *)
JobRows ==
    /\ jobTable \in Seq([id : Nat, state : JobStates, pid : JobPid])
    /\ \A i \in DOMAIN jobTable :
         /\ jobTable[i].id < jobNext
         /\ procs[jobTable[i].pid].status # "none"
         /\ \A j \in DOMAIN jobTable : jobTable[i].id = jobTable[j].id => i = j

JobInv ==
    /\ jobNext \in Nat
    /\ procs \in [JobPid -> [status : ProcStatus, group : JobPid \cup {0}]]
    /\ signals \in [ids : SUBSET JobPid, signal : {"none", "INT", "STOP"}]
    /\ signals # NoSignal => signals.signal # "none"
    /\ JobRows
    /\ JobVerdict

\* What every step does to the processes: none goes back to "none", and one that
\* is gone keeps the status it has.
Forward ==
    /\ procs' \in [JobPid -> [status : ProcStatus, group : JobPid \cup {0}]]
    /\ \A p \in JobPid : /\ procs[p].status # "none" => procs'[p].status # "none"
                         /\ procs[p].status \in ProcGone => procs'[p].status = procs[p].status

\* A row that is finished stays so.
FinishedKept ==
    \A i \in DOMAIN jobTable : \A j \in DOMAIN jobTable' :
        jobTable[i].id = jobTable'[j].id /\ jobTable[i].state \in JobFinished
            => jobTable'[j].state \in JobFinished

\* A signal moves a process only towards its end.
LEMMA ForwardSignal ==
    ASSUME JobInv, NEW p \in JobPid, NEW signal \in {"INT", "TERM", "STOP", "CONT"}, SignalOne(p, signal)
    PROVE  Forward /\ (signal = "TERM" /\ procs[p].status # "none" => procs'[p].status \in ProcGone)
BY DEF JobInv, SignalOne, ProcAlive, Signalled, Forward, ProcStatus, ProcGone

\* JobVerdict without its CASE.
LEMMA Verdicts ==
    JobVerdict <=> \A i \in DOMAIN jobTable :
                      /\ jobTable[i].state = "Complete" => procs[jobTable[i].pid].status = "exit0"
                      /\ jobTable[i].state = "Failed" => procs[jobTable[i].pid].status = "exit1"
                      /\ jobTable[i].state = "Cancelled" => procs[jobTable[i].pid].status \in ProcGone
BY DEF JobVerdict

\* What a row of the job table is made of.
LEMMA RowType ==
    ASSUME JobRows
    PROVE  \A i \in DOMAIN jobTable :
              /\ jobTable[i].id \in Nat /\ jobTable[i].state \in JobStates /\ jobTable[i].pid \in JobPid
              /\ jobTable[i] \in [id : Nat, state : JobStates, pid : JobPid]
<1> DEFINE Row == [id : Nat, state : JobStates, pid : JobPid]
<1>1. jobTable \in Seq(Row)
  BY DEF JobRows
<1>2. \A i \in DOMAIN jobTable : jobTable[i] \in Row
  <2> HIDE DEF Row
  <2> QED BY <1>1, SeqLength, SeqElement
<1> QED BY <1>2

\* The rows that a step leaves as they are keep their verdict.
LEMMA SameRows ==
    ASSUME JobInv, Forward, UNCHANGED <<jobTable, jobNext>>
    PROVE  JobRows' /\ JobVerdict'
<1>1. \A i \in DOMAIN jobTable : jobTable[i].pid \in JobPid
  BY RowType DEF JobInv
<1>2. JobRows'
  BY <1>1 DEF JobInv, JobRows, Forward
<1>3. JobVerdict'
  BY <1>1 DEF JobInv, JobVerdict, Forward, ProcGone
<1> QED BY <1>2, <1>3

\* Rows whose state changes, and nothing else, stay in order.
LEMMA NewStates ==
    ASSUME JobInv, Forward, UNCHANGED jobNext,
           jobTable' \in [DOMAIN jobTable -> [id : Nat, state : JobStates, pid : JobPid]],
           \A i \in DOMAIN jobTable :
              jobTable'[i].id = jobTable[i].id /\ jobTable'[i].pid = jobTable[i].pid
    PROVE  JobRows'
<1>1. \A i \in DOMAIN jobTable : jobTable[i].pid \in JobPid
  BY RowType DEF JobInv
<1> DEFINE Row == [id : Nat, state : JobStates, pid : JobPid]
<1>2. jobTable' \in Seq(Row)
  <2>1. jobTable \in Seq(Row)
    BY DEF JobInv, JobRows
  <2> HIDE DEF Row
  <2>2. DOMAIN jobTable = 1 .. Len(jobTable) /\ Len(jobTable) \in Nat
    BY <2>1, SeqLength
  <2>3. jobTable' \in [1 .. Len(jobTable) -> Row]
    BY <2>2 DEF Row
  <2> QED BY <2>2, <2>3, SeqIs
<1>3. DOMAIN jobTable' = DOMAIN jobTable
  OBVIOUS
<1> QED BY Zenon, <1>1, <1>2, <1>3 DEF JobInv, JobRows, Forward

\* cancel(), pause(), resume() and fg: the rows with number id get a new state.
LEMMA SetState ==
    ASSUME JobInv, Forward, UNCHANGED jobNext, NEW id, NEW state \in JobStates, set_state(id, state),
           NEW i \in JobRow(id),
           state \in {"Running", "Paused"} \/ (state = "Cancelled" /\ procs'[jobTable[i].pid].status \in ProcGone)
    PROVE  JobRows' /\ JobVerdict'
<1>1. \A j \in DOMAIN jobTable :
         /\ jobTable[j].id \in Nat /\ jobTable[j].state \in JobStates /\ jobTable[j].pid \in JobPid
         /\ jobTable[j] \in [id : Nat, state : JobStates, pid : JobPid]
  BY RowType DEF JobInv
<1>2. jobTable' = [j \in DOMAIN jobTable |->
                     IF jobTable[j].id = id THEN [jobTable[j] EXCEPT !.state = state] ELSE jobTable[j]]
  BY DEF set_state
<1>3. jobTable' \in [DOMAIN jobTable -> [id : Nat, state : JobStates, pid : JobPid]]
  BY <1>1, <1>2
<1>4. \A j \in DOMAIN jobTable :
         /\ jobTable'[j].id = jobTable[j].id /\ jobTable'[j].pid = jobTable[j].pid
         /\ jobTable'[j].state = IF jobTable[j].id = id THEN state ELSE jobTable[j].state
  BY <1>1, <1>2
<1>5. JobRows'
  BY <1>3, <1>4, NewStates
<1>6. i \in DOMAIN jobTable /\ jobTable[i].id = id /\ \A j \in DOMAIN jobTable : jobTable[j].id = id => j = i
  BY SeqLength DEF JobInv, JobRows, JobRow
<1>7. JobVerdict'
  BY <1>1, <1>3, <1>4, <1>6 DEF JobInv, JobVerdict, Forward, ProcGone
<1> QED BY <1>5, <1>7

\* "job run": the new row has a number of its own; the oldest may go.
LEMMA RunStep ==
    ASSUME JobInv, NEW p \in JobPid, cmd_job_run(p)
    PROVE  Forward /\ jobNext' \in Nat /\ JobRows' /\ JobVerdict' /\ FinishedKept
<1> DEFINE Row == [id : Nat, state : JobStates, pid : JobPid]
           fresh == [id |-> jobNext, state |-> "Running", pid |-> p]
           rows == Append(jobTable, fresh)
<1>1. /\ jobNext \in Nat /\ jobTable \in Seq(Row) /\ fresh \in Row
      /\ procs \in [JobPid -> [status : ProcStatus, group : JobPid \cup {0}]]
  BY DEF JobInv, JobRows, JobStates
<1>2. Forward /\ jobNext' = jobNext + 1 /\ procs'[p].status = "live" /\ procs[p].status = "none"
  BY <1>1 DEF cmd_job_run, UnusedPid, NewProc, Forward, ProcStatus, ProcGone
<1>3. jobTable' = IF Len(rows) > MAX_JOBS THEN Tail(rows) ELSE rows
  BY DEF cmd_job_run
<1> DEFINE Good(row) ==
             /\ row.id \in Nat /\ row.id < jobNext + 1 /\ procs'[row.pid].status # "none"
             /\ row.state = "Complete" => procs'[row.pid].status = "exit0"
             /\ row.state = "Failed" => procs'[row.pid].status = "exit1"
             /\ row.state = "Cancelled" => procs'[row.pid].status \in ProcGone
<1>4. Good(fresh)
  BY <1>1, <1>2
<1>5. DOMAIN jobTable = 1 .. Len(jobTable) /\ Len(jobTable) \in Nat
  <2> HIDE DEF Row
  <2> QED BY <1>1, SeqLength
<1>5a. \A n \in Nat : n < jobNext => n < jobNext + 1
  <2> HIDE DEF Row
  <2> QED BY <1>1
<1>6. \A i \in 1 .. Len(jobTable) : jobTable[i].id < jobNext /\ jobTable[i].id \in Nat /\ Good(jobTable[i])
  <2> SUFFICES ASSUME NEW i \in DOMAIN jobTable
               PROVE  jobTable[i].id < jobNext /\ jobTable[i].id \in Nat /\ Good(jobTable[i])
    BY Zenon, <1>5
  <2>1. /\ jobTable[i].id \in Nat /\ jobTable[i].pid \in JobPid
        /\ jobTable[i].id < jobNext /\ procs[jobTable[i].pid].status # "none"
    BY RowType DEF JobInv, JobRows
  <2>2. /\ procs'[jobTable[i].pid].status # "none"
        /\ procs[jobTable[i].pid].status \in ProcGone
              => procs'[jobTable[i].pid].status = procs[jobTable[i].pid].status
    BY <1>2, <2>1 DEF Forward
  <2>3. /\ jobTable[i].state = "Complete" => procs[jobTable[i].pid].status = "exit0"
        /\ jobTable[i].state = "Failed" => procs[jobTable[i].pid].status = "exit1"
        /\ jobTable[i].state = "Cancelled" => procs[jobTable[i].pid].status \in ProcGone
    BY Verdicts DEF JobInv
  <2> DEFINE y == jobTable[i]
             was == procs[y.pid].status
             is == procs'[y.pid].status
  <2>4. /\ y.state = "Complete" => was = "exit0"
        /\ y.state = "Failed" => was = "exit1"
        /\ y.state = "Cancelled" => was \in ProcGone
        /\ was \in ProcGone => is = was
        /\ is # "none"
    BY Zenon, <2>2, <2>3
  <2> HIDE DEF was, is
  <2>5. /\ y.state = "Complete" => is = "exit0"
        /\ y.state = "Failed" => is = "exit1"
        /\ y.state = "Cancelled" => is \in ProcGone
    <3> HIDE DEF y
    <3> QED BY <2>4 DEF ProcGone
  <2>6. y.id < jobNext /\ y.id \in Nat BY Zenon, <2>1
  <2>7. y.id < jobNext + 1 BY Zenon, <2>6, <1>5a
  <2> QED BY Zenon, <2>4, <2>5, <2>6, <2>7 DEF is
<1>7. \A i, j \in 1 .. Len(jobTable) : jobTable[i].id = jobTable[j].id => i = j
  BY <1>5 DEF JobInv, JobRows
<1> HIDE DEF Row, Good
<1>8. /\ rows \in Seq(Row) /\ Len(rows) = Len(jobTable) + 1
      /\ \A i \in 1 .. Len(jobTable) : rows[i] = jobTable[i]
      /\ rows[Len(jobTable) + 1] = fresh
  BY <1>1, <1>5, SeqAppend
<1>9. fresh.id = jobNext
  OBVIOUS
<1> HIDE DEF rows, fresh
<1>10. \A i \in 1 .. Len(rows) : Good(rows[i])
  BY <1>4, <1>5, <1>6, <1>8
<1>11. \A i, j \in 1 .. Len(rows) : rows[i].id = rows[j].id => i = j
  <2> SUFFICES ASSUME NEW i \in 1 .. Len(rows), NEW j \in 1 .. Len(rows), rows[i].id = rows[j].id
               PROVE  i = j
    BY Zenon
  <2> DEFINE n == Len(jobTable)
  <2>1. n \in Nat /\ Len(rows) = n + 1 BY <1>5, <1>8
  <2>2. \A k \in 1 .. n : rows[k].id = jobTable[k].id /\ jobTable[k].id < jobNext /\ jobTable[k].id \in Nat
    BY Zenon, <1>6, <1>8
  <2>3. rows[n + 1].id = jobNext BY Zenon, <1>8, <1>9
  <2> HIDE DEF n
  <2>4. \A k \in 1 .. n : rows[k].id # jobNext BY <1>1, <2>2
  <2>5. CASE i \in 1 .. n /\ j \in 1 .. n BY Zenon, <1>7, <2>2, <2>5 DEF n
  <2>6. CASE ~(i \in 1 .. n /\ j \in 1 .. n)
    <3>1. (i = n + 1 \/ i \in 1 .. n) /\ (j = n + 1 \/ j \in 1 .. n) BY <2>1
    <3> QED BY Zenon, <2>3, <2>4, <2>6, <3>1
  <2> QED BY Zenon, <2>5, <2>6
<1>12. \/ jobTable' = rows
       \/ /\ jobTable' \in Seq(Row) /\ Len(jobTable') = Len(rows) - 1
          /\ \A i \in 1 .. Len(rows) - 1 : jobTable'[i] = rows[i + 1]
  <2>1. rows # <<>>
    BY <1>5, <1>8, SeqEmpty
  <2> QED BY <1>3, <1>8, <2>1, SeqHeadTail
<1>13. jobTable' \in Seq(Row) /\ DOMAIN jobTable' = 1 .. Len(jobTable')
  BY <1>8, <1>12, SeqLength
<1>14. \A i \in DOMAIN jobTable' : Good(jobTable'[i])
  <2>1. CASE jobTable' = rows
    BY <1>10, <1>13, <2>1
  <2>2. CASE Len(jobTable') = Len(rows) - 1 /\ \A i \in 1 .. Len(rows) - 1 : jobTable'[i] = rows[i + 1]
    <3> SUFFICES ASSUME NEW i \in 1 .. Len(rows) - 1 PROVE Good(jobTable'[i])
      BY <1>13, <2>2
    <3>1. i + 1 \in 1 .. Len(rows)
      BY <1>5, <1>8
    <3> QED BY <1>10, <2>2, <3>1
  <2> QED BY <1>12, <2>1, <2>2
<1>15. \A i, j \in DOMAIN jobTable' : jobTable'[i].id = jobTable'[j].id => i = j
  <2>1. CASE jobTable' = rows
    BY <1>11, <1>13, <2>1
  <2>2. CASE Len(jobTable') = Len(rows) - 1 /\ \A i \in 1 .. Len(rows) - 1 : jobTable'[i] = rows[i + 1]
    <3> SUFFICES ASSUME NEW i \in 1 .. Len(rows) - 1, NEW j \in 1 .. Len(rows) - 1,
                        jobTable'[i].id = jobTable'[j].id
                 PROVE  i = j
      BY <1>13, <2>2
    <3>1. i + 1 \in 1 .. Len(rows) /\ j + 1 \in 1 .. Len(rows)
      BY <1>5, <1>8
    <3>2. i + 1 = j + 1
      BY <1>11, <2>2, <3>1
    <3> QED BY <3>2
  <2> QED BY <1>12, <2>1, <2>2
<1>16. JobRows'
  BY <1>2, <1>13, <1>14, <1>15 DEF JobRows, Row, Good
<1>17. JobVerdict'
  BY <1>14 DEF JobVerdict, Good
<1>18. \A i \in DOMAIN jobTable : \A j \in 1 .. Len(rows) :
          jobTable[i].id = rows[j].id => rows[j] = jobTable[i]
  BY <1>1, <1>5, <1>6, <1>7, <1>8, <1>9
<1>19. \A j \in DOMAIN jobTable' : \E k \in 1 .. Len(rows) : jobTable'[j] = rows[k]
  <2> SUFFICES ASSUME NEW j \in DOMAIN jobTable' PROVE \E k \in 1 .. Len(rows) : jobTable'[j] = rows[k]
    OBVIOUS
  <2>1. CASE jobTable' = rows
    BY <1>13, <2>1
  <2>2. CASE Len(jobTable') = Len(rows) - 1 /\ \A i \in 1 .. Len(rows) - 1 : jobTable'[i] = rows[i + 1]
    <3>1. j \in 1 .. Len(rows) - 1 /\ j + 1 \in 1 .. Len(rows)
      BY <1>5, <1>8, <1>13, <2>2
    <3> QED BY <2>2, <3>1
  <2> QED BY <1>12, <2>1, <2>2
<1>20. FinishedKept
  BY <1>18, <1>19 DEF FinishedKept
<1> QED BY <1>1, <1>2, <1>16, <1>17, <1>20

\* refresh_process_jobs(): a row that is not finished learns what its process does.
LEMMA RefreshStep ==
    ASSUME JobInv, refresh_process_jobs
    PROVE  JobRows' /\ JobVerdict' /\ FinishedKept
<1>1. \A i \in DOMAIN jobTable :
         /\ jobTable[i].id \in Nat /\ jobTable[i].state \in JobStates /\ jobTable[i].pid \in JobPid
         /\ jobTable[i] \in [id : Nat, state : JobStates, pid : JobPid]
         /\ procs[jobTable[i].pid].status \in ProcStatus \ {"none"}
  BY RowType DEF JobInv, JobRows
<1>2. \A i \in DOMAIN jobTable :
         LET fresh == RefreshedState(jobTable[i])
             s == procs[jobTable[i].pid].status
         IN  /\ fresh \in JobStates
             /\ jobTable[i].state \in JobFinished => fresh = jobTable[i].state
             /\ jobTable[i].state \notin JobFinished =>
                   /\ fresh = "Complete" => s = "exit0"
                   /\ fresh = "Failed" => s = "exit1"
                   /\ fresh = "Cancelled" => s \in ProcGone
  <2> TAKE i \in DOMAIN jobTable
  <2>1. CASE jobTable[i].state \in JobFinished
    BY Zenon, <1>1, <2>1 DEF RefreshedState, JobFinished
  <2>2. CASE jobTable[i].state \notin JobFinished
    BY <1>1, <2>2 DEF RefreshedState, JobStates, ProcStatus, ProcGone
  <2> QED BY <2>1, <2>2
<1>3. jobTable' = [i \in DOMAIN jobTable |-> [jobTable[i] EXCEPT !.state = RefreshedState(jobTable[i])]]
  BY DEF refresh_process_jobs
<1>4. jobTable' \in [DOMAIN jobTable -> [id : Nat, state : JobStates, pid : JobPid]]
  BY <1>1, <1>2, <1>3
<1>5. \A i \in DOMAIN jobTable :
         /\ jobTable'[i].id = jobTable[i].id /\ jobTable'[i].pid = jobTable[i].pid
         /\ jobTable'[i].state = RefreshedState(jobTable[i])
  BY <1>1, <1>3
<1>6. Forward /\ UNCHANGED <<jobNext, procs>>
  BY DEF refresh_process_jobs, Forward, JobInv
<1>7. JobRows'
  BY <1>4, <1>5, <1>6, NewStates
<1>8. JobVerdict'
  BY <1>1, <1>2, <1>4, <1>5, <1>6 DEF JobInv, JobVerdict, JobFinished, JobStates
<1>9. FinishedKept
  BY <1>2, <1>4, <1>5 DEF FinishedKept, JobInv, JobRows
<1> QED BY <1>7, <1>8, <1>9

\* The steps of task 0 and of the processes that leave the table alone.
LEMMA ProcsStep ==
    ASSUME JobInv, NEW p \in JobPid,
           \/ cmd_exec(p) \/ ProcExit(p) \/ set_process_group(p) \/ \E q \in JobPid : ProcSpawn(p, q)
    PROVE  Forward /\ UNCHANGED <<jobTable, jobNext, signals>>
<1> USE DEF Forward, ProcStatus, ProcGone
<1>1. procs \in [JobPid -> [status : ProcStatus, group : JobPid \cup {0}]]
  BY DEF JobInv
<1>2. CASE cmd_exec(p)
  BY <1>1, <1>2 DEF cmd_exec, UnusedPid, NewProc
<1>3. CASE ProcExit(p)
  BY <1>1, <1>3 DEF ProcExit
<1>4. CASE set_process_group(p)
  BY <1>1, <1>4 DEF set_process_group
<1>5. CASE \E q \in JobPid : ProcSpawn(p, q)
  BY <1>1, <1>5 DEF ProcSpawn, UnusedPid, NewProc
<1> QED BY <1>2, <1>3, <1>4, <1>5

\* Every step of the shell, the keyboard and the processes.
LEMMA JobStep == JobInv /\ [JobsNext]_jobVars => JobInv'
<1> SUFFICES ASSUME JobInv, [JobsNext]_jobVars PROVE JobInv'
  OBVIOUS
<1>1. ASSUME Forward, JobRows' /\ JobVerdict', jobNext' \in Nat, UNCHANGED signals PROVE JobInv'
  BY <1>1 DEF JobInv, Forward
<1>2. jobNext \in Nat
  BY DEF JobInv
<1>3. ASSUME NEW p \in JobPid, cmd_job_run(p) PROVE JobInv'
  BY <1>1, <1>3, RunStep DEF cmd_job_run
<1>4. ASSUME NEW p \in JobPid,
             \/ cmd_exec(p) \/ ProcExit(p) \/ set_process_group(p) \/ \E q \in JobPid : ProcSpawn(p, q)
      PROVE JobInv'
  BY <1>1, <1>2, <1>4, ProcsStep, SameRows
<1>5. ASSUME NEW id, NEW i \in JobRow(id)
      PROVE  i \in DOMAIN jobTable /\ jobTable[i].pid \in JobPid /\ procs[jobTable[i].pid].status # "none"
  <2>1. i \in DOMAIN jobTable
    BY SeqLength DEF JobRow, JobInv, JobRows
  <2> QED BY <2>1, RowType DEF JobInv, JobRows
<1>6. ASSUME NEW id, cancel(id) PROVE JobInv'
  <2>1. PICK i \in JobRow(id) : SignalOne(jobTable[i].pid, "TERM")
    BY <1>6 DEF cancel
  <2>2. Forward /\ procs'[jobTable[i].pid].status \in ProcGone
    BY <1>5, <2>1, ForwardSignal
  <2>3. JobRows' /\ JobVerdict'
    BY <1>6, <2>2, SetState DEF cancel, JobStates
  <2> QED BY <1>1, <1>2, <1>6, <2>2, <2>3 DEF cancel
<1>7. ASSUME NEW id, NEW signal \in {"STOP", "CONT"}, NEW state \in {"Running", "Paused"},
             SignalJob(id, signal, state), UNCHANGED <<jobNext, signals>>
      PROVE  JobInv'
  <2>1. PICK i \in JobRow(id) : SignalOne(jobTable[i].pid, signal) /\ set_state(id, state)
    BY <1>7 DEF SignalJob
  <2>2. Forward
    BY <1>5, <2>1, ForwardSignal
  <2>3. JobRows' /\ JobVerdict'
    BY <1>7, <2>1, <2>2, SetState DEF JobStates
  <2> QED BY Zenon, <1>1, <1>2, <1>7, <2>2, <2>3
<1>8. ASSUME NEW id, pause(id) \/ resume(id) \/ cmd_fg(id) PROVE JobInv'
  BY <1>7, <1>8 DEF pause, resume, cmd_fg
<1>9. CASE refresh_process_jobs
  BY <1>1, <1>2, <1>9, RefreshStep DEF refresh_process_jobs, Forward, JobInv
<1>10. CASE (\E signal \in {"INT", "STOP"} : signal_foreground(signal))
  <2>1. signals' \in [ids : SUBSET JobPid, signal : {"none", "INT", "STOP"}] /\ signals'.signal # "none"
    BY <1>10 DEF signal_foreground
  <2> QED BY <1>10, <2>1 DEF signal_foreground, JobInv, JobRows, JobVerdict
<1>11. CASE DeliverNext
  <2> DEFINE p == CHOOSE q \in signals.ids : \A r \in signals.ids : q <= r
  <2>1. /\ SignalOne(p, signals.signal) /\ UNCHANGED <<jobTable, jobNext>>
        /\ signals' = IF signals.ids = {p} THEN NoSignal ELSE [signals EXCEPT !.ids = @ \ {p}]
    BY <1>11 DEF DeliverNext
  <2>2. signals.signal \in {"INT", "STOP"}
    BY <1>11 DEF DeliverNext, JobInv
  <2> HIDE DEF p
  <2>3. Forward
    <3>1. CASE p \in JobPid
      BY <2>1, <2>2, <3>1, ForwardSignal
    <3>2. CASE p \notin JobPid
      BY Zenon, <2>1, <3>2 DEF SignalOne, Forward, JobInv
    <3> QED BY <3>1, <3>2
  <2>4. JobRows' /\ JobVerdict'
    BY <2>1, <2>3, SameRows
  <2>5. signals' \in [ids : SUBSET JobPid, signal : {"none", "INT", "STOP"}]
        /\ (signals' # NoSignal => signals'.signal # "none")
    BY <2>1, <2>2 DEF JobInv, NoSignal
  <2> QED BY <1>2, <2>1, <2>3, <2>4, <2>5 DEF JobInv, Forward
<1>12. CASE poll_foreground_job \/ UNCHANGED jobVars
  BY <1>12 DEF poll_foreground_job, jobVars, JobInv, JobRows, JobVerdict
<1> QED BY <1>3, <1>4, <1>6, <1>8, <1>9, <1>10, <1>11, <1>12 DEF JobsNext

\* An empty job table and no processes.
LEMMA JobStart == JobsInit => JobInv
BY DEF JobsInit, JobInv, JobRows, JobVerdict, NoSignal, ProcStatus

\* The verdict in the job table is the one of the process: a row that says complete,
\* failed or cancelled names a process that ended that way, whatever the shell,
\* Ctrl-C and Ctrl-Z and the processes do in between (jobs.rs, terminal.rs).
THEOREM JobVerdictIsTrue == JobsSpec => []JobVerdict
<1>1. JobInv => JobVerdict
  BY DEF JobInv
<1> QED BY <1>1, JobStart, JobStep, PTL DEF JobsSpec

\* pause, resume and fg touch only a row whose process is alive, and no such row is
\* finished; cancel makes a row finished.
LEMMA SetStateKept ==
    ASSUME JobInv, NEW id, NEW state, set_state(id, state), NEW i \in JobRow(id),
           ProcAlive(jobTable[i].pid) \/ state = "Cancelled"
    PROVE  FinishedKept
<1>1. \A j \in DOMAIN jobTable : jobTable[j] \in [id : Nat, state : JobStates, pid : JobPid]
  BY RowType DEF JobInv
<1>2. jobTable' = [j \in DOMAIN jobTable |->
                     IF jobTable[j].id = id THEN [jobTable[j] EXCEPT !.state = state] ELSE jobTable[j]]
  BY DEF set_state
<1>3. \A j \in DOMAIN jobTable' :
         /\ j \in DOMAIN jobTable /\ jobTable'[j].id = jobTable[j].id
         /\ jobTable'[j].state = IF jobTable[j].id = id THEN state ELSE jobTable[j].state
  BY <1>1, <1>2
<1>4. i \in DOMAIN jobTable /\ jobTable[i].id = id
      /\ \A j, k \in DOMAIN jobTable : jobTable[j].id = jobTable[k].id => j = k
  BY SeqLength DEF JobInv, JobRows, JobRow
<1>5. ProcAlive(jobTable[i].pid) => jobTable[i].state \notin JobFinished
  BY <1>4, Verdicts DEF JobInv, JobFinished, ProcAlive, ProcGone
<1> QED BY <1>3, <1>4, <1>5 DEF FinishedKept, JobFinished

\* No step takes a row back from complete, failed or cancelled.
LEMMA JobKeeps == ASSUME JobInv, [JobsNext]_jobVars PROVE FinishedKept
<1>1. ASSUME UNCHANGED jobTable PROVE FinishedKept
  BY <1>1 DEF FinishedKept, JobInv, JobRows
<1>2. ASSUME NEW p \in JobPid, cmd_job_run(p) PROVE FinishedKept
  BY <1>2, RunStep
<1>3. ASSUME NEW id, cancel(id) PROVE FinishedKept
  BY <1>3, SetStateKept DEF cancel
<1>4. ASSUME NEW id, pause(id) \/ resume(id) \/ cmd_fg(id) PROVE FinishedKept
  BY <1>4, SetStateKept DEF pause, resume, cmd_fg, SignalJob
<1>5. CASE refresh_process_jobs
  BY <1>5, RefreshStep
<1>6. ASSUME \/ \E p \in JobPid : \/ cmd_exec(p) \/ ProcExit(p) \/ set_process_group(p)
                                  \/ \E q \in JobPid : ProcSpawn(p, q)
             \/ \E signal \in {"INT", "STOP"} : signal_foreground(signal)
             \/ DeliverNext \/ poll_foreground_job \/ UNCHANGED jobVars
      PROVE  UNCHANGED jobTable
  BY <1>6 DEF cmd_exec, ProcExit, set_process_group, ProcSpawn, signal_foreground, DeliverNext,
              poll_foreground_job, jobVars
<1> QED BY <1>1, <1>2, <1>3, <1>4, <1>5, <1>6 DEF JobsNext

\* A job that is listed as complete, failed or cancelled is never listed as running
\* or paused again (jobs.rs: finish states are kept by refresh, pause, resume, fg).
THEOREM FinishedForGood == JobsSpec => JobStaysFinished
<1>1. JobInv /\ [JobsNext]_jobVars => [FinishedKept]_jobVars
  BY JobKeeps
<1>2. JobStaysFinished <=> [][FinishedKept]_jobVars
  BY DEF JobStaysFinished, FinishedKept
<1> QED BY <1>1, <1>2, JobStart, JobStep, PTL DEF JobsSpec

\* The shell takes the terminal back from a foreground job only when no process of
\* its group is running (poll_foreground_job(), terminal.rs).
THEOREM PromptComesLast == JobsSpec => PromptIsEarned
<1> DEFINE Earned == foreground # NoForeground /\ foreground' = NoForeground
                     => ttyGroup' = 0 /\ GroupOver(foreground.group)
<1>1. [JobsNext]_jobVars => [Earned]_jobVars
  <2> SUFFICES ASSUME JobsNext PROVE Earned
    OBVIOUS
  <2>1. CASE poll_foreground_job
    BY <2>1 DEF poll_foreground_job
  <2>2. ASSUME NEW p \in JobPid, NEW q \in JobPid,
               cmd_exec(p) \/ cmd_job_run(p) \/ ProcExit(p) \/ set_process_group(p) \/ ProcSpawn(p, q)
        PROVE  Earned
    BY <2>2 DEF cmd_exec, cmd_job_run, ProcExit, set_process_group, ProcSpawn, AtPrompt
  <2>3. ASSUME NEW id, cancel(id) \/ pause(id) \/ resume(id) \/ cmd_fg(id) PROVE Earned
    BY Zenon, <2>3 DEF cancel, pause, resume, cmd_fg, AtPrompt
  <2>4. CASE refresh_process_jobs \/ DeliverNext \/ \E signal \in {"INT", "STOP"} : signal_foreground(signal)
    BY <2>4 DEF refresh_process_jobs, DeliverNext, signal_foreground
  <2> QED BY <2>1, <2>2, <2>3, <2>4 DEF JobsNext
<1>2. PromptIsEarned <=> [][Earned]_jobVars
  BY DEF PromptIsEarned, GroupOver
<1> QED BY <1>1, <1>2, PTL DEF JobsSpec

\* The terminal's reports come in order: the end of file after the input typed
\* before it (tty.rs), a finished job for good (jobs.rs), and the prompt only
\* when the foreground group is over (terminal.rs).
THEOREM TerminalIsOrdered == TtySpec /\ JobsSpec => TerminalOrder
BY EofIsLast, FinishedForGood, PromptComesLast, PTL DEF TerminalOrder
=============================================================================
