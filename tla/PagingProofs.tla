---------------------------- MODULE PagingProofs ----------------------------
(* Proofs about page directories and tables, for every number of frames,   *)
(* every size of a table and every run of pages.                           *)
EXTENDS Paging, FiniteSetTheorems, TLAPS

-----------------------------------------------------------------------------
(* The inductive invariant                                                 *)

K == kernel_page_dir
U == page_dir.user

Cloning == ret = "copy" \/ pc = "copy"

(* Types, and which directories there are.                                 *)
Shape ==
  /\ TypeOK
  /\ page_dir.kernel = K /\ U # K
  /\ U = NoFrame => cur_address_space = "kernel"
  /\ Cloning => U # NoFrame /\ cur_address_space = "kernel"
  /\ ret = "copy" => pc = "map"
  /\ vaddr + count <= TableSize * TableSize

IsTable(d, i, f) == mem[d][i].present /\ mem[d][i].frame = f

(* Free frames and directories are no tables, a table belongs to one       *)
(* region, and free frames hold nothing.                                   *)
Apart ==
  /\ \A d \in Directories : d \notin free
  /\ \A d \in Directories, i \in Index, f \in Frame :
       IsTable(d, i, f) => f \notin free /\ f \notin Directories
  /\ \A c, d \in Directories, i, j \in Index, f \in Frame :
       IsTable(c, i, f) /\ IsTable(d, j, f) => i = j /\ (c = d \/ i \in shared)
  /\ \A f \in free, i \in Index : ~mem[f][i].present

(* The clone agrees with the kernel's directory where they share a table.  *)
Sharing ==
  /\ U = NoFrame \/ Cloning => shared = {}
  /\ Cloning => \A i \in Index : ~mem[U][i].present
  /\ \A i \in shared : mem[K][i].present /\ mem[U][i] = mem[K][i]

(* Region 0 maps the page of the directory's own number to the directory.  *)
LowRegion ==
  /\ mem[K][0] = Present(temp_page_table)
  /\ mem[temp_page_table][K] = Present(K)

(* The run so far.                                                         *)
Done == vaddr - asked.v
Running ==
  pc \in {"map", "unmap"} =>
    /\ asked.op = pc /\ asked.d = cur_page_dir
    /\ asked.v \in Nat /\ asked.n \in Nat /\ asked.p \in Nat
    /\ TableSize <= asked.v /\ asked.v <= vaddr /\ asked.v + asked.n = vaddr + count
    /\ paddr = asked.p + Done
    /\ pc = "map" => paddr \in Nat /\ paddr + count <= NFrames
    /\ \A i \in 0 .. Done - 1 :
         Walk(asked.d, asked.v + i) = IF pc = "map" THEN asked.p + i ELSE NoFrame

(* The two steps of cloning: the directory gets mapped, since a frame for  *)
(* a table is left, and then it is found there.                            *)
CloneRun ==
  /\ ret = "copy" => asked.n = 1 /\ asked.p = K /\ (count > 0 => free # {})
  /\ pc = "copy" => /\ asked.v \in Page /\ TableSize <= asked.v
                    /\ Walk(K, asked.v) = K

PagingInv ==
  /\ Shape /\ Apart /\ Sharing /\ LowRegion
  /\ Running /\ CloneRun /\ DoesWhatWasAsked /\ TlbCoherent

-----------------------------------------------------------------------------
(* Pages, entries and directories                                          *)

(* A page is its table's index and its place in the table.                 *)
LEMMA PageIndex ==
  ASSUME NEW v \in Page
  PROVE  /\ pdindex(v) \in Index /\ ptindex(v) \in Index
         /\ v = TableSize * pdindex(v) + ptindex(v)
         /\ TableSize <= v => pdindex(v) # 0
<1>1. TableSize \in Nat \ {0} /\ v \in Nat /\ v < TableSize * TableSize
  BY SizeAssumption DEF Page
<1>2. ptindex(v) \in Nat /\ ptindex(v) < TableSize
  BY <1>1 DEF ptindex
<1>3. pdindex(v) \in Nat
  BY <1>1 DEF pdindex
<1>4. v = TableSize * pdindex(v) + ptindex(v)
  BY <1>1 DEF pdindex, ptindex
<1>5. pdindex(v) < TableSize
  <2> SUFFICES ASSUME pdindex(v) >= TableSize PROVE FALSE
    BY <1>1, <1>3
  <2>1. TableSize * pdindex(v) >= TableSize * TableSize
    BY <1>1, <1>3
  <2> QED
    BY <1>1, <1>2, <1>3, <1>4, <2>1
<1>6. TableSize <= v => pdindex(v) # 0
  BY <1>1, <1>2, <1>4
<1> QED
  BY <1>1, <1>2, <1>3, <1>4, <1>5, <1>6 DEF Index

(* Pages with the same two indices are the same page.                      *)
LEMMA SamePage ==
  ASSUME NEW v \in Page, NEW w \in Page, pdindex(v) = pdindex(w), ptindex(v) = ptindex(w)
  PROVE  v = w
BY PageIndex

(* The numbers of the frames and indices that startup.asm uses.            *)
LEMMA Numbers ==
  /\ TableSize \in Nat /\ 2 < TableSize /\ NFrames \in Nat /\ 4 < NFrames
  /\ TableSize < NFrames
  /\ K \in Frame /\ temp_page_table \in Frame /\ kernel_page_table \in Frame
  /\ K = 1 /\ NoFrame \notin Frame /\ 0 \in Frame /\ 0 \in Index /\ K \in Index
  /\ KernelRegion \in Index /\ KernelRegion # 0 /\ Index \subseteq Frame
  /\ K \in Page /\ pdindex(K) = 0 /\ ptindex(K) = K
<1>1. TableSize \in Nat /\ 2 < TableSize /\ NFrames \in Nat /\ 4 < NFrames
      /\ TableSize < NFrames
  BY SizeAssumption
<1>2. /\ K = 1 /\ K \in Frame /\ temp_page_table \in Frame /\ kernel_page_table \in Frame
      /\ NoFrame \notin Frame /\ 0 \in Frame /\ 0 \in Index /\ K \in Index
      /\ KernelRegion \in Index /\ KernelRegion # 0 /\ Index \subseteq Frame
  BY <1>1 DEF K, kernel_page_dir, temp_page_table, kernel_page_table, Frame, Index, NoFrame,
     KernelRegion
<1>3. 1 < TableSize * TableSize
  BY <1>1
<1>4. K \in Page
  <2>1. TableSize * TableSize \in Nat
    BY <1>1
  <2> QED
    BY <1>2, <1>3, <2>1 DEF Page
<1>5. 1 \div TableSize = 0 /\ 1 % TableSize = 1
  BY <1>1
<1>6. pdindex(K) = 0 /\ ptindex(K) = K
  BY <1>2, <1>5 DEF pdindex, ptindex
<1> QED
  BY <1>1, <1>2, <1>4, <1>6

(* Directories are the kernel's and, once it is cloned, the user's.        *)
LEMMA DirectoriesAre ==
  ASSUME Shape
  PROVE  /\ Directories = {K, U} \ {NoFrame} /\ Directories \subseteq Frame
         /\ K \in Directories /\ cur_page_dir \in Directories
         /\ U # NoFrame => U \in Directories /\ U \in Frame
<1>1. page_dir \in [{"kernel", "user"} -> Frame \cup {NoFrame}] /\ page_dir["kernel"] = K
      /\ page_dir["user"] = U
  BY DEF Shape, TypeOK, U
<1>2. Directories = {K, U} \ {NoFrame}
  BY <1>1 DEF Directories
<1>3. cur_page_dir \in {K, U} /\ cur_page_dir \in Frame
  BY <1>1 DEF Shape, TypeOK, cur_page_dir
<1> QED
  BY <1>1, <1>2, <1>3, Numbers

(* The entries of a directory are entries.                                 *)
LEMMA EntryType ==
  ASSUME Shape, NEW f \in Frame, NEW i \in Index
  PROVE  /\ mem[f] \in [Index -> Entry] /\ mem[f][i] \in Entry
         /\ mem[f][i].frame \in Frame /\ mem[f][i].present \in BOOLEAN
BY DEF Shape, TypeOK, Entry

-----------------------------------------------------------------------------
(* What the three kinds of stores do to the tables                         *)

Tables == Shape /\ Apart /\ Sharing /\ LowRegion
TablesKept == Apart /\ Sharing /\ LowRegion

(* What the processor finds, once the table is known.                      *)
LEMMA WalkIs ==
  ASSUME NEW d, NEW v
  PROVE  /\ ~mem[d][pdindex(v)].present => Walk(d, v) = NoFrame
         /\ mem[d][pdindex(v)].present =>
              Walk(d, v) = LET e == mem[mem[d][pdindex(v)].frame][ptindex(v)] IN
                           IF e.present THEN e.frame ELSE NoFrame
BY DEF Walk

(* A store into a table that is there changes one translation.             *)
LEMMA StoreKeeps ==
  ASSUME Tables, UNCHANGED <<free, page_dir, cur_address_space, shared, pc, ret>>,
         NEW c \in Directories, c = cur_page_dir,
         NEW w \in Page, w = vaddr, TableSize <= w,
         HasTable, NEW e \in Entry, StoreEntry(mem, cur_page_dir, e)
  PROVE  /\ mem' \in [Frame -> [Index -> Entry]] /\ TablesKept'
         /\ \A d \in Directories, v \in Page : v # w => Walk(d, v)' = Walk(d, v)
         /\ Walk(c, w)' = IF e.present THEN e.frame ELSE NoFrame
<1> DEFINE r == pdindex(w)
           q == ptindex(w)
           t == mem[c][r].frame
<1> USE DEF Tables
<1>1. /\ c \in Frame /\ r \in Index /\ q \in Index /\ r # 0 /\ mem[c][r].present
      /\ Directories \subseteq Frame /\ K \in Directories
  BY DirectoriesAre, PageIndex DEF HasTable
<1>2. t \in Frame /\ IsTable(c, r, t)
  BY <1>1, EntryType DEF IsTable
<1>3. t \notin free /\ t \notin Directories
  BY <1>1, <1>2 DEF Apart
<1>4. mem' = [mem EXCEPT ![t][q] = e]
  BY DEF StoreEntry
<1> HIDE DEF r, q, t
<1>5. mem \in [Frame -> [Index -> Entry]]
  BY DEF Shape, TypeOK
<1>6. /\ mem' \in [Frame -> [Index -> Entry]]
      /\ \A f \in Frame : f # t => mem'[f] = mem[f]
      /\ mem'[t] = [mem[t] EXCEPT ![q] = e]
  BY <1>1, <1>2, <1>4, <1>5
<1>7. /\ \A d \in Directories : mem'[d] = mem[d]
      /\ \A f \in free : mem'[f] = mem[f]
  BY <1>1, <1>3, <1>6 DEF Shape, TypeOK
<1>8. Directories' = Directories
  BY DEF Directories
<1>9. \A d \in Directories, i \in Index : \A f : IsTable(d, i, f)' <=> IsTable(d, i, f)
  BY <1>7 DEF IsTable
<1>10. Apart'
  BY <1>7, <1>8, <1>9 DEF Apart
<1>11. Sharing'
  <2>1. U' = U /\ Cloning' = Cloning /\ mem'[K] = mem[K]
    BY <1>1, <1>7 DEF U, Cloning
  <2>2. U # NoFrame => mem'[U] = mem[U]
    BY <1>7, DirectoriesAre
  <2>3. Cloning => U # NoFrame
    BY DEF Shape
  <2> QED
    BY <2>1, <2>2, <2>3 DEF Sharing, K
<1>12. LowRegion'
  <2>1. mem'[K] = mem[K]
    BY <1>1, <1>7
  <2>2. t # temp_page_table
    <3> SUFFICES ASSUME t = temp_page_table PROVE FALSE
      OBVIOUS
    <3>1. IsTable(K, 0, t)
      BY DEF LowRegion, IsTable, Present
    <3>2. 0 \in Index
      BY Numbers
    <3>3. ASSUME NEW i \in Index, NEW j \in Index, IsTable(c, i, t), IsTable(K, j, t)
          PROVE  i = j
      BY <1>1, <1>2, <3>3 DEF Apart
    <3> QED
      BY <1>1, <1>2, <3>1, <3>2, <3>3
  <2> QED
    BY <1>6, <2>1, <2>2, Numbers DEF LowRegion, K
<1>13. ASSUME NEW d \in Directories, NEW v \in Page, v # w PROVE Walk(d, v)' = Walk(d, v)
  <2>1. pdindex(v) \in Index /\ ptindex(v) \in Index /\ d \in Frame
    BY <1>1, PageIndex
  <2> DEFINE g == mem[d][pdindex(v)].frame
  <2>2. mem'[d] = mem[d] /\ g \in Frame
    BY <1>7, <2>1, EntryType
  <2>3. mem[d][pdindex(v)].present => mem'[g][ptindex(v)] = mem[g][ptindex(v)]
    <3> SUFFICES ASSUME mem[d][pdindex(v)].present
                 PROVE  mem'[g][ptindex(v)] = mem[g][ptindex(v)]
      OBVIOUS
    <3>1. CASE g # t
      BY <1>6, <2>2, <3>1
    <3>2. CASE g = t
      <4>1. IsTable(d, pdindex(v), t)
        BY <3>2 DEF IsTable
      <4>2. pdindex(v) = r
        BY <1>1, <1>2, <2>1, <4>1 DEF Apart
      <4>3. ptindex(v) # q
        BY <1>13, <4>2, SamePage DEF r, q
      <4> QED
        BY <1>2, <1>5, <1>6, <2>1, <3>2, <4>3
    <3> QED
      BY <3>1, <3>2
  <2> QED
    BY <2>2, <2>3 DEF Walk
<1>14. Walk(c, w)' = IF e.present THEN e.frame ELSE NoFrame
  <2>1. mem'[c] = mem[c] /\ mem'[t][q] = e
    BY <1>1, <1>2, <1>5, <1>6, <1>7
  <2> QED
    BY <1>1, <2>1 DEF Walk, r, q, t
<1> QED
  BY <1>6, <1>10, <1>11, <1>12, <1>13, <1>14 DEF TablesKept

(* A store into a table that was just allocated changes only translations  *)
(* of the region that had no table.                                        *)
LEMMA NewTableKeeps ==
  ASSUME Tables, UNCHANGED <<page_dir, cur_address_space, shared, pc, ret>>,
         NEW c \in Directories, c = cur_page_dir,
         NEW w \in Page, w = vaddr, TableSize <= w,
         ~HasTable, NEW f \in free, free' = free \ {f},
         NEW junk \in Junk, NEW e \in Entry,
         StoreEntry([[mem EXCEPT ![f] = junk] EXCEPT ![c][pdindex(vaddr)] = Present(f)],
                    c, e)
  PROVE  /\ mem' \in [Frame -> [Index -> Entry]] /\ TablesKept'
         /\ \A d \in Directories, v \in Page :
              v # w /\ mem[d][pdindex(v)].present => Walk(d, v)' = Walk(d, v)
         /\ Walk(c, w)' = IF e.present THEN e.frame ELSE NoFrame
<1> DEFINE r == pdindex(w)
           q == ptindex(w)
           m == [[mem EXCEPT ![f] = junk] EXCEPT ![c][r] = Present(f)]
<1> USE DEF Tables
<1>1. /\ c \in Frame /\ r \in Index /\ q \in Index /\ r # 0 /\ ~mem[c][r].present
      /\ Directories \subseteq Frame /\ K \in Directories
  BY DirectoriesAre, PageIndex DEF HasTable
<1>2. /\ f \in Frame /\ f \notin Directories /\ junk \in [Index -> Entry]
      /\ Present(f) \in Entry
  BY JunkAssumption DEF Apart, Shape, TypeOK, Entry, Present
<1>3. mem \in [Frame -> [Index -> Entry]]
  BY DEF Shape, TypeOK
<1>4. m[c][r].frame = f /\ mem' = [m EXCEPT ![m[c][r].frame][q] = e]
  <2>1. m[c][r] = Present(f)
    BY <1>1, <1>2, <1>3
  <2> QED
    BY <2>1 DEF StoreEntry, Present
<1> HIDE DEF r, q
<1>5. /\ m \in [Frame -> [Index -> Entry]] /\ m[f] = junk
      /\ m[c] = [mem[c] EXCEPT ![r] = Present(f)]
      /\ \A g \in Frame : g # f /\ g # c => m[g] = mem[g]
  BY <1>1, <1>2, <1>3
<1> HIDE DEF m
<1>6. mem' = [m EXCEPT ![f][q] = e]
  BY <1>4
<1>7. /\ mem' \in [Frame -> [Index -> Entry]]
      /\ mem'[f] = [junk EXCEPT ![q] = e]
      /\ mem'[c] = [mem[c] EXCEPT ![r] = Present(f)]
      /\ \A g \in Frame : g # f /\ g # c => mem'[g] = mem[g]
  BY <1>1, <1>2, <1>5, <1>6
<1>8. /\ \A d \in Directories, i \in Index :
           mem'[d][i] = IF d = c /\ i = r THEN Present(f) ELSE mem[d][i]
      /\ \A g \in free' : mem'[g] = mem[g]
  <2>1. \A g \in free' : g \in Frame /\ g # f /\ g # c
    BY DEF Apart, Shape, TypeOK
  <2>2. mem[c] \in [Index -> Entry]
    BY <1>1, <1>3
  <2> QED
    BY <1>1, <1>2, <1>7, <2>1, <2>2
<1>9. Directories' = Directories
  BY DEF Directories
<1>10. \A d \in Directories, i \in Index : \A g :
         IsTable(d, i, g)' <=> IF d = c /\ i = r THEN g = f ELSE IsTable(d, i, g)
  BY <1>8 DEF IsTable, Present
<1>11. \A d \in Directories, i \in Index : ~IsTable(d, i, f)
  BY <1>2 DEF Apart
<1>12. Apart'
  <2>1. \A d \in Directories' : d \notin free'
    BY <1>9 DEF Apart
  <2>2. \A d \in Directories', i \in Index, g \in Frame :
          IsTable(d, i, g)' => g \notin free' /\ g \notin Directories'
    BY <1>2, <1>9, <1>10 DEF Apart
  <2>3. \A b, d \in Directories', i, j \in Index, g \in Frame :
          IsTable(b, i, g)' /\ IsTable(d, j, g)' => i = j /\ (b = d \/ i \in shared')
    <3> SUFFICES ASSUME NEW b \in Directories, NEW d \in Directories, NEW i \in Index,
                        NEW j \in Index, NEW g \in Frame,
                        IsTable(b, i, g)', IsTable(d, j, g)'
                 PROVE  i = j /\ (b = d \/ i \in shared)
      BY <1>9
    <3>1. CASE g = f
      BY <1>10, <1>11, <3>1
    <3>2. CASE g # f
      BY <1>10, <3>2 DEF Apart
    <3> QED
      BY <3>1, <3>2
  <2>4. \A g \in free', i \in Index : ~mem'[g][i].present
    BY <1>8 DEF Apart
  <2> QED
    BY <2>1, <2>2, <2>3, <2>4 DEF Apart
<1>13. Sharing'
  <2>1. U' = U /\ Cloning' = Cloning /\ c \in {K, U}
    BY DirectoriesAre DEF U, Cloning
  <2>2. Cloning => U # NoFrame /\ c = K /\ U # K /\ U \in Directories
    <3> SUFFICES ASSUME Cloning PROVE U # NoFrame /\ c = K /\ U # K /\ U \in Directories
      OBVIOUS
    <3> QED
      BY DirectoriesAre DEF Shape, cur_page_dir
  <2>3. Cloning => \A i \in Index : mem'[U][i] = mem[U][i]
    BY <1>8, <2>2
  <2>4. \A i \in shared : i \in Index /\ i # r /\ U # NoFrame
    BY <1>1, <2>1 DEF Sharing, Shape, TypeOK
  <2>5. \A i \in shared : mem'[K][i] = mem[K][i] /\ mem'[U][i] = mem[U][i]
    BY <1>1, <1>8, <2>4, DirectoriesAre
  <2> QED
    BY <2>1, <2>3, <2>5 DEF Sharing, K
<1>14. LowRegion'
  <2>1. mem'[K][0] = mem[K][0]
    BY <1>1, <1>8, Numbers
  <2>2. IsTable(K, 0, temp_page_table)
    BY DEF LowRegion, IsTable, Present
  <2>3. temp_page_table # f /\ temp_page_table # c
    BY <1>1, <1>11, <2>2, Numbers DEF Apart
  <2> QED
    BY <1>7, <2>1, <2>3, Numbers DEF LowRegion, K
<1>15. ASSUME NEW d \in Directories, NEW v \in Page, v # w, mem[d][pdindex(v)].present
       PROVE  Walk(d, v)' = Walk(d, v)
  <2>1. pdindex(v) \in Index /\ ptindex(v) \in Index /\ d \in Frame
    BY <1>1, PageIndex
  <2> DEFINE g == mem[d][pdindex(v)].frame
  <2>2. g \in Frame /\ IsTable(d, pdindex(v), g)
    BY <1>15, <2>1, EntryType DEF IsTable
  <2>3. g # f /\ g # c
    BY <2>1, <2>2 DEF Apart
  <2>4. mem'[d][pdindex(v)] = mem[d][pdindex(v)] /\ mem'[g] = mem[g]
    BY <1>1, <1>7, <1>8, <1>15, <2>1, <2>2, <2>3
  <2> QED
    BY <2>4 DEF Walk
<1>16. Walk(c, w)' = IF e.present THEN e.frame ELSE NoFrame
  <2>1. mem'[c][r] = Present(f) /\ mem'[f][q] = e
    BY <1>1, <1>2, <1>7, <1>8
  <2> QED
    BY <2>1 DEF Walk, r, q, Present
<1> QED
  BY <1>7, <1>12, <1>13, <1>14, <1>15, <1>16 DEF TablesKept

(* The copy is the kernel's directory, because the directory is found in   *)
(* region 0 and at the page it was mapped at.                              *)
LEMMA CopyKeeps ==
  ASSUME Tables, CloneRun, CloneCopy
  PROVE  /\ mem' \in [Frame -> [Index -> Entry]] /\ shared' \subseteq Index /\ TablesKept'
         /\ \A v \in Page : Walk(K, v)' = Walk(K, v)
<1> USE DEF Tables
<1>1. /\ pc = "copy" /\ cur_page_dir = K /\ U \in Directories /\ U \in Frame /\ U # K
      /\ U # NoFrame
  BY DirectoriesAre DEF CloneCopy, Shape, Cloning, cur_page_dir
<1>2. Walk(cur_page_dir, kernel_page_dir) = K /\ Walk(cur_page_dir, asked.v) = K
  <2>1. Walk(K, K) = K
    BY Numbers DEF Walk, LowRegion, Present
  <2> QED
    BY <1>1, <2>1 DEF CloneRun, K
<1>3. mem \in [Frame -> [Index -> Entry]] /\ mem[K] \in [Index -> Entry]
  BY Numbers DEF Shape, TypeOK
<1>4. CopiedDirectory(mem[Walk(cur_page_dir, asked.v)]) = mem[K]
  BY <1>2, <1>3 DEF CopiedDirectory
<1>5. mem' = [mem EXCEPT ![U] = mem[K]]
  BY <1>4 DEF CloneCopy, U
<1>6. /\ mem' \in [Frame -> [Index -> Entry]] /\ mem'[U] = mem[K]
      /\ \A f \in Frame : f # U => mem'[f] = mem[f]
  BY <1>1, <1>3, <1>5
<1>7. /\ U' = U /\ Directories' = Directories /\ Directories = {K, U} /\ free' = free
      /\ shared' = {i \in Index : mem[K][i].present} /\ ~Cloning' /\ K \in Frame
  BY <1>1, DirectoriesAre, Numbers DEF CloneCopy, Call, U, Directories, Cloning, K
<1>8. mem'[K] = mem[K] /\ mem'[U] = mem[K]
  BY <1>1, <1>6, <1>7
<1>9. \A d \in Directories, i \in Index : \A f : IsTable(d, i, f)' <=> IsTable(K, i, f)
  BY <1>7, <1>8 DEF IsTable
<1>10. Apart'
  <2>1. \A d \in Directories' : d \notin free'
    BY <1>7 DEF Apart
  <2>2. \A d \in Directories', i \in Index, g \in Frame :
          IsTable(d, i, g)' => g \notin free' /\ g \notin Directories'
    BY <1>7, <1>9 DEF Apart
  <2>3. \A b, d \in Directories', i, j \in Index, g \in Frame :
          IsTable(b, i, g)' /\ IsTable(d, j, g)' => i = j /\ (b = d \/ i \in shared')
    <3> SUFFICES ASSUME NEW b \in Directories, NEW d \in Directories, NEW i \in Index,
                        NEW j \in Index, NEW g \in Frame,
                        IsTable(b, i, g)', IsTable(d, j, g)'
                 PROVE  i = j /\ i \in shared'
      BY <1>7
    <3>1. IsTable(K, i, g) /\ IsTable(K, j, g)
      BY <1>9
    <3> QED
      BY <1>7, <3>1 DEF Apart, IsTable
  <2>4. \A g \in free', i \in Index : ~mem'[g][i].present
    <3>1. \A g \in free : g \in Frame /\ g # U
      BY <1>1 DEF Apart, Shape, TypeOK
    <3> QED
      BY <1>6, <1>7, <3>1 DEF Apart
  <2> QED
    BY <2>1, <2>2, <2>3, <2>4 DEF Apart
<1>11. Sharing'
  BY <1>1, <1>7, <1>8 DEF Sharing, K
<1>12. LowRegion'
  <2>1. IsTable(K, 0, temp_page_table)
    BY DEF LowRegion, IsTable, Present
  <2>2. temp_page_table # U
    BY <1>1, <1>7, <2>1, Numbers DEF Apart
  <2> QED
    BY <1>6, <1>8, <2>2, Numbers DEF LowRegion, K
<1>13. ASSUME NEW v \in Page PROVE Walk(K, v)' = Walk(K, v)
  <2>1. pdindex(v) \in Index /\ ptindex(v) \in Index
    BY PageIndex
  <2> DEFINE g == mem[K][pdindex(v)].frame
  <2>2. g \in Frame
    BY <1>7, <2>1, EntryType
  <2>3. mem[K][pdindex(v)].present => g # U
    BY <1>1, <1>7, <2>1, <2>2 DEF Apart, IsTable
  <2> QED
    BY <1>6, <1>8, <2>2, <2>3 DEF Walk, K
<1> QED
  BY <1>6, <1>7, <1>10, <1>11, <1>12, <1>13 DEF TablesKept

(* A free frame becomes the clone's directory: it has no entry yet.        *)
LEMMA CloneCallKeeps ==
  ASSUME Tables, page_dir.user = NoFrame, NEW f \in free, free' = free \ {f},
         page_dir' = [page_dir EXCEPT !.user = f], ret' = "copy",
         UNCHANGED <<mem, cur_address_space, shared>>
  PROVE  /\ TablesKept' /\ f \in Frame /\ f # K /\ U' = f
         /\ cur_page_dir = K /\ cur_page_dir' = K
<1> USE DEF Tables
<1>1. U = NoFrame /\ cur_address_space = "kernel" /\ Directories = {K} /\ K \in Frame
  BY DirectoriesAre, Numbers DEF U, Shape
<1>2. f \in Frame /\ f # K
  BY <1>1 DEF Apart, Shape, TypeOK
<1>3. page_dir \in [{"kernel", "user"} -> Frame \cup {NoFrame}] /\ page_dir["kernel"] = K
  BY DEF Shape, TypeOK
<1>4. page_dir' = [page_dir EXCEPT !["user"] = f]
  OBVIOUS
<1>5. page_dir'["kernel"] = K /\ page_dir'["user"] = f
  BY <1>3, <1>4
<1>6. U' = f /\ cur_page_dir = K /\ cur_page_dir' = K
  BY <1>1, <1>3, <1>5 DEF U, cur_page_dir
<1>7. Directories' = {K, f}
  BY <1>2, <1>5, Numbers DEF Directories
<1>8. \A d \in Directories', i \in Index : \A g : IsTable(d, i, g)' <=> d = K /\ IsTable(K, i, g)
  BY <1>2, <1>7 DEF IsTable, Apart
<1>9. Apart'
  <2>1. \A d \in Directories' : d \notin free'
    BY <1>1, <1>7 DEF Apart
  <2>2. \A d \in Directories', i \in Index, g \in Frame :
          IsTable(d, i, g)' => g \notin free' /\ g \notin Directories'
    BY <1>1, <1>7, <1>8 DEF Apart
  <2>3. \A b, d \in Directories', i, j \in Index, g \in Frame :
          IsTable(b, i, g)' /\ IsTable(d, j, g)' => i = j /\ (b = d \/ i \in shared')
    BY <1>1, <1>8 DEF Apart
  <2>4. \A g \in free', i \in Index : ~mem'[g][i].present
    BY DEF Apart
  <2> QED
    BY <2>1, <2>2, <2>3, <2>4 DEF Apart
<1>10. Sharing'
  <2>1. shared' = {} /\ \A i \in Index : ~mem'[f][i].present
    BY <1>1 DEF Sharing, Apart
  <2> QED
    BY <1>6, <2>1 DEF Sharing
<1>11. LowRegion'
  BY DEF LowRegion, K
<1> QED
  BY <1>2, <1>6, <1>9, <1>10, <1>11 DEF TablesKept

(* The tables stay as they are when no step touches them.                  *)
LEMMA TablesSame ==
  ASSUME Tables, Cloning' => Cloning, UNCHANGED <<mem, free, page_dir, shared>>
  PROVE  TablesKept'
<1>1. U' = U /\ Directories' = Directories
  BY DEF U, Directories
<1>2. Apart'
  BY <1>1 DEF Tables, Apart, IsTable
<1>3. Sharing'
  BY <1>1 DEF Tables, Sharing, K
<1>4. LowRegion'
  BY DEF Tables, LowRegion, K
<1> QED
  BY <1>2, <1>3, <1>4 DEF TablesKept

-----------------------------------------------------------------------------
(* The steps                                                               *)

(* Translations depend on the contents of the frames alone.                *)
LEMMA WalkSame ==
  ASSUME UNCHANGED mem
  PROVE  \A d, v : Walk(d, v)' = Walk(d, v)
BY DEF Walk

(* The empty cache is a cache.                                             *)
LEMMA NoneType == None \in [page : Page, frame : Frame \cup {NoFrame}]
<1>1. 0 \in Page
  BY Numbers DEF Page
<1> QED
  BY <1>1 DEF None

(* The processor translates to a frame or finds none.                      *)
LEMMA WalkType ==
  ASSUME Shape, NEW d \in Directories, NEW v \in Page
  PROVE  Walk(d, v) \in Frame \cup {NoFrame}
<1>1. pdindex(v) \in Index /\ ptindex(v) \in Index /\ d \in Frame
  BY PageIndex, DirectoriesAre
<1>2. mem[d][pdindex(v)].frame \in Frame
  BY <1>1, EntryType
<1>3. mem[mem[d][pdindex(v)].frame][ptindex(v)].frame \in Frame
  BY <1>1, <1>2, EntryType
<1> QED
  BY <1>3 DEF Walk

(* The variables of a run, with the types a proof about them needs.        *)
LEMMA RunType ==
  ASSUME Shape, Running, pc \in {"map", "unmap"}
  PROVE  /\ vaddr \in Nat /\ count \in Nat /\ asked.v \in Nat /\ asked.n \in Nat
         /\ asked.p \in Nat /\ paddr \in Int /\ TableSize * TableSize \in Nat
         /\ TableSize <= asked.v /\ asked.v <= vaddr /\ asked.v + asked.n = vaddr + count
         /\ vaddr + count <= TableSize * TableSize /\ paddr = asked.p + Done
         /\ Done = vaddr - asked.v /\ Done \in Nat /\ TableSize \in Nat
         /\ \A i \in 0 .. Done - 1 : asked.v + i \in Page /\ asked.v + i < vaddr
         /\ count > 0 => vaddr \in Page /\ TableSize <= vaddr
         /\ cur_page_dir \in Directories /\ asked.d = cur_page_dir
<1>1. TableSize \in Nat /\ TableSize * TableSize \in Nat
  BY Numbers
<1>2. vaddr \in Nat /\ count \in Nat /\ vaddr + count <= TableSize * TableSize
  BY <1>1 DEF Shape, TypeOK
<1>3. /\ asked.v \in Nat /\ asked.n \in Nat /\ asked.p \in Nat /\ TableSize <= asked.v
      /\ asked.v <= vaddr /\ asked.v + asked.n = vaddr + count
      /\ paddr = asked.p + Done /\ asked.d = cur_page_dir
  BY DEF Running
<1>4. Done = vaddr - asked.v /\ Done \in Nat /\ paddr \in Int
  BY <1>2, <1>3 DEF Done
<1>5. \A i \in 0 .. Done - 1 : asked.v + i \in Page /\ asked.v + i < vaddr
  BY <1>1, <1>2, <1>3, <1>4 DEF Page
<1>6. count > 0 => vaddr \in Page /\ TableSize <= vaddr
  BY <1>1, <1>2, <1>3 DEF Page
<1> QED
  BY <1>1, <1>2, <1>3, <1>4, <1>5, <1>6, DirectoriesAre

(* One iteration of a loop extends the run by a page: the pages before it  *)
(* keep their translations, and the cache forgets the page it is at.       *)
LEMMA IterationKeeps ==
  ASSUME PagingInv, pc \in {"map", "unmap"}, count > 0, NextPage,
         UNCHANGED <<page_dir, cur_address_space, shared>>,
         mem' \in [Frame -> [Index -> Entry]], free' \subseteq free, TablesKept',
         tlb' = Flushed(vaddr),
         NEW c \in Directories, c = cur_page_dir, NEW w \in Page, w = vaddr,
         \A v \in Page : v # w /\ (pc = "map" => Walk(c, v) # NoFrame)
                           => Walk(c, v)' = Walk(c, v),
         Walk(c, w)' = IF pc = "map" THEN paddr ELSE NoFrame
  PROVE  PagingInv'
<1> USE DEF PagingInv
<1>1. /\ vaddr \in Nat /\ count \in Nat /\ asked.v \in Nat /\ asked.n \in Nat
      /\ asked.p \in Nat /\ paddr \in Int /\ TableSize * TableSize \in Nat
      /\ TableSize <= asked.v /\ asked.v <= vaddr /\ asked.v + asked.n = vaddr + count
      /\ vaddr + count <= TableSize * TableSize /\ paddr = asked.p + Done
      /\ Done = vaddr - asked.v /\ Done \in Nat /\ TableSize \in Nat
  BY RunType
<1>2. /\ vaddr' = vaddr + 1 /\ paddr' = paddr + 1 /\ count' = count - 1 /\ count' \in Nat
      /\ UNCHANGED <<pc, ret, asked, result>>
  BY <1>1 DEF NextPage
<1>3. Done' = Done + 1
  BY <1>1, <1>2 DEF Done
<1>4. cur_page_dir' = cur_page_dir /\ U' = U /\ Cloning' = Cloning
  BY <1>2 DEF cur_page_dir, U, Cloning
<1>5. pc = "map" => /\ paddr \in Nat /\ paddr + count <= NFrames
                    /\ paddr' \in Nat /\ paddr' + count' <= NFrames
  BY <1>1, <1>2 DEF Running
<1>6. Running'
  <2>1. ASSUME NEW i \in 0 .. Done' - 1
        PROVE  Walk(asked.d, asked.v + i)' = IF pc = "map" THEN asked.p + i ELSE NoFrame
    <3>0. asked.d = c /\ asked'.d = c /\ asked'.v = asked.v
      BY <1>2, RunType
    <3>1. CASE i = Done
      <4>1. asked.v + i = w /\ asked.p + i = paddr
        BY <1>1, <3>1
      <4>2. Walk(c, w)' = IF pc = "map" THEN asked.p + i ELSE NoFrame
        BY <4>1
      <4>3. Walk(asked.d, asked.v + i)' = Walk(c, w)'
        BY <1>2, <3>0, <4>1 DEF Walk
      <4> QED
        BY <4>2, <4>3
    <3>2. CASE i # Done
      <4>1. i \in 0 .. Done - 1
        BY <1>1, <1>3, <2>1, <3>2
      <4>2. asked.v + i \in Page /\ asked.v + i # w
        BY <1>1, <4>1, RunType
      <4>3. Walk(c, asked.v + i) = IF pc = "map" THEN asked.p + i ELSE NoFrame
        BY <3>0, <4>1 DEF Running
      <4>4. pc = "map" => asked.p + i # NoFrame
        BY <1>1, <4>1 DEF NoFrame
      <4>5. pc = "map" => Walk(c, asked.v + i) # NoFrame
        BY <4>3, <4>4
      <4> DEFINE u == asked.v + i
      <4>6. PICK x \in Page : x = u
        BY <4>2
      <4>7. Walk(c, x)' = Walk(c, x)
        BY <4>2, <4>5, <4>6
      <4>8. Walk(asked.d, asked.v + i)' = Walk(c, x)'
        BY <1>2, <3>0, <4>6 DEF Walk
      <4> QED
        BY <4>3, <4>6, <4>7, <4>8
    <3> QED
      BY <3>1, <3>2
  <2>2. asked.op = pc /\ asked.d = cur_page_dir
    BY DEF Running
  <2> QED
    BY <1>1, <1>2, <1>3, <1>4, <1>5, <2>1, <2>2 DEF Running
<1>7. Shape'
  <2>1. count' > 0 => vaddr' \in Page /\ (pc' = "map" => paddr' \in Frame)
    <3> DEFINE all == TableSize * TableSize
    <3>1. all \in Nat /\ vaddr + count <= all
      BY <1>1
    <3> HIDE DEF all
    <3>2. count' > 0 => vaddr' \in Nat /\ vaddr' < all
      BY <1>1, <1>2, <3>1
    <3>3. count' > 0 /\ pc' = "map" => paddr' \in Nat /\ paddr' < NFrames
      BY <1>1, <1>2, <1>5, Numbers
    <3>4. NFrames \in Nat
      BY Numbers
    <3> QED
      BY <3>1, <3>2, <3>3, <3>4 DEF Page, Frame, all
  <2>2. vaddr' \in 0 .. TableSize * TableSize /\ vaddr' + count' <= TableSize * TableSize
    BY <1>1, <1>2
  <2>3. tlb' \in [page : Page, frame : Frame \cup {NoFrame}]
    <3>1. None \in [page : Page, frame : Frame \cup {NoFrame}]
      BY NoneType
    <3> QED
      BY <3>1 DEF Flushed, Shape, TypeOK
  <2>4. TypeOK'
    BY <1>2, <1>4, <2>1, <2>2, <2>3 DEF Shape, TypeOK
  <2> QED
    BY <1>2, <1>4, <2>2, <2>4 DEF Shape, K
<1>8. CloneRun'
  <2>1. pc' # "copy"
    BY <1>2
  <2>2. ret = "copy" => count' = 0
    BY <1>1, <1>2 DEF CloneRun
  <2> QED
    BY <1>2, <2>1, <2>2 DEF CloneRun, K
<1>9. DoesWhatWasAsked'
  BY <1>2 DEF DoesWhatWasAsked
<1>10. TlbCoherent'
  <2>1. CASE tlb.page = w \/ tlb.frame = NoFrame
    BY <2>1 DEF TlbCoherent, Flushed, None
  <2>2. CASE tlb.page # w /\ tlb.frame # NoFrame
    <3>1. PICK x \in Page : x = tlb.page
      BY DEF Shape, TypeOK
    <3>2. Walk(c, x) = tlb.frame
      BY <2>2, <3>1 DEF TlbCoherent
    <3>3. Walk(c, x)' = Walk(c, x)
      BY <2>2, <3>1, <3>2
    <3>4. tlb' = tlb
      BY <2>2 DEF Flushed
    <3>5. Walk(cur_page_dir, tlb.page)' = Walk(c, x)'
      BY <1>4, <3>1, <3>4 DEF Walk
    <3> QED
      BY <3>2, <3>3, <3>4, <3>5 DEF TlbCoherent
  <2> QED
    BY <2>1, <2>2
<1> QED
  BY <1>6, <1>7, <1>8, <1>9, <1>10 DEF TablesKept

(* map_pages stores an entry into a table that is there.                   *)
LEMMA MapPageKeeps == ASSUME PagingInv, MapPage PROVE PagingInv'
<1> USE DEF PagingInv
<1>1. /\ pc = "map" /\ count > 0 /\ HasTable /\ NextPage
      /\ StoreEntry(mem, cur_page_dir, Present(paddr))
      /\ UNCHANGED <<free, page_dir, cur_address_space, shared, pc, ret>>
  BY DEF MapPage, NextPage
<1>2. vaddr \in Page /\ TableSize <= vaddr /\ cur_page_dir \in Directories
  BY <1>1, RunType
<1>3. PICK c \in Directories : c = cur_page_dir
  BY <1>2
<1>4. PICK w \in Page : w = vaddr
  BY <1>2
<1>5. PICK e : e = Present(paddr)
  OBVIOUS
<1>6. e \in Entry /\ e.present /\ e.frame = paddr
  BY <1>1, <1>5 DEF Entry, Present, Shape, TypeOK
<1>7. /\ mem' \in [Frame -> [Index -> Entry]] /\ TablesKept'
      /\ \A d \in Directories, v \in Page : v # w => Walk(d, v)' = Walk(d, v)
      /\ Walk(c, w)' = IF e.present THEN e.frame ELSE NoFrame
  BY <1>1, <1>2, <1>3, <1>4, <1>5, <1>6, StoreKeeps DEF Tables
<1>8. tlb' = Flushed(vaddr)
  BY <1>1 DEF StoreEntry, AfterFlush
<1>9. Walk(c, w)' = IF pc = "map" THEN paddr ELSE NoFrame
  BY <1>1, <1>6, <1>7
<1> HIDE DEF PagingInv
<1> QED
  BY <1>1, <1>3, <1>4, <1>7, <1>8, <1>9, IterationKeeps

(* unmap_pages clears an entry of a table that is there.                   *)
LEMMA UnmapPageKeeps == ASSUME PagingInv, UnmapPage PROVE PagingInv'
<1> USE DEF PagingInv
<1>1. /\ pc = "unmap" /\ count > 0 /\ HasTable /\ NextPage
      /\ StoreEntry(mem, cur_page_dir, Clear)
      /\ UNCHANGED <<free, page_dir, cur_address_space, shared, pc, ret>>
  BY DEF UnmapPage, NextPage
<1>2. vaddr \in Page /\ TableSize <= vaddr /\ cur_page_dir \in Directories
  BY <1>1, RunType
<1>3. PICK c \in Directories : c = cur_page_dir
  BY <1>2
<1>4. PICK w \in Page : w = vaddr
  BY <1>2
<1>5. Clear \in Entry /\ ~Clear.present
  BY Numbers DEF Entry, Clear
<1>6. /\ mem' \in [Frame -> [Index -> Entry]] /\ TablesKept'
      /\ \A d \in Directories, v \in Page : v # w => Walk(d, v)' = Walk(d, v)
      /\ Walk(c, w)' = IF Clear.present THEN Clear.frame ELSE NoFrame
  BY <1>1, <1>2, <1>3, <1>4, <1>5, StoreKeeps DEF Tables
<1>7. tlb' = Flushed(vaddr)
  BY <1>1 DEF StoreEntry, AfterFlush
<1>8. Walk(c, w)' = IF pc = "map" THEN paddr ELSE NoFrame
  BY <1>1, <1>5, <1>6
<1> HIDE DEF PagingInv
<1> QED
  BY <1>1, <1>3, <1>4, <1>6, <1>7, <1>8, IterationKeeps

(* map_pages links a fresh table, through the window it has put back on    *)
(* the directory, and stores an entry there.                               *)
LEMMA MapNewTableKeeps ==
  ASSUME PagingInv, NEW f \in Frame, NEW x \in Frame, NEW junk \in Junk,
         MapNewTable(f, x, junk)
  PROVE  PagingInv'
<1> USE DEF PagingInv
<1>1. /\ pc = "map" /\ count > 0 /\ ~HasTable /\ NextPage /\ f \in free
      /\ free' = free \ {f}
      /\ StoreEntry([[mem EXCEPT ![f] = junk] EXCEPT ![cur_page_dir][pdindex(vaddr)] =
                       Present(f)], cur_page_dir, Present(paddr))
      /\ UNCHANGED <<page_dir, cur_address_space, shared, pc, ret>>
  BY DEF MapNewTable, NextPage, DirectoryWindow
<1>2. vaddr \in Page /\ TableSize <= vaddr /\ cur_page_dir \in Directories
  BY <1>1, RunType
<1>3. PICK c \in Directories : c = cur_page_dir
  BY <1>2
<1>4. PICK w \in Page : w = vaddr
  BY <1>2
<1>5. PICK e : e = Present(paddr)
  OBVIOUS
<1>6. e \in Entry /\ e.present /\ e.frame = paddr
  BY <1>1, <1>5 DEF Entry, Present, Shape, TypeOK
<1>7. StoreEntry([[mem EXCEPT ![f] = junk] EXCEPT ![c][pdindex(vaddr)] = Present(f)], c, e)
  BY <1>1, <1>3, <1>5
<1>8. /\ mem' \in [Frame -> [Index -> Entry]] /\ TablesKept'
      /\ \A d \in Directories, v \in Page :
           v # w /\ mem[d][pdindex(v)].present => Walk(d, v)' = Walk(d, v)
      /\ Walk(c, w)' = IF e.present THEN e.frame ELSE NoFrame
  BY <1>1, <1>2, <1>3, <1>4, <1>6, <1>7, NewTableKeeps DEF Tables
<1>9. tlb' = Flushed(vaddr)
  BY <1>7 DEF StoreEntry, AfterFlush
<1>10. Walk(c, w)' = IF pc = "map" THEN paddr ELSE NoFrame
  BY <1>1, <1>6, <1>8
<1>11. \A v \in Page : v # w /\ Walk(c, v) # NoFrame => Walk(c, v)' = Walk(c, v)
  BY <1>8, WalkIs
<1> HIDE DEF PagingInv
<1> QED
  BY <1>1, <1>3, <1>4, <1>8, <1>9, <1>10, <1>11, IterationKeeps

(* The loop of map_pages or unmap_pages ends, or stops for want of a       *)
(* table; while cloning it ends, and the directory is mapped.              *)
LEMMA ReturnKeeps ==
  ASSUME PagingInv, pc \in {"map", "unmap"}, NEW r \in BOOLEAN, Return(r),
         r => count = 0, ~r => ret # "copy",
         UNCHANGED <<mem, free, page_dir, cur_address_space, tlb, shared>>
  PROVE  PagingInv'
<1> USE DEF PagingInv
<1>1. /\ pc' = ret /\ ret' = "idle" /\ result' = r
      /\ UNCHANGED <<vaddr, paddr, count, asked>> /\ ret \in {"idle", "copy"}
  BY DEF Return, Shape, TypeOK
<1>2. U' = U /\ cur_page_dir' = cur_page_dir /\ (Cloning' => Cloning)
  BY <1>1 DEF U, cur_page_dir, Cloning
<1>3. TablesKept'
  BY <1>2, TablesSame DEF Tables
<1>4. Shape'
  <2>1. TypeOK'
    BY <1>1, <1>2 DEF Shape, TypeOK
  <2> QED
    BY <1>1, <1>2, <2>1 DEF Shape, K
<1>5. Running'
  BY <1>1 DEF Running
<1>6. /\ asked.v \in Nat /\ asked.n \in Nat /\ asked.v + asked.n = vaddr + count
      /\ vaddr \in Nat /\ count \in Nat /\ TableSize <= asked.v /\ Done = vaddr - asked.v
  BY RunType
<1>7. ret = "copy" => /\ r /\ asked.v \in Page /\ Walk(K, asked.v) = K
  <2> SUFFICES ASSUME ret = "copy" PROVE r /\ asked.v \in Page /\ Walk(K, asked.v) = K
    OBVIOUS
  <2>1. r /\ count = 0 /\ asked.n = 1 /\ asked.p = K /\ pc = "map"
    BY DEF CloneRun, Shape
  <2>2. Done = 1 /\ asked.v + 0 = asked.v /\ asked.p + 0 = asked.p
    BY <1>6, <2>1, Numbers
  <2>3. 0 \in 0 .. Done - 1
    BY <2>2
  <2>4. asked.d = K
    BY DEF Running, Shape, Cloning, cur_page_dir
  <2>5. Walk(asked.d, asked.v + 0) = asked.p + 0
    BY <2>1, <2>3 DEF Running
  <2>6. asked.v + 0 \in Page
    BY <2>3, RunType
  <2> QED
    BY <2>1, <2>2, <2>4, <2>5, <2>6
<1>8. CloneRun'
  <2>1. pc' = "copy" => Walk(K, asked.v)' = K
    BY <1>1, <1>7 DEF Walk, K
  <2> QED
    BY <1>1, <1>6, <1>7, <2>1 DEF CloneRun
<1>9. DoesWhatWasAsked'
  <2> SUFFICES ASSUME pc' = "idle" PROVE DoesWhatWasAsked'
    BY DEF DoesWhatWasAsked
  <2> DEFINE done == IF result' THEN asked.n ELSE vaddr - asked.v
  <2>1. done = Done
    BY <1>1, <1>6
  <2>2. \A i \in 0 .. done - 1 :
          Walk(asked.d, asked.v + i)' = IF pc = "map" THEN asked.p + i ELSE NoFrame
    BY <1>1, <2>1 DEF Running, Walk
  <2>3. asked'.op = pc
    BY <1>1 DEF Running
  <2> HIDE DEF done
  <2>4. done = IF result' THEN asked'.n ELSE vaddr' - asked'.v
    BY <1>1 DEF done
  <2> QED
    BY <1>1, <2>2, <2>3, <2>4 DEF DoesWhatWasAsked
<1>10. TlbCoherent'
  BY <1>2 DEF TlbCoherent, Walk
<1> QED
  BY <1>3, <1>4, <1>5, <1>8, <1>9, <1>10 DEF TablesKept

(* map_pages and unmap_pages start.                                        *)
LEMMA CallKeeps ==
  ASSUME PagingInv, pc = "idle", NEW op \in {"map", "unmap"},
         NEW v \in Usable, NEW n \in Nat, v + n - 1 \in Page,
         NEW p \in Nat, op = "map" => p + n <= NFrames,
         Call(op, v, p, n, "idle"),
         UNCHANGED <<mem, free, page_dir, cur_address_space, tlb, shared>>
  PROVE  PagingInv'
<1> USE DEF PagingInv
<1>1. /\ pc' = op /\ ret' = "idle" /\ vaddr' = v /\ paddr' = p /\ count' = n
      /\ asked' = [op |-> op, d |-> cur_page_dir, v |-> v, p |-> p, n |-> n]
      /\ result' = result
  BY DEF Call
<1>2. U' = U /\ cur_page_dir' = cur_page_dir /\ ~Cloning'
  BY <1>1 DEF U, cur_page_dir, Cloning
<1>3. TablesKept'
  BY <1>2, TablesSame DEF Tables
<1>4. /\ v \in Page /\ TableSize <= v /\ v \in Nat /\ TableSize * TableSize \in Nat
      /\ v + n <= TableSize * TableSize
  BY CallsAssumption, Numbers DEF Page
<1>5. Shape'
  <2>1. TypeOK'
    BY <1>1, <1>2, <1>4, Numbers DEF Shape, TypeOK, Page, Frame
  <2> QED
    BY <1>1, <1>2, <1>4, <2>1 DEF Shape, K
<1>6. Running'
  <2>1. Done' = 0
    BY <1>1, <1>4 DEF Done
  <2>2. p = p + 0 /\ v + n = v + n /\ v <= v /\ 0 .. 0 - 1 = {}
    BY <1>4
  <2> QED
    BY <1>1, <1>2, <1>4, <2>1, <2>2 DEF Running
<1>7. CloneRun'
  BY <1>1 DEF CloneRun
<1>8. DoesWhatWasAsked'
  BY <1>1 DEF DoesWhatWasAsked
<1>9. TlbCoherent'
  BY <1>2 DEF TlbCoherent, Walk
<1> QED
  BY <1>3, <1>5, <1>6, <1>7, <1>8, <1>9 DEF TablesKept

(* get_physaddr reads two entries; when both are present, it has walked    *)
(* the tables as the processor does.                                       *)
LEMMA TranslateKeeps ==
  ASSUME PagingInv, NEW v \in Usable, get_physaddr(v) PROVE PagingInv'
<1> USE DEF PagingInv
<1>1. /\ pc = "idle" /\ asked'.op = "translate" /\ asked'.d = cur_page_dir /\ asked'.v = v
      /\ asked'.p = mem[mem[cur_page_dir][pdindex(v)].frame][ptindex(v)].frame
      /\ UNCHANGED <<mem, free, page_dir, cur_address_space, tlb, shared, pc, ret,
                     vaddr, paddr, count, result>>
  BY DEF get_physaddr
<1>2. U' = U /\ cur_page_dir' = cur_page_dir /\ Cloning' = Cloning
  BY <1>1 DEF U, cur_page_dir, Cloning
<1>3. TablesKept'
  BY <1>1, <1>2, TablesSame DEF Tables
<1>4. Shape'
  <2>1. TypeOK'
    BY <1>1, <1>2 DEF Shape, TypeOK
  <2> QED
    BY <1>1, <1>2, <2>1 DEF Shape, K
<1>5. Running' /\ CloneRun'
  BY <1>1 DEF Running, CloneRun, Shape
<1>6. DoesWhatWasAsked'
  <2>1. asked'.v + 0 = v
    BY <1>1, CallsAssumption DEF Page
  <2>2. Walk(asked.d, asked.v + 0)' \in {NoFrame, asked'.p}
    BY <1>1, <2>1 DEF Walk
  <2> QED
    BY <1>1, <2>2 DEF DoesWhatWasAsked
<1>7. TlbCoherent'
  BY <1>1, <1>2 DEF TlbCoherent, Walk
<1> QED
  BY <1>3, <1>4, <1>5, <1>6, <1>7 DEF TablesKept

(* The tables and the run stay; the cache changes to something true, and   *)
(* the space to one that has a directory.                                  *)
LEMMA CacheKeeps ==
  ASSUME PagingInv, UNCHANGED <<mem, free, page_dir, call, shared>>,
         \/ UNCHANGED cur_address_space
         \/ pc = "idle" /\ cur_address_space' \in {"kernel", "user"} /\ cur_page_dir' # NoFrame,
         tlb' \in [page : Page, frame : Frame \cup {NoFrame}], TlbCoherent'
  PROVE  PagingInv'
<1> USE DEF PagingInv, call
<1>1. U' = U /\ Cloning' = Cloning
  BY DEF U, Cloning
<1>2. TablesKept'
  BY <1>1, TablesSame DEF Tables
<1>3. cur_page_dir' \in Frame /\ cur_address_space' \in {"kernel", "user"}
  BY DEF Shape, TypeOK, cur_page_dir
<1>4. Shape'
  <2>1. TypeOK'
    BY <1>3 DEF Shape, TypeOK
  <2>2. U' = NoFrame => cur_address_space' = "kernel"
    BY <1>1 DEF Shape, U, cur_page_dir
  <2>3. Cloning' => cur_address_space' = "kernel"
    BY <1>1 DEF Shape, Cloning
  <2> QED
    BY <1>1, <2>1, <2>2, <2>3 DEF Shape, K
<1>5. Running'
  <2>1. pc # "idle" => cur_page_dir' = cur_page_dir
    BY DEF cur_page_dir
  <2>2. Done' = Done
    BY DEF Done
  <2> QED
    BY <2>1, <2>2 DEF Running, Walk
<1>6. CloneRun'
  BY DEF CloneRun, Walk, K
<1>7. DoesWhatWasAsked'
  BY DEF DoesWhatWasAsked, Walk
<1> QED
  BY <1>2, <1>4, <1>5, <1>6, <1>7 DEF TablesKept

(* The processor caches a translation.                                     *)
LEMMA TlbFillKeeps == ASSUME PagingInv, NEW v \in Usable, TlbFill(v) PROVE PagingInv'
<1>1. v \in Page /\ cur_page_dir \in Directories
  BY CallsAssumption, DirectoriesAre DEF PagingInv
<1>2. Walk(cur_page_dir, v) \in Frame
  BY <1>1, WalkType DEF PagingInv, TlbFill
<1>3. /\ tlb' = [page |-> v, frame |-> Walk(cur_page_dir, v)]
      /\ UNCHANGED <<mem, free, page_dir, cur_address_space, call, shared>>
  BY DEF TlbFill
<1>4. TlbCoherent'
  BY <1>3 DEF TlbCoherent, Walk, cur_page_dir
<1> QED
  BY <1>1, <1>2, <1>3, <1>4, CacheKeeps

(* A change of the address space empties the cache.                        *)
LEMMA ChangeKeeps ==
  ASSUME PagingInv, NEW s \in {"kernel", "user"}, change_address_space(s) PROVE PagingInv'
<1>1. /\ tlb' = None /\ pc = "idle" /\ cur_address_space' = s /\ cur_page_dir' # NoFrame
      /\ UNCHANGED <<mem, free, page_dir, call, shared>>
  BY DEF change_address_space, FlushedAll, cur_page_dir
<1>2. TlbCoherent'
  BY <1>1 DEF TlbCoherent, None
<1> QED
  BY <1>1, <1>2, CacheKeeps, NoneType

(* clone_directory takes a frame, leaves one for a table and starts to map *)
(* the directory.                                                          *)
LEMMA CloneCallStep ==
  ASSUME PagingInv, NEW f \in Frame, NEW v \in Usable, CloneCall(f, v) PROVE PagingInv'
<1> USE DEF PagingInv
<1>1. /\ pc = "idle" /\ page_dir.user = NoFrame /\ f \in free /\ free' = free \ {f}
      /\ Cardinality(free) > 1
      /\ page_dir' = [page_dir EXCEPT !.user = f]
      /\ UNCHANGED <<mem, cur_address_space, tlb, shared>>
  BY DEF CloneCall
<1>2. /\ pc' = "map" /\ ret' = "copy" /\ vaddr' = v /\ paddr' = K /\ count' = 1
      /\ asked' = [op |-> "map", d |-> cur_page_dir, v |-> v, p |-> K, n |-> 1]
      /\ result' = result
  BY DEF CloneCall, Call, K
<1>3. /\ TablesKept' /\ f # K /\ U' = f /\ cur_page_dir = K /\ cur_page_dir' = K
  BY <1>1, <1>2, CloneCallKeeps DEF Tables
<1>4. cur_address_space = "kernel"
  BY <1>1 DEF Shape, U
<1>5. v \in Page /\ TableSize <= v /\ v \in Nat /\ v + 1 <= TableSize * TableSize
      /\ TableSize * TableSize \in Nat
  BY CallsAssumption, Numbers DEF Page
<1>6. Shape'
  <2>1. /\ page_dir' \in [{"kernel", "user"} -> Frame \cup {NoFrame}]
        /\ page_dir'.kernel = K /\ U' # NoFrame
    BY <1>1, <1>3, Numbers DEF Shape, TypeOK
  <2>2. vaddr' \in 0 .. TableSize * TableSize /\ vaddr' + count' <= TableSize * TableSize
    BY <1>2, <1>5
  <2>3. TypeOK'
    BY <1>1, <1>2, <1>3, <1>4, <1>5, <2>1, <2>2, Numbers DEF Shape, TypeOK
  <2> QED
    BY <1>1, <1>2, <1>3, <1>4, <2>1, <2>2, <2>3 DEF Shape, K
<1>7. Running'
  <2>1. Done' = 0
    BY <1>2, <1>5 DEF Done
  <2>2. K = K + 0 /\ v + 1 = v + 1 /\ v <= v /\ 0 .. 0 - 1 = {} /\ K + 1 <= NFrames /\ K \in Nat
    BY <1>5, Numbers
  <2> QED
    BY <1>2, <1>3, <1>5, <2>1, <2>2 DEF Running
<1>8. CloneRun'
  <2>1. free \ {f} # {}
    <3> SUFFICES ASSUME free \ {f} = {} PROVE FALSE
      OBVIOUS
    <3>1. free = {f}
      BY <1>1
    <3>2. Cardinality({f}) = 1
      BY FS_Singleton
    <3> QED
      BY <1>1, <3>1, <3>2
  <2> QED
    BY <1>1, <1>2, <2>1 DEF CloneRun, K
<1>9. DoesWhatWasAsked'
  BY <1>2 DEF DoesWhatWasAsked
<1>10. TlbCoherent'
  BY <1>1, <1>3 DEF TlbCoherent, Walk
<1> QED
  BY <1>3, <1>6, <1>7, <1>8, <1>9, <1>10 DEF TablesKept

(* The copy is made and the page it was made through is unmapped next.     *)
LEMMA CloneCopyStep == ASSUME PagingInv, CloneCopy PROVE PagingInv'
<1> USE DEF PagingInv
<1>1. /\ pc' = "unmap" /\ ret' = "idle" /\ vaddr' = asked.v /\ paddr' = 0 /\ count' = 1
      /\ asked' = [op |-> "unmap", d |-> cur_page_dir, v |-> asked.v, p |-> 0, n |-> 1]
      /\ result' = result /\ pc = "copy"
      /\ UNCHANGED <<free, page_dir, cur_address_space, tlb>>
  BY DEF CloneCopy, Call
<1>2. /\ mem' \in [Frame -> [Index -> Entry]] /\ shared' \subseteq Index /\ TablesKept'
      /\ \A v \in Page : Walk(K, v)' = Walk(K, v)
  BY CopyKeeps DEF Tables
<1>3. PICK w \in Page : w = asked.v
  BY <1>1 DEF CloneRun
<1>4. /\ TableSize <= w /\ w \in Nat /\ w + 1 <= TableSize * TableSize
      /\ TableSize * TableSize \in Nat
  BY <1>1, <1>3, Numbers DEF CloneRun, Page
<1>5. U' = U /\ cur_page_dir' = K /\ cur_page_dir = K /\ ~Cloning'
  BY <1>1 DEF U, cur_page_dir, Cloning, Shape
<1>6. Shape'
  <2>1. vaddr' \in 0 .. TableSize * TableSize /\ vaddr' + count' <= TableSize * TableSize
    BY <1>1, <1>3, <1>4
  <2>2. TypeOK'
    BY <1>1, <1>2, <1>3, <1>5, <2>1, Numbers DEF Shape, TypeOK
  <2> QED
    BY <1>1, <1>5, <2>1, <2>2 DEF Shape, K
<1>7. Running'
  <2>1. Done' = 0
    BY <1>1, <1>3, <1>4 DEF Done
  <2>2. 0 = 0 + 0 /\ w + 1 = w + 1 /\ w <= w /\ 0 .. 0 - 1 = {}
    BY <1>4
  <2> QED
    BY <1>1, <1>3, <1>4, <1>5, <2>1, <2>2 DEF Running
<1>8. CloneRun' /\ DoesWhatWasAsked'
  BY <1>1 DEF CloneRun, DoesWhatWasAsked
<1>9. TlbCoherent'
  <2>1. PICK x \in Page : x = tlb.page
    BY DEF Shape, TypeOK
  <2>2. Walk(cur_page_dir, tlb.page)' = Walk(K, x)'
    BY <1>1, <1>5, <2>1 DEF Walk
  <2> QED
    BY <1>1, <1>2, <1>5, <2>1, <2>2 DEF TlbCoherent
<1> QED
  BY <1>2, <1>6, <1>7, <1>8, <1>9 DEF TablesKept

-----------------------------------------------------------------------------
(* The invariant holds                                                     *)

(* startup.asm's directory and two tables satisfy the invariant.           *)
LEMMA PagingStart == Init => PagingInv
<1> SUFFICES ASSUME Init PROVE PagingInv
  OBVIOUS
<1>1. PICK low \in Junk :
        mem = [f \in Frame |->
                 CASE f = 0 -> low
                   [] f = kernel_page_dir -> InitialDirectory
                   [] f = temp_page_table -> [i \in Index |-> Present(i)]
                   [] f = kernel_page_table -> InitialTable
                   [] OTHER -> [i \in Index |-> Clear]]
  BY DEF Init
<1>2. /\ free = 4 .. NFrames - 1
      /\ page_dir = [kernel |-> kernel_page_dir, user |-> NoFrame]
      /\ cur_address_space = "kernel" /\ tlb = None /\ pc = "idle" /\ ret = "idle"
      /\ vaddr = 0 /\ paddr = 0 /\ count = 0 /\ asked.op = "none"
      /\ result = TRUE /\ shared = {}
  BY DEF Init
<1>3. Clear \in Entry /\ \A g \in Frame : Present(g) \in Entry
  BY Numbers DEF Clear, Present, Entry
<1>4. /\ InitialDirectory \in [Index -> Entry] /\ InitialTable \in [Index -> Entry]
      /\ [i \in Index |-> Present(i)] \in [Index -> Entry]
      /\ [i \in Index |-> Clear] \in [Index -> Entry] /\ low \in [Index -> Entry]
  BY <1>3, Numbers, JunkAssumption DEF InitialDirectory, InitialTable, K
<1>5. mem \in [Frame -> [Index -> Entry]]
  BY <1>1, <1>4
<1>6. /\ mem[K] = InitialDirectory /\ mem[temp_page_table] = [i \in Index |-> Present(i)]
      /\ \A f \in free : f \in Frame /\ f # K /\ mem[f] = [i \in Index |-> Clear]
  BY <1>1, <1>2, Numbers DEF K, kernel_page_dir, temp_page_table, kernel_page_table, Frame
<1>7. U = NoFrame /\ ~Cloning /\ cur_page_dir = K /\ page_dir.kernel = K
  BY <1>2 DEF U, Cloning, cur_page_dir, K
<1>8. Shape
  <2>1. TypeOK
    BY <1>2, <1>5, <1>6, <1>7, Numbers, NoneType DEF TypeOK, K
  <2> QED
    BY <1>2, <1>7, <2>1, Numbers DEF Shape
<1>9. Directories = {K}
  BY <1>7, <1>8, DirectoriesAre, Numbers
<1>10. \A i \in Index : mem[K][i] = IF i = 0 THEN Present(temp_page_table)
                                    ELSE IF i = KernelRegion THEN Present(kernel_page_table)
                                    ELSE Clear
  BY <1>6, Numbers DEF InitialDirectory
<1>11. Apart
  <2>1. \A i \in Index, f \in Frame : IsTable(K, i, f) =>
          \/ i = 0 /\ f = temp_page_table
          \/ i = KernelRegion /\ f = kernel_page_table
    BY <1>10 DEF IsTable, Present, Clear
  <2>2. /\ temp_page_table # kernel_page_table
        /\ \A f \in {temp_page_table, kernel_page_table} : f \notin free /\ f # K
        /\ K \notin free
    BY <1>2, Numbers DEF temp_page_table, kernel_page_table, K, kernel_page_dir
  <2>3. \A f \in free, i \in Index : ~mem[f][i].present
    BY <1>6 DEF Clear
  <2> QED
    BY <1>9, <2>1, <2>2, <2>3 DEF Apart
<1>12. Sharing
  BY <1>2, <1>7 DEF Sharing
<1>13. LowRegion
  BY <1>6, <1>10, Numbers DEF LowRegion
<1>14. Running /\ CloneRun /\ DoesWhatWasAsked
  BY <1>2 DEF Running, CloneRun, DoesWhatWasAsked
<1>15. TlbCoherent
  BY <1>2 DEF TlbCoherent, None
<1> QED
  BY <1>8, <1>11, <1>12, <1>13, <1>14, <1>15 DEF PagingInv

(* Every step preserves the invariant.                                     *)
LEMMA PagingStep == PagingInv /\ [Next]_vars => PagingInv'
<1> SUFFICES ASSUME PagingInv, [Next]_vars PROVE PagingInv'
  OBVIOUS
<1>1. ASSUME NEW v \in Usable, TlbFill(v) \/ get_physaddr(v) PROVE PagingInv'
  BY <1>1, TlbFillKeeps, TranslateKeeps
<1>2. ASSUME NEW v \in Usable, NEW n \in 1 .. MaxRun, v + n - 1 \in Usable,
             UnmapCall(v, n) \/ \E p \in Target : p + n - 1 \in Frame /\ MapCall(v, p, n)
      PROVE  PagingInv'
  <2>1. n \in Nat /\ v + n - 1 \in Page
    BY <1>2, CallsAssumption
  <2>2. CASE UnmapCall(v, n)
    BY <2>1, <2>2, CallKeeps DEF UnmapCall
  <2>3. ASSUME NEW p \in Target, p + n - 1 \in Frame, MapCall(v, p, n) PROVE PagingInv'
    <3>1. p \in Nat /\ p + n <= NFrames
      BY <2>1, <2>3, CallsAssumption, Numbers DEF Frame
    <3> QED
      BY <2>1, <2>3, <3>1, CallKeeps DEF MapCall
  <2> QED
    BY <1>2, <2>2, <2>3
<1>3. CASE MapPage
  BY <1>3, MapPageKeeps
<1>4. CASE MapFails
  <2>1. ret # "copy"
    BY <1>4 DEF MapFails, PagingInv, CloneRun
  <2> QED
    BY <1>4, <2>1, ReturnKeeps DEF MapFails
<1>5. CASE UnmapPage
  BY <1>5, UnmapPageKeeps
<1>6. CASE UnmapFails
  <2>1. ret # "copy"
    BY <1>6 DEF UnmapFails, PagingInv, Shape
  <2> QED
    BY <1>6, <2>1, ReturnKeeps DEF UnmapFails
<1>7. CASE LoopEnds
  BY <1>7, ReturnKeeps DEF LoopEnds
<1>8. ASSUME NEW f \in Frame, NEW w \in Frame, NEW junk \in Junk, MapNewTable(f, w, junk)
      PROVE  PagingInv'
  BY <1>8, MapNewTableKeeps
<1>9. ASSUME NEW f \in Frame, NEW v \in Usable, CloneCall(f, v) PROVE PagingInv'
  BY <1>9, CloneCallStep
<1>10. CASE CloneCopy
  BY <1>10, CloneCopyStep
<1>11. ASSUME NEW s \in {"kernel", "user"}, change_address_space(s) PROVE PagingInv'
  BY <1>11, ChangeKeeps
<1>12. CASE UNCHANGED vars
  <2>1. /\ UNCHANGED <<mem, free, page_dir, call, shared>> /\ UNCHANGED cur_address_space
        /\ tlb' = tlb
    BY <1>12 DEF vars
  <2>2. tlb' \in [page : Page, frame : Frame \cup {NoFrame}] /\ TlbCoherent'
    BY <2>1 DEF PagingInv, Shape, TypeOK, TlbCoherent, Walk, cur_page_dir
  <2> QED
    BY <2>1, <2>2, CacheKeeps
<1> QED
  BY <1>1, <1>2, <1>3, <1>4, <1>5, <1>6, <1>7, <1>8, <1>9, <1>10, <1>11, <1>12 DEF Next

(* The invariant holds in every state.                                     *)
LEMMA PagingInvariant == Spec => []PagingInv
BY PagingStart, PagingStep, PTL DEF Spec

-----------------------------------------------------------------------------
(* Theorems                                                                *)

(* No frame is both free and a directory or a table, and no two entries    *)
(* lead to the same table, except where a clone shares it, for any number  *)
(* of frames and whatever fresh frames hold (memory_manager.c:242-297 and  *)
(* 523-546).                                                               *)
THEOREM PagingTablesApart == Spec => []TablesApart
<1>1. ASSUME PagingInv PROVE TablesApart
  <2>1. TypeOK /\ Directories \subseteq Frame
    BY <1>1, DirectoriesAre DEF PagingInv, Shape
  <2> DEFINE entries == {x \in Directories \X Index : mem[x[1]][x[2]].present}
             tables == {mem[x[1]][x[2]].frame : x \in entries}
  <2>2. ASSUME NEW t \in tables PROVE t \notin free /\ t \notin Directories
    <3>1. PICK x \in entries : t = mem[x[1]][x[2]].frame
      OBVIOUS
    <3>2. x[1] \in Directories /\ x[2] \in Index /\ mem[x[1]][x[2]].present
      OBVIOUS
    <3>3. t \in Frame /\ IsTable(x[1], x[2], t)
      BY <1>1, <2>1, <3>1, <3>2, EntryType DEF IsTable, PagingInv
    <3> QED
      BY <1>1, <3>2, <3>3 DEF PagingInv, Apart
  <2>3. \A d \in Directories : d \notin free
    BY <1>1 DEF PagingInv, Apart
  <2>4. ASSUME NEW c \in Directories, NEW d \in Directories,
               NEW i \in TablesOf(c), NEW j \in TablesOf(d), mem[c][i].frame = mem[d][j].frame
        PROVE  i = j /\ (c = d \/ i \in shared)
    <3>1. i \in Index /\ j \in Index /\ mem[c][i].frame \in Frame
      BY <1>1, <2>1, EntryType DEF TablesOf, PagingInv
    <3>2. IsTable(c, i, mem[c][i].frame) /\ IsTable(d, j, mem[c][i].frame)
      BY <2>4 DEF TablesOf, IsTable
    <3> QED
      BY <1>1, <3>1, <3>2 DEF PagingInv, Apart
  <2>5. (tables \cup Directories) \cap free = {} /\ tables \cap Directories = {}
    BY <2>2, <2>3
  <2> HIDE DEF tables
  <2> QED
    BY <2>1, <2>4, <2>5 DEF TablesApart, tables
<1> QED
  BY <1>1, PagingInvariant, PTL

(* map_pages and unmap_pages do to every page of the run what was asked,   *)
(* up to where they fail, and get_physaddr finds the frame of every mapped *)
(* page (line 95-107 and 242-297).                                         *)
THEOREM PagingDoesWhatWasAsked == Spec => []DoesWhatWasAsked
<1>1. PagingInv => DoesWhatWasAsked
  BY DEF PagingInv
<1> QED
  BY <1>1, PagingInvariant, PTL

(* A cached translation is never out of date (line 84-87 and 512-521).     *)
THEOREM PagingTlbCoherent == Spec => []TlbCoherent
<1>1. PagingInv => TlbCoherent
  BY DEF PagingInv
<1> QED
  BY <1>1, PagingInvariant, PTL

(* The regions that had a table at the cloning translate alike in both     *)
(* spaces for ever (line 523-546).                                         *)
THEOREM PagingSharedAlike == Spec => []SharedAlike
<1>1. ASSUME PagingInv PROVE SharedAlike
  <2> SUFFICES ASSUME NEW v \in Page, pdindex(v) \in shared
               PROVE  Walk(page_dir.kernel, v) = Walk(page_dir.user, v)
    BY DEF SharedAlike
  <2>1. mem[U][pdindex(v)] = mem[K][pdindex(v)]
    BY <1>1 DEF PagingInv, Sharing
  <2>2. page_dir.kernel = K /\ page_dir.user = U
    BY <1>1 DEF PagingInv, Shape, U
  <2> QED
    BY <2>1, <2>2 DEF Walk
<1> QED
  BY <1>1, PagingInvariant, PTL

(* A step of map_pages or unmap_pages changes the translation of no other  *)
(* page whose region had a table, in either space (line 242-297).          *)
THEOREM PagingOthersKept == Spec => OthersKept
<1> DEFINE A == \A s \in {"kernel", "user"}, v \in Page :
                  page_dir[s] # NoFrame /\ pc \in {"map", "unmap"} /\ v # vaddr
                    /\ mem[page_dir[s]][pdindex(v)].present
                    => Walk(page_dir[s], v)' = Walk(page_dir[s], v)
<1>1. ASSUME PagingInv, [Next]_vars PROVE [A]_vars
  <2> SUFFICES ASSUME Next,
                      NEW s \in {"kernel", "user"}, NEW v \in Page, page_dir[s] # NoFrame,
                      pc \in {"map", "unmap"}, v # vaddr,
                      mem[page_dir[s]][pdindex(v)].present
               PROVE  Walk(page_dir[s], v)' = Walk(page_dir[s], v)
    BY <1>1
  <2>1. PICK d \in Directories : d = page_dir[s]
    BY DEF Directories
  <2>2. cur_page_dir \in Directories /\ count \in Nat
        /\ (count > 0 => vaddr \in Page /\ TableSize <= vaddr)
    BY <1>1, RunType DEF PagingInv
  <2>3. PICK c \in Directories : c = cur_page_dir
    BY <2>2
  <2>4. SUFFICES page_dir' = page_dir /\ Walk(d, v)' = Walk(d, v)
    BY <2>1 DEF Walk
  <2>5. CASE UNCHANGED <<mem, page_dir>>
    BY <2>5, WalkSame
  <2>6. CASE MapPage
    <3>1. PICK w \in Page : w = vaddr
      BY <2>2, <2>6 DEF MapPage
    <3>2. Present(paddr) \in Entry /\ TableSize <= w
      BY <1>1, <2>2, <2>6, <3>1 DEF MapPage, PagingInv, Shape, TypeOK, Entry, Present
    <3>3. PICK e \in Entry : e = Present(paddr)
      BY <3>2
    <3>4. UNCHANGED <<free, page_dir, cur_address_space, shared, pc, ret>>
          /\ HasTable /\ StoreEntry(mem, cur_page_dir, e)
      BY <2>6, <3>3 DEF MapPage, NextPage
    <3> QED
      BY <1>1, <2>3, <3>1, <3>2, <3>4, StoreKeeps DEF PagingInv, Tables
  <2>7. CASE UnmapPage
    <3>1. PICK w \in Page : w = vaddr
      BY <2>2, <2>7 DEF UnmapPage
    <3>2. Clear \in Entry /\ TableSize <= w
      BY <2>2, <2>7, <3>1, Numbers DEF UnmapPage, Entry, Clear
    <3>3. UNCHANGED <<free, page_dir, cur_address_space, shared, pc, ret>>
          /\ HasTable /\ StoreEntry(mem, cur_page_dir, Clear)
      BY <2>7 DEF UnmapPage, NextPage
    <3> QED
      BY <1>1, <2>3, <3>1, <3>2, <3>3, StoreKeeps DEF PagingInv, Tables
  <2>8. ASSUME NEW f \in Frame, NEW x \in Frame, NEW junk \in Junk, MapNewTable(f, x, junk)
        PROVE  page_dir' = page_dir /\ Walk(d, v)' = Walk(d, v)
    <3>1. PICK w \in Page : w = vaddr
      BY <2>2, <2>8 DEF MapNewTable
    <3>2. Present(paddr) \in Entry /\ TableSize <= w
      BY <1>1, <2>2, <2>8, <3>1 DEF MapNewTable, PagingInv, Shape, TypeOK, Entry, Present
    <3>3. PICK e \in Entry : e = Present(paddr)
      BY <3>2
    <3>4. /\ UNCHANGED <<page_dir, cur_address_space, shared, pc, ret>>
          /\ ~HasTable /\ f \in free /\ free' = free \ {f}
          /\ StoreEntry([[mem EXCEPT ![f] = junk] EXCEPT ![c][pdindex(vaddr)] = Present(f)],
                        c, e)
      BY <2>3, <2>8, <3>3 DEF MapNewTable, NextPage, DirectoryWindow
    <3>5. v # w /\ mem[d][pdindex(v)].present
      BY <2>1, <3>1
    <3> QED
      BY <1>1, <2>3, <3>1, <3>2, <3>4, <3>5, NewTableKeeps DEF PagingInv, Tables
  <2>9. CASE MapFails \/ UnmapFails \/ LoopEnds
    BY <2>5, <2>9 DEF MapFails, UnmapFails, LoopEnds
  <2>10. ASSUME NEW u \in Usable, TlbFill(u) \/ get_physaddr(u)
         PROVE  page_dir' = page_dir /\ Walk(d, v)' = Walk(d, v)
    BY <2>5, <2>10 DEF TlbFill, get_physaddr
  <2> QED
    BY <2>6, <2>7, <2>8, <2>9, <2>10 DEF Next, UnmapCall, MapCall, CloneCall, CloneCopy,
       change_address_space
<1>2. OthersKept <=> [][A]_vars
  BY DEF OthersKept
<1> QED
  BY <1>1, <1>2, PagingInvariant, PTL DEF Spec

=============================================================================
