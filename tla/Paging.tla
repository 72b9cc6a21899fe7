------------------------------- MODULE Paging -------------------------------
(***************************************************************************)
(* Page directories and page tables of kernel/memory_manager.c: map_pages, *)
(* unmap_pages, get_physaddr, clone_directory and change_address_space,    *)
(* with the processor's translation cache.                                 *)
(*                                                                         *)
(* Directories and tables are page frames, reached one at a time through   *)
(* the TEMP_PAGE window, which every access sets first: where it stands    *)
(* matters only within a step.  A virtual page is a number: its quotient   *)
(* by TableSize is pdindex, its remainder ptindex.  alloc_phys_pages is    *)
(* taken from PhysMemory: it returns a free frame with any contents, or    *)
(* -1, and leaves the window wherever its own walk has moved it.  One      *)
(* action is one iteration of a loop; no interrupt handler maps pages.     *)
(***************************************************************************)
EXTENDS Integers, FiniteSets

CONSTANTS NFrames,     \* page frames
          TableSize,   \* entries of a directory or table, 1024 in the code
          Usable,      \* pages callers map: not region 0, nor the window's page
          Target,      \* frames that callers ask map_pages to map
          MaxRun,      \* bound: the longest run mapped or unmapped at once
          Junk         \* what a frame may hold when the allocator returns it

Frame == 0 .. NFrames - 1
Index == 0 .. TableSize - 1
Page == 0 .. TableSize * TableSize - 1
Entry == [frame : Frame, present : BOOLEAN]

Clear == [frame |-> 0, present |-> FALSE]
Present(f) == [frame |-> f, present |-> TRUE]
NoFrame == -1

ASSUME SizeAssumption == TableSize \in Nat /\ 2 < TableSize
                         /\ NFrames \in Nat /\ 4 < NFrames /\ TableSize < NFrames
(* Both address spaces begin above region 0 (script.ld:5-8).               *)
ASSUME CallsAssumption ==
  /\ Usable \subseteq Page /\ Target \subseteq Frame /\ MaxRun \in Nat
  /\ \A v \in Usable : TableSize <= v
ASSUME JunkAssumption == Junk \subseteq [Index -> Entry]

(* What startup.asm builds: a directory, a table that maps region 0 to the *)
(* frames of the same numbers, and a table of the kernel's region, the     *)
(* last one, whose first page is the kernel's.  Frame 0 holds the          *)
(* firmware's data.                                                        *)
kernel_page_dir == 1
temp_page_table == 2
kernel_page_table == 3
KernelRegion == TableSize - 1

InitialDirectory == [[i \in Index |-> Clear] EXCEPT ![0] = Present(temp_page_table),
                                           ![KernelRegion] = Present(kernel_page_table)]
InitialTable == [[i \in Index |-> Clear] EXCEPT ![0] = Present(kernel_page_dir)]

VARIABLES
  mem,                 \* contents of the frames, as entries
  free,                \* frames the physical allocator can hand out
  page_dir,            \* page_dir of the kernel's and of the user's space
  cur_address_space,
  tlb,                 \* a translation the processor has cached: any one of them
  pc, ret,             \* the loop that runs, and what follows it
  vaddr, paddr, count, \* its variables
  asked,               \* history: the arguments of the last call
  result,              \* what it returned
  shared               \* history: regions that had a table at the cloning

call == <<pc, ret, vaddr, paddr, count, asked, result>>
vars == <<mem, free, page_dir, cur_address_space, tlb, call, shared>>

cur_page_dir == page_dir[cur_address_space]

pdindex(v) == v \div TableSize
ptindex(v) == v % TableSize

(* What the processor finds in the tables of directory d.                  *)
Walk(d, v) ==
  LET table == mem[d][pdindex(v)] IN
  IF table.present /\ mem[table.frame][ptindex(v)].present
  THEN mem[table.frame][ptindex(v)].frame
  ELSE NoFrame

None == [page |-> 0, frame |-> NoFrame]

Flushed(v) == IF tlb.page = v THEN None ELSE tlb

-----------------------------------------------------------------------------

Init ==
  /\ \E low \in Junk :
       mem = [f \in Frame |->
                CASE f = 0 -> low
                  [] f = kernel_page_dir -> InitialDirectory
                  [] f = temp_page_table -> [i \in Index |-> Present(i)]
                  [] f = kernel_page_table -> InitialTable
                  [] OTHER -> [i \in Index |-> Clear]]
  /\ free = 4 .. NFrames - 1
  /\ page_dir = [kernel |-> kernel_page_dir, user |-> NoFrame]
  /\ cur_address_space = "kernel"
  /\ tlb = None
  /\ pc = "idle" /\ ret = "idle"
  /\ vaddr = 0 /\ paddr = 0 /\ count = 0
  /\ asked = [op |-> "none", d |-> kernel_page_dir, v |-> 0, p |-> 0, n |-> 0]
  /\ result = TRUE
  /\ shared = {}

(* The processor may cache a translation at any time.                      *)
TlbFill(v) ==
  /\ Walk(cur_page_dir, v) # NoFrame
  /\ tlb' = [page |-> v, frame |-> Walk(cur_page_dir, v)]
  /\ UNCHANGED <<mem, free, page_dir, cur_address_space, call, shared>>

Call(op, v, p, n, then) ==
  /\ pc' = op /\ ret' = then
  /\ vaddr' = v /\ paddr' = p /\ count' = n
  /\ asked' = [op |-> op, d |-> cur_page_dir, v |-> v, p |-> p, n |-> n]
  /\ UNCHANGED result

Return(r) ==
  /\ pc' = ret /\ ret' = "idle"
  /\ result' = r
  /\ UNCHANGED <<vaddr, paddr, count, asked>>

(* The step of a loop to the next page.                                    *)
NextPage ==
  /\ vaddr' = vaddr + 1 /\ paddr' = paddr + 1 /\ count' = count - 1
  /\ UNCHANGED <<pc, ret, asked, result>>

HasTable == mem[cur_page_dir][pdindex(vaddr)].present

-----------------------------------------------------------------------------
(* map_pages                                                               *)

MapCall(v, p, n) ==
  /\ pc = "idle"
  /\ Call("map", v, p, n, "idle")
  /\ UNCHANGED <<mem, free, page_dir, cur_address_space, tlb, shared>>

(* Mutant of AfterFlush: the old translation is not flushed.               *)
Unflushed(v) == tlb

AfterFlush(v) == Flushed(v)

(* The window, on the directory d, moves on to the table, and the entry is *)
(* stored there.                                                           *)
StoreEntry(m, d, e) ==
  LET table == m[d][pdindex(vaddr)].frame IN
  /\ mem' = [m EXCEPT ![table][ptindex(vaddr)] = e]
  /\ tlb' = AfterFlush(vaddr)

MapPage ==
  /\ pc = "map" /\ count > 0
  /\ HasTable
  /\ StoreEntry(mem, cur_page_dir, Present(paddr))
  /\ NextPage
  /\ UNCHANGED <<free, page_dir, cur_address_space, shared>>

(* Mutant of DirectoryWindow: the directory is not mapped again.           *)
WindowStays(w) == w

(* alloc_phys_pages has left the window at w; map_pages puts it back.      *)
DirectoryWindow(w) == cur_page_dir

(* A missing table is a fresh frame, which nobody clears.                  *)
MapNewTable(f, w, junk) ==
  LET d == DirectoryWindow(w) IN
  /\ pc = "map" /\ count > 0
  /\ ~HasTable
  /\ f \in free
  /\ free' = free \ {f}
  /\ StoreEntry([[mem EXCEPT ![f] = junk] EXCEPT ![d][pdindex(vaddr)] = Present(f)],
                d, Present(paddr))
  /\ NextPage
  /\ UNCHANGED <<page_dir, cur_address_space, shared>>

(* No frame for a table.  The pages before this one stay mapped.           *)
MapFails ==
  /\ pc = "map" /\ count > 0
  /\ ~HasTable
  /\ free = {}
  /\ Return(FALSE)
  /\ UNCHANGED <<mem, free, page_dir, cur_address_space, tlb, shared>>

(* The end of the loop of map_pages, and of that of unmap_pages.           *)
LoopEnds ==
  /\ pc \in {"map", "unmap"} /\ count = 0
  /\ Return(TRUE)
  /\ UNCHANGED <<mem, free, page_dir, cur_address_space, tlb, shared>>

-----------------------------------------------------------------------------
(* unmap_pages and get_physaddr                                            *)

UnmapCall(v, n) ==
  /\ pc = "idle"
  /\ Call("unmap", v, 0, n, "idle")
  /\ UNCHANGED <<mem, free, page_dir, cur_address_space, tlb, shared>>

(* Mutant of UnmapPage: the table is freed and stays linked.               *)
UnmapFreesTable ==
  /\ pc = "unmap" /\ count > 0
  /\ HasTable
  /\ StoreEntry(mem, cur_page_dir, Clear)
  /\ free' = free \cup {mem[cur_page_dir][pdindex(vaddr)].frame}
  /\ NextPage
  /\ UNCHANGED <<page_dir, cur_address_space, shared>>

UnmapPage ==
  /\ pc = "unmap" /\ count > 0
  /\ HasTable
  /\ StoreEntry(mem, cur_page_dir, Clear)
  /\ NextPage
  /\ UNCHANGED <<free, page_dir, cur_address_space, shared>>

UnmapFails ==
  /\ pc = "unmap" /\ count > 0
  /\ ~HasTable
  /\ Return(FALSE)
  /\ UNCHANGED <<mem, free, page_dir, cur_address_space, tlb, shared>>

(* Neither entry is checked: without a table, frame 0 is read as one.      *)
get_physaddr(v) ==
  LET table == mem[cur_page_dir][pdindex(v)].frame IN
  /\ pc = "idle"
  /\ asked' = [op |-> "translate", d |-> cur_page_dir, v |-> v,
               p |-> mem[table][ptindex(v)].frame, n |-> 1]
  /\ UNCHANGED <<mem, free, page_dir, cur_address_space, tlb, shared, pc, ret,
                 vaddr, paddr, count, result>>

-----------------------------------------------------------------------------
(* clone_directory and change_address_space                                *)

(* A frame for the clone; then the directory is mapped at a page v that    *)
(* nothing uses, which may take a frame for a table.  This happens once,   *)
(* at boot, with memory free.                                              *)
CloneCall(f, v) ==
  /\ pc = "idle"
  /\ page_dir.user = NoFrame
  /\ Cardinality(free) > 1 /\ f \in free
  /\ Walk(cur_page_dir, v) = NoFrame
  /\ free' = free \ {f}
  /\ page_dir' = [page_dir EXCEPT !.user = f]
  /\ Call("map", v, kernel_page_dir, 1, "copy")
  /\ UNCHANGED <<mem, cur_address_space, tlb, shared>>

(* Mutant of CopiedDirectory: only the kernel's region is copied.          *)
CopiedKernelRegion(d) ==
  [[i \in Index |-> Clear] EXCEPT ![KernelRegion] = d[KernelRegion]]

(* Entries are copied where the directory at the page of its own number,   *)
(* that is, in region 0, and the one at page v agree.                      *)
CopiedDirectory(d) ==
  [i \in Index |-> IF mem[Walk(cur_page_dir, kernel_page_dir)][i] = d[i] THEN d[i] ELSE Clear]

CloneCopy ==
  /\ pc = "copy"
  /\ mem' = [mem EXCEPT ![page_dir.user] =
               CopiedDirectory(mem[Walk(cur_page_dir, asked.v)])]
  /\ shared' = {i \in Index : mem[kernel_page_dir][i].present}
  /\ Call("unmap", asked.v, 0, 1, "idle")
  /\ UNCHANGED <<free, page_dir, cur_address_space, tlb>>

(* Loading cr3 empties the cache.                                          *)
FlushedAll == None

change_address_space(s) ==
  /\ pc = "idle"
  /\ page_dir[s] # NoFrame
  /\ cur_address_space' = s
  /\ tlb' = FlushedAll
  /\ UNCHANGED <<mem, free, page_dir, call, shared>>

-----------------------------------------------------------------------------

Next ==
  \/ \E v \in Usable : TlbFill(v) \/ get_physaddr(v)
  \/ \E v \in Usable, n \in 1 .. MaxRun :
       /\ v + n - 1 \in Usable
       /\ UnmapCall(v, n) \/ \E p \in Target : p + n - 1 \in Frame /\ MapCall(v, p, n)
  \/ MapPage \/ MapFails \/ UnmapPage \/ UnmapFails \/ LoopEnds
  \/ \E f, w \in Frame, junk \in Junk : MapNewTable(f, w, junk)
  \/ \E f \in Frame, v \in Usable : CloneCall(f, v)
  \/ CloneCopy
  \/ \E s \in {"kernel", "user"} : change_address_space(s)

Spec == Init /\ [][Next]_vars

-----------------------------------------------------------------------------
(* Properties                                                              *)

(* Every variable has its type: frames and entries stay in range and the   *)
(* loops inside the tables (memory_manager.c:89-107 and 242-297).          *)
TypeOK ==
  /\ mem \in [Frame -> [Index -> Entry]]
  /\ free \subseteq Frame
  /\ page_dir \in [{"kernel", "user"} -> Frame \cup {NoFrame}]
  /\ cur_address_space \in {"kernel", "user"}
  /\ cur_page_dir \in Frame
  /\ tlb \in [page : Page, frame : Frame \cup {NoFrame}]
  /\ pc \in {"idle", "map", "unmap", "copy"}
  /\ ret \in {"idle", "copy"}
  /\ vaddr \in 0 .. TableSize * TableSize
  /\ count > 0 => vaddr \in Page /\ (pc = "map" => paddr \in Frame)
  /\ count \in Nat
  /\ result \in BOOLEAN
  /\ shared \subseteq Index

(* The frames that hold directories and tables.                            *)
Directories == {page_dir[s] : s \in {"kernel", "user"}} \ {NoFrame}
TablesOf(d) == {i \in Index : mem[d][i].present}

(* Types hold, no frame is both free and a directory or a table, and no    *)
(* two entries lead to the same table, except where a clone shares it: a   *)
(* store into a table reaches one region only, although the single window  *)
(* is moved by alloc_phys_pages in between (line 251-267).                 *)
TablesApart ==
  LET entries == {x \in Directories \X Index : mem[x[1]][x[2]].present}
      tables == {mem[x[1]][x[2]].frame : x \in entries}
      cloning == pc = "copy" \/ (pc = "map" /\ ret = "copy") IN
  /\ TypeOK
  /\ ~cloning =>
       /\ (tables \cup Directories) \cap free = {}
       /\ tables \cap Directories = {}
       /\ \A c, d \in Directories : \A i \in TablesOf(c), j \in TablesOf(d) :
            mem[c][i].frame = mem[d][j].frame => i = j /\ (c = d \/ i \in shared)

(* After map_pages or unmap_pages, every page of the run that was asked    *)
(* for translates to its frame, or to none; when they fail, so do all      *)
(* pages before the one they failed at.  get_physaddr finds the frame of   *)
(* every mapped page (line 95-107 and 242-297).                            *)
DoesWhatWasAsked ==
  LET done == IF result THEN asked.n ELSE vaddr - asked.v
      found(i) == Walk(asked.d, asked.v + i) IN
  pc = "idle" =>
    /\ asked.op = "map" => \A i \in 0 .. done - 1 : found(i) = asked.p + i
    /\ asked.op = "unmap" => \A i \in 0 .. done - 1 : found(i) = NoFrame
    /\ asked.op = "translate" => found(0) \in {NoFrame, asked.p}

(* A cached translation is never out of date: each store into a table is   *)
(* followed by a flush of its page, and a change of the space by a flush   *)
(* of all (line 84-87, 268, 292 and 512-521).                              *)
TlbCoherent == tlb.frame \in {NoFrame, Walk(cur_page_dir, tlb.page)}

(* The regions that had a table when the directory was cloned translate    *)
(* alike in both spaces for ever, whichever maps or unmaps: no call takes  *)
(* a table away or replaces it (line 523-546).                             *)
SharedAlike ==
  \A v \in Page : pdindex(v) \in shared =>
    Walk(page_dir.kernel, v) = Walk(page_dir.user, v)

(* A step of map_pages or unmap_pages changes the translation of no page   *)
(* but the one it is at, unless the page's region had no table yet: then   *)
(* whatever the fresh frame held becomes mappings (line 261).              *)
OthersKept ==
  [][ \A s \in {"kernel", "user"}, v \in Page :
        page_dir[s] # NoFrame /\ pc \in {"map", "unmap"} /\ v # vaddr
          /\ mem[page_dir[s]][pdindex(v)].present
          => Walk(page_dir[s], v)' = Walk(page_dir[s], v) ]_vars

=============================================================================
