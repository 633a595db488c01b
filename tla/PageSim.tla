------------------------------ MODULE PageSim ------------------------------
(* The paging simulator of lab-07/sim.c: page tables, physical memory and    *)
(* swap under FIFO (-f) or LRU (-l) replacement, one action per pair         *)
(* (process, page) read from standard input.                                 *)
(*                                                                           *)
(* `memoria` of a page is not initialised by the program: NoMemoria stands   *)
(* for whatever is there, and the first read of it gives 1, 2 or, for all    *)
(* other numbers, 0.                                                         *)
(*                                                                           *)
(* A definition X_Suffix is a mutant of X, a bug the code could have had; it *)
(* is used by no other definition.                                           *)
EXTENDS Naturals, Integers, Sequences, FiniteSets, SequencesExt, FiniteSetsExt, Functions

CONSTANTS
  SimPairs,     \* the pairs <<pid, indice>> of the input
  MAX_PROCESOS, VIRTUAL,
  FISICA,       \* frames of physical memory
  SWAP,         \* frames of secondary memory
  MaxLru,       \* bound: lru_index
  MaxBlind,     \* bound: blind
  NoPage        \* the pid -1 of an empty frame

VARIABLES
  modo,         \* "f" or "l"
  activo,       \* the pids whose page table was initialised
  tabla,        \* tabla[p]: nroEnMemoria, memoria and lru_indice of page p
  ram,          \* ram[i]: the page in frame i, and its copy of lru_indice
  memSecundaria,\* memSecundaria[i]: the page in swap frame i
  fifo_index,
  lru_index,
  simst,        \* "reading", "done", the exits "refused" and "full" (no swap),
                \* or "undefined": an index of -1
  order,        \* history: the ideal algorithm's pages, its next victims last
  astray,       \* history: the pages whose frame the table does not know
  blind         \* history: the pairs read since FIFO first left its algorithm

pgvars == <<modo, activo, tabla, ram, memSecundaria, fifo_index, lru_index,
            simst, order, astray, blind>>

(* The check of main's loop; there is no check from below.                   *)
Supported(p) == p[1] <= MAX_PROCESOS - 1 /\ p[2] <= VIRTUAL - 1
SimPages == {p \in SimPairs : Supported(p)}

NoMemoria == 3
Garbage == {0, 1, 2}
Frames == 0..(FISICA - 1)
SwapSlots == 0..(SWAP - 1)
Untouched == [nro |-> -1, memoria |-> NoMemoria, lru |-> -1]
EmptyFrame == [page |-> NoPage, lru |-> -1]

PgInit ==
  /\ modo \in {"f", "l"}
  /\ activo = {}
  /\ tabla = [p \in SimPages |-> Untouched]
  /\ ram = [i \in Frames |-> EmptyFrame]
  /\ memSecundaria = [i \in SwapSlots |-> NoPage]
  /\ fifo_index = 0 /\ lru_index = 0
  /\ simst = "reading" /\ order = <<>> /\ astray = {} /\ blind = 0

-----------------------------------------------------------------------------
(* The frame the algorithm empties, the first with the least lru_indice.     *)
LeastUsed_Most == CHOOSE i \in Frames : \A j \in Frames : ram[j].lru <= ram[i].lru
LeastUsed ==
  CHOOSE i \in Frames : \A j \in Frames :
    ram[i].lru < ram[j].lru \/ (ram[i].lru = ram[j].lru /\ i <= j)

Victim == IF modo = "l" THEN LeastUsed ELSE fifo_index

Holes == {i \in Frames : ram[i].page = NoPage}
FreeSlots == {i \in SwapSlots : memSecundaria[i] = NoPage}

(* The table after inicializarProcesoSiEsNecesario: the rows of a new        *)
(* process are set, its `memoria` fields are not.                            *)
Initialised(pid) ==
  [p \in SimPages |->
     IF p[1] = pid /\ pid \notin activo
       THEN [tabla[p] EXCEPT !.nro = -1, !.lru = -1] ELSE tabla[p]]
Memoria(p) == IF tabla[p].memoria = NoMemoria THEN Garbage ELSE {tabla[p].memoria}

(* What a page that is now in frame i of RAM holds.                          *)
InRam(i) == [nro |-> i, memoria |-> 1, lru |-> lru_index]

(* lru_index++; FIFO counts too but never reads it, so its count stays 0.    *)
Ticked == IF modo = "l" THEN lru_index + 1 ELSE lru_index

(* The history the ideal algorithm keeps: LRU moves every page used to the   *)
(* front, FIFO only a page it has to load.                                   *)
Used(p) ==
  LET others == SelectSeq(order, LAMBDA q : q # p)
      inram == \E i \in 1..Len(order) : i <= FISICA /\ order[i] = p
  IN IF modo = "f" /\ inram THEN order ELSE <<p>> \o others

(* The page is in RAM: LRU stamps it in both copies, FIFO does nothing.      *)
Stamped(t, p) == [ram EXCEPT ![t[p].nro].lru = lru_index]
Hit(t, p) ==
  /\ t[p].memoria = 1
  /\ IF modo = "f" THEN tabla' = t /\ UNCHANGED <<ram, lru_index, simst>>
     ELSE IF t[p].nro = -1                  \* ram.paginas[-1]
       THEN simst' = "undefined" /\ tabla' = t /\ UNCHANGED <<ram, lru_index>>
     ELSE /\ tabla' = [t EXCEPT ![p].lru = lru_index]
          /\ ram' = Stamped(t, p)
          /\ lru_index' = Ticked
          /\ simst' = simst
  /\ UNCHANGED <<memSecundaria, fifo_index, astray>>

(* The page is in swap: it is exchanged with the victim.  The slot the table *)
(* names may hold another page, which then goes to RAM in its place.         *)
Exchanged(p, q, v) ==
  IF q = p THEN astray \ {p, v} ELSE ((astray \ {v}) \cup {p, q}) \ {NoPage}
SwappedOut(t, v, slot) == [t EXCEPT ![v].memoria = 2, ![v].nro = slot]
SwapIn(t, p) ==
  LET slot == t[p].nro
      f == Victim
      v == ram[f].page
      now == IF modo = "l" THEN lru_index ELSE t[p].lru
  IN /\ t[p].memoria = 2
     /\ IF v = NoPage \/ slot = -1         \* procesos[-2], memSecundaria.paginas[-1]
          THEN simst' = "undefined" /\ tabla' = t
               /\ UNCHANGED <<memSecundaria, ram, lru_index, fifo_index, astray>>
          ELSE /\ memSecundaria' = [memSecundaria EXCEPT ![slot] = v]
               /\ ram' = [ram EXCEPT ![f] = [page |-> memSecundaria[slot], lru |-> now]]
               /\ tabla' = [SwappedOut(t, v, slot) EXCEPT ![p] =
                              [nro |-> f, memoria |-> 1, lru |-> now]]
               /\ IF modo = "l"
                    THEN lru_index' = Ticked /\ UNCHANGED fifo_index
                    ELSE fifo_index' = (fifo_index + 1) % FISICA /\ UNCHANGED lru_index
               /\ astray' = Exchanged(p, memSecundaria[slot], v)
               /\ simst' = simst

(* The page is in no memory, and RAM has a hole: the first one is used.      *)
LoadInHole(t, p) ==
  /\ t[p].memoria \notin {1, 2}
  /\ Holes # {}
  /\ LET i == Min(Holes)
     IN /\ tabla' = [t EXCEPT ![p] = InRam(i)]
        /\ ram' = [ram EXCEPT ![i] = [page |-> p, lru |-> lru_index]]
  /\ lru_index' = Ticked
  /\ simst' = simst
  /\ UNCHANGED <<memSecundaria, fifo_index, astray>>

(* The page is in no memory and RAM is full: the victim goes to the first    *)
(* free swap frame.  LRU notes that frame in the victim's row, FIFO leaves   *)
(* nroEnMemoria as it was.                                                   *)
FirstFree == Min(FreeSlots)
Evict(t, p) ==
  LET f == Victim
      v == ram[f].page
      i == FirstFree
      out == IF modo = "l" THEN SwappedOut(t, v, i) ELSE [t EXCEPT ![v].memoria = 2]
  IN /\ t[p].memoria \notin {1, 2}
     /\ Holes = {}
     /\ memSecundaria' = [memSecundaria EXCEPT ![i] = v]
     /\ tabla' = [out EXCEPT ![p] = InRam(f)]
     /\ ram' = [ram EXCEPT ![f] = [page |-> p, lru |-> lru_index]]
     /\ lru_index' = Ticked
     /\ fifo_index' = IF modo = "f" THEN (fifo_index + 1) % FISICA ELSE fifo_index
     /\ astray' = IF out[v].nro = i THEN astray \ {v} ELSE astray \cup {v}
     /\ simst' = simst

(* FIFO leaves its algorithm: it takes a page that was never loaded to be in *)
(* RAM, or evicts to a swap frame with another number than its victim's.     *)
Strays(t, p) ==
  /\ modo = "f"
  /\ \/ t[p].memoria = 1 /\ t[p].nro = -1
     \/ t[p].memoria = 0 /\ Holes = {} /\ FirstFree # fifo_index

(* One turn of main's loop.                                                  *)
Reference(p) ==
  /\ simst = "reading"
  /\ lru_index < MaxLru /\ blind <= MaxBlind
  /\ UNCHANGED modo
  /\ \/ /\ ~Supported(p) \/ FreeSlots = {}   \* verificarMemoriaSecundaria exits
        /\ simst' = IF Supported(p) THEN "full" ELSE "refused"
        /\ UNCHANGED <<activo, tabla, ram, memSecundaria, fifo_index, lru_index,
                       order, astray, blind>>
     \/ /\ Supported(p) /\ FreeSlots # {}
        /\ activo' = activo \cup {p[1]}
        /\ \E m \in Memoria(p) :
             LET t == [Initialised(p[1]) EXCEPT ![p].memoria = m] IN
               /\ Hit(t, p) \/ SwapIn(t, p) \/ LoadInHole(t, p) \/ Evict(t, p)
               /\ blind' = IF blind = 0 /\ ~Strays(t, p) THEN 0 ELSE blind + 1
               /\ order' = IF blind' = 0 THEN Used(p) ELSE <<>>

(* End of input: the page tables and the memories are printed.               *)
EndOfInput ==
  /\ simst = "reading"
  /\ simst' = "done"
  /\ UNCHANGED <<modo, activo, tabla, ram, memSecundaria, fifo_index, lru_index,
                 order, astray, blind>>

PgNext == (\E p \in SimPairs : Reference(p)) \/ EndOfInput

-----------------------------------------------------------------------------
(* What imprimirTablaPaginacion prints for page p, and what imprimirMemorias *)
(* prints: the pages in the frames of each memory.                           *)
imprimirTablaPaginacion(p) ==
  IF p[1] \notin activo \/ tabla[p].nro = -1 THEN <<"-">>
  ELSE IF tabla[p].memoria = 1 THEN <<"r", tabla[p].nro>>
  ELSE IF tabla[p].memoria = 2 THEN <<"s", tabla[p].nro>> ELSE <<>>
imprimirMemorias(p) ==
  {<<"r", i>> : i \in {j \in Frames : ram[j].page = p}}
    \cup {<<"s", i>> : i \in {j \in SwapSlots : memSecundaria[j] = p}}

(* Every page that was loaded is in one frame of one of the memories, also   *)
(* when FIFO exchanges the wrong pages, and no other page is in any.         *)
Loaded(p) == p[1] \in activo /\ tabla[p].memoria \in {1, 2} /\ tabla[p].nro # -1
NoPageIsLost ==
  simst # "undefined" => \A p \in SimPages :
    Cardinality(imprimirMemorias(p)) = IF Loaded(p) THEN 1 ELSE 0

(* The printed page table says of every page the frame that holds it, and    *)
(* "-" of a page that is nowhere.  Under LRU this is so of all pages; FIFO's *)
(* eviction does not note the swap frame (sim.c:309), so it is not of pages  *)
(* evicted to a frame of another number, and of those exchanged through such *)
(* an entry, until the entry is set again.                                   *)
TableMatchesMemories ==
  /\ modo = "l" => astray = {}
  /\ simst # "undefined" => \A p \in SimPages \ astray :
       imprimirMemorias(p) =
         IF imprimirTablaPaginacion(p) = <<"-">> THEN {} ELSE {imprimirTablaPaginacion(p)}

(* Replacement is the named algorithm: the pages in RAM are the FISICA pages *)
(* used last (LRU) or loaded last (FIFO, until it first evicts a page to a   *)
(* frame of another number or takes an uninitialised 1 for a loaded page).   *)
RamHoldsIdealSet ==
  (blind = 0 /\ simst # "undefined") =>
    {ram[i].page : i \in Frames \ Holes} =
      {order[i] : i \in 1..(IF Len(order) < FISICA THEN Len(order) ELSE FISICA)}

(* The program exits for lack of swap exactly when FISICA + SWAP different   *)
(* pages were used, under the same proviso for FIFO.                         *)
SwapFullOnlyWhenUsed ==
  (blind = 0 /\ simst = "full") => Len(order) = FISICA + SWAP

(* The simulator under -l is LRU: the right pages in RAM, the others in swap *)
(* and a table that says so, as long as no uninitialised memoria makes it    *)
(* index with -1.  Under -f it is FIFO until an eviction leaves a stale      *)
(* frame number, and even then it loses no page and the rows that are wrong  *)
(* are those that such a number reached.                                     *)
SimIsIdeal ==
  /\ NoPageIsLost
  /\ TableMatchesMemories
  /\ RamHoldsIdealSet
  /\ SwapFullOnlyWhenUsed
=============================================================================
