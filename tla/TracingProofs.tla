--------------------------- MODULE TracingProofs ----------------------------
(***************************************************************************)
(* Theorems about Tracing, for every set of threads and addresses, every   *)
(* counter width and every combination of faults and clicks: the types and *)
(* who is told what; the numbers of the reports, none lost and in step;    *)
(* what waits for what; and that the table memprof shows is the replay of  *)
(* the program's log, which is what ReplayLog promises.                    *)
(***************************************************************************)
EXTENDS TracingInv, Recursion, SequenceTheorems, FiniteSetTheorems, TLAPS

-----------------------------------------------------------------------------
(* What the constructors of the wire format build.                         *)

LEMMA InfoType ==
  ASSUME NEW op \in AllocOps \cup {"MI_EXIT", "MI_CLONE"},
         NEW old \in Pointers, NEW new \in Pointers, NEW size \in Nat
  PROVE  Info(op, old, new, size) \in MIInfo
BY DEF Info, MIInfo

LEMMA SeqnoType ==
  ASSUME NEW i \in MIInfo, NEW n \in Nat
  PROVE  [i EXCEPT !.seqno = n] \in MIInfo
BY DEF MIInfo

LEMMA PartTypes ==
  ASSUME NEW i \in MIInfo
  PROVE  /\ Header(i) \in Parts
         /\ Frames(i) \in Parts
         /\ Hello \in Parts
         /\ Hello.info \in MIInfo
<1>1. Info("MI_CLONE", NULL, NULL, 0) \in MIInfo
  BY InfoType DEF Pointers
<1> QED BY <1>1 DEF Header, Frames, Hello, Parts

\* A table stays a table.
IsTable(f, K, V) == DOMAIN f \subseteq K /\ f \in [DOMAIN f -> V]

LEMMA InsertType ==
  ASSUME NEW K, NEW V, NEW f, IsTable(f, K, V), NEW k \in K, NEW v \in V
  PROVE  IsTable(Insert(f, k, v), K, V) /\ DOMAIN Insert(f, k, v) = DOMAIN f \cup {k}
BY DEF Insert, IsTable

LEMMA DeleteType ==
  ASSUME NEW K, NEW V, NEW f, IsTable(f, K, V), NEW k
  PROVE  IsTable(Delete(f, k), K, V) /\ DOMAIN Delete(f, k) = DOMAIN f \ {k}
BY DEF Delete, IsTable

-----------------------------------------------------------------------------
(* Type correctness.                                                       *)

LEMMA InitType == Init => TypeOK
<1> SUFFICES ASSUME Init PROVE TypeOK
  OBVIOUS
<1>1. WireTypeOK
  BY WireAssumption DEF Init, WireInit, WireTypeOK
<1>2. InterceptTypeOK
  <2>1. Info("MI_FREE", NULL, NULL, 0) \in MIInfo
    BY InfoType DEF AllocOps, Pointers
  <2> QED BY <2>1, WireAssumption, InterceptAssumption
          DEF Init, InterceptInit, InterceptTypeOK, Empty
<1>3. ProcessTypeOK
  <2>1. Hello.info \in MIInfo
    BY InfoType DEF Hello, Pointers
  <2> QED BY <2>1, WireAssumption, ProcessAssumption
          DEF Init, ProcessInit, ProcessTypeOK, Empty
<1> QED BY <1>1, <1>2, <1>3 DEF TypeOK

LEMMA RequestType ==
  ASSUME TypeOK, NEW t \in Threads, Request(t), UNCHANGED processVars
  PROVE  TypeOK'
<1> USE WireAssumption, InterceptAssumption
<1>0. IsTable(heap, Addrs, Sizes)
  BY DEF TypeOK, InterceptTypeOK, IsTable
<1>1. ASSUME NEW i \in MIInfo, Ready(t), Called(t, i), IsTable(heap', Addrs, Sizes)
      PROVE  TypeOK'
  <2>1. InterceptTypeOK'
    BY <1>1 DEF TypeOK, InterceptTypeOK, IsTable, Ready, Called
  <2>2. WireTypeOK'
    BY <1>1 DEF TypeOK, WireTypeOK, Called, wireVars
  <2>3. ProcessTypeOK'
    BY DEF TypeOK, ProcessTypeOK, processVars, blockVars, connVars, srvVars
  <2> QED BY <2>1, <2>2, <2>3 DEF TypeOK
<1>2. CASE do_malloc(t)
  <2>1. PICK s \in Sizes, p \in Fresh \cup OOM :
          /\ heap' = IF p = NULL THEN heap ELSE Insert(heap, p, s)
          /\ Called(t, Info("MI_MALLOC", NULL, p, s))
    BY <1>2 DEF do_malloc
  <2>2. p \in Pointers /\ s \in Nat
    BY DEF Fresh, OOM, Pointers
  <2>3. CASE p = NULL
    BY <1>0, <1>1, <1>2, <2>1, <2>2, <2>3, InfoType DEF do_malloc, AllocOps, Pointers
  <2>4. CASE p # NULL
    <3>1. IsTable(Insert(heap, p, s), Addrs, Sizes)
      BY <1>0, <2>2, <2>4, InsertType DEF Pointers
    <3> QED BY <1>1, <1>2, <2>1, <2>2, <2>4, <3>1, InfoType
            DEF do_malloc, AllocOps, Pointers
  <2> QED BY <2>3, <2>4
<1>3. CASE do_realloc(t)
  <2>1. PICK p \in Usable \cup {NULL}, s \in Sizes, r \in Pointers :
          old_realloc(p, s, r) /\ Called(t, Info("MI_REALLOC", p, r, s))
    BY <1>3 DEF do_realloc
  <2>2. p \in Pointers /\ s \in Nat
    BY DEF Usable, Pointers, TypeOK, InterceptTypeOK
  <2>3. IsTable(Delete(heap, p), Addrs, Sizes)
    BY <1>0, DeleteType
  <2>4. r \in Addrs => IsTable(Insert(Delete(heap, p), r, s), Addrs, Sizes)
    BY <2>3, InsertType
  <2>5. r \in Fresh \cup ({p} \ {NULL}) => r \in Addrs
    BY <2>2 DEF Fresh, Pointers
  <2>6. IsTable(heap', Addrs, Sizes)
    BY <1>0, <2>1, <2>3, <2>4, <2>5 DEF old_realloc
  <2> QED BY <1>1, <1>3, <2>1, <2>2, <2>6, InfoType DEF do_realloc, AllocOps
<1>4. CASE do_free(t)
  <2>1. PICK p \in Usable \cup {NULL} :
          heap' = Delete(heap, p) /\ Called(t, Info("MI_FREE", p, NULL, 0))
    BY <1>4 DEF do_free
  <2>2. p \in Pointers
    BY DEF Usable, Pointers, TypeOK, InterceptTypeOK
  <2>3. IsTable(Delete(heap, p), Addrs, Sizes)
    BY <1>0, DeleteType
  <2> QED BY <1>1, <1>4, <2>1, <2>2, <2>3, InfoType DEF do_free, AllocOps, Pointers
<1>5. CASE atexit_trap(t)
  <2>1. Info("MI_EXIT", NULL, NULL, 0) \in MIInfo
    BY InfoType DEF Pointers
  <2> QED BY <1>5, <2>1
          DEF atexit_trap, Ready, TypeOK, WireTypeOK, InterceptTypeOK, ProcessTypeOK,
              wireVars, processVars, blockVars, connVars, srvVars
<1> QED BY <1>2, <1>3, <1>4, <1>5 DEF Request

LEMMA CallStepType ==
  ASSUME TypeOK, NEW t \in Threads, CallStep(t), UNCHANGED processVars
  PROVE  TypeOK'
<1> USE WireAssumption, InterceptAssumption
      DEF TypeOK, WireTypeOK, InterceptTypeOK, wireVars
<1>0. ProcessTypeOK'
  BY DEF ProcessTypeOK, processVars, blockVars, connVars, srvVars
<1>1. CASE mi_tracing(t)
  BY <1>0, <1>1 DEF mi_tracing
<1>2. CASE Elide(t)
  BY <1>0, <1>2 DEF Elide
<1>3. CASE TakeSeqno(t)
  <2>1. [info[t] EXCEPT !.seqno = seqno] \in MIInfo
    BY SeqnoType
  <2>2. info' \in [Threads -> MIInfo]
    BY <1>3, <2>1 DEF TakeSeqno
  <2>3. log' \in Seq(MIInfo)
    BY <1>3, <2>1, AppendProperties DEF TakeSeqno
  <2>4. seqno' \in 0..(SeqMod - 1)
    BY <1>3 DEF TakeSeqno
  <2> QED BY <1>0, <1>3, <2>2, <2>3, <2>4 DEF TakeSeqno
<1>4. CASE new_process(t)
  <2>1. Append(wire[t], Hello) \in Seq(Parts)
    BY PartTypes, AppendProperties
  <2> QED BY <1>0, <1>4, <2>1 DEF new_process, Sent
<1>5. CASE ConnectError(t)
  BY <1>0, <1>5 DEF ConnectError, Gone
<1>6. CASE Response(t)
  BY <1>0, <1>6 DEF Response, stop_tracing
<1>7. CASE WriteInfo(t)
  <2>1. Append(wire[t], Header(info[t])) \in Seq(Parts)
    BY PartTypes, AppendProperties
  <2> QED BY <1>0, <1>7, <2>1 DEF WriteInfo, Sent
<1>8. CASE WriteFrames(t)
  <2>1. Append(wire[t], Frames(info[t])) \in Seq(Parts)
    BY PartTypes, AppendProperties
  <2> QED BY <1>0, <1>8, <2>1 DEF WriteFrames, Sent
<1>9. CASE WriteFails(t)
  BY <1>0, <1>9 DEF WriteFails, stop_tracing
<1>10. CASE exit_wait(t)
  BY <1>0, <1>10 DEF exit_wait
<1>11. CASE Exited(t)
  BY <1>0, <1>11 DEF Exited
<1> QED BY <1>1, <1>2, <1>3, <1>4, <1>5, <1>6, <1>7, <1>8, <1>9, <1>10, <1>11
        DEF CallStep

LEMMA DieType ==
  ASSUME TypeOK, Die, UNCHANGED processVars
  PROVE  TypeOK'
BY DEF TypeOK, WireTypeOK, InterceptTypeOK, ProcessTypeOK, Die, Gone, wireVars,
       processVars, blockVars, connVars, srvVars

\* process_command's effect on the root's own state.
LEMMA ApplyType ==
  ASSUME TypeOK, NEW i \in MIInfo, NEW stack \in Stacks, Apply(i, stack)
  PROVE  /\ pseqno' \in 0..(SeqMod - 1)
         /\ IsTable(block_table', Addrs, Blocks)
         /\ bytes_used' \in 0..(ByteMod - 1)
         /\ n_allocations' \in Int
         /\ srv' = "drain"
<1> USE WireAssumption, ProcessAssumption
<1>1. IsTable(block_table, Addrs, Blocks)
  BY DEF TypeOK, ProcessTypeOK, IsTable
<1>2. IsTable(Without(i), Addrs, Blocks)
  BY <1>1, DeleteType DEF Without
<1>3. IsTable(block_table', Addrs, Blocks)
  <2>1. CASE Adds(i)
    <3>1. i.new_ptr \in Addrs
      BY <2>1 DEF Adds, MIInfo, Pointers
    <3>2. [size |-> i.size % ByteMod, stack |-> stack] \in Blocks
      <4>1. i.size % ByteMod \in 0..(ByteMod - 1)
        BY DEF MIInfo
      <4> QED BY <4>1 DEF Blocks
    <3> QED BY <1>2, <2>1, <3>1, <3>2, InsertType DEF Apply
  <2> QED BY <1>2, <2>1 DEF Apply
<1>4. bytes_used' \in 0..(ByteMod - 1)
  <2>1. Removes(i) => block_table[i.old_ptr].size \in Nat
    BY <1>1 DEF Removes, Has, IsTable, Blocks
  <2>2. i.size \in Nat /\ bytes_used \in Int
    BY DEF MIInfo, TypeOK, ProcessTypeOK
  <2>3. \A n \in Int : n % ByteMod \in 0..(ByteMod - 1)
    OBVIOUS
  <2> DEFINE out == IF Removes(i) THEN block_table[i.old_ptr].size ELSE 0
  <2> DEFINE in  == IF Adds(i) THEN i.size ELSE 0
  <2>4. out \in Int /\ in \in Int
    BY <2>1, <2>2
  <2>5. bytes_used' = (bytes_used - out + in) % ByteMod
    BY DEF Apply
  <2> HIDE DEF out, in
  <2> QED BY <2>2, <2>3, <2>4, <2>5
<1>5. n_allocations' \in Int /\ srv' = "drain"
  BY DEF Apply, TypeOK, ProcessTypeOK
<1>6. pseqno' \in 0..(SeqMod - 1)
  BY DEF Apply, TypeOK, ProcessTypeOK
<1> QED BY <1>3, <1>4, <1>5, <1>6

LEMMA CommandType ==
  ASSUME TypeOK, NEW i \in MIInfo, NEW stack \in Stacks, process_command(i, stack)
  PROVE  /\ pseqno' \in 0..(SeqMod - 1)
         /\ command_queue' \subseteq Commands
         /\ IsTable(block_table', Addrs, Blocks)
         /\ bytes_used' \in 0..(ByteMod - 1)
         /\ n_allocations' \in Int
         /\ srv' \in {"loop", "drain"}
         /\ reading' \in Threads
         /\ cmd' \in MIInfo
<1>0. reading' \in Threads /\ cmd' \in MIInfo
  BY PartTypes, WireAssumption DEF process_command
<1>1. CASE i.seqno = pseqno
  BY <1>0, <1>1, ApplyType DEF process_command, TypeOK, ProcessTypeOK
<1>2. CASE i.seqno # pseqno
  BY <1>0, <1>2
     DEF process_command, queue_command, Commands, IsTable, TypeOK, ProcessTypeOK
<1> QED BY <1>1, <1>2

LEMMA ServerType ==
  ASSUME TypeOK, ServerStep, UNCHANGED localVars
  PROVE  TypeOK'
<1> USE WireAssumption, ProcessAssumption
      DEF TypeOK, WireTypeOK, ProcessTypeOK
<1>0. InterceptTypeOK'
  BY DEF InterceptTypeOK, localVars
<1>1. ASSUME NEW t \in Threads, wire[t] # <<>>
      PROVE  /\ Head(wire[t]) \in Parts
             /\ Tail(wire[t]) \in Seq(Parts)
             /\ Head(wire[t]).info \in MIInfo
             /\ Head(wire[t]).info.seqno \in Stacks
  <2>1. Head(wire[t]) \in Parts /\ Tail(wire[t]) \in Seq(Parts)
    BY <1>1, HeadTailProperties
  <2> QED BY <2>1 DEF Parts, MIInfo, Stacks
<1>2. CASE unqueue_command
  <2>1. PICK c \in command_queue :
          command_queue' = command_queue \ {c} /\ Apply(c.info, c.stack)
    BY <1>2 DEF unqueue_command
  <2>2. c.info \in MIInfo /\ c.stack \in Stacks
    BY DEF Commands
  <2>3. /\ pseqno' \in 0..(SeqMod - 1)
        /\ IsTable(block_table', Addrs, Blocks)
        /\ bytes_used' \in 0..(ByteMod - 1)
        /\ n_allocations' \in Int
        /\ srv' = "drain"
    BY <2>1, <2>2, ApplyType
  <2> QED BY <1>0, <1>2, <2>1, <2>3
          DEF unqueue_command, wireVars, connVars, IsTable
<1>3. CASE QueueDone
  BY <1>0, <1>3 DEF QueueDone, wireVars, connVars, blockVars
<1>4. CASE ReadFrames
  BY <1>0, <1>1, <1>4, CommandType DEF ReadFrames, Took, connVars, IsTable
<1>5. CASE FramesEOF
  <2>1. NULL \in Stacks
    BY DEF Stacks
  <2> QED BY <1>0, <1>5, <2>1, CommandType DEF FramesEOF, wireVars, connVars, IsTable
<1>6. ASSUME NEW t \in Threads, control_func(t)
      PROVE  TypeOK'
  BY <1>0, <1>1, <1>6 DEF control_func, Took, blockVars, srvVars
<1>7. ASSUME NEW t \in Threads, CloneOfNobody(t)
      PROVE  TypeOK'
  BY <1>0, <1>7 DEF CloneOfNobody, Ends, processVars, blockVars, connVars, srvVars
<1>8. ASSUME NEW t \in Threads, input_func(t)
      PROVE  TypeOK'
  BY <1>0, <1>1, <1>8 DEF input_func, Took, blockVars, connVars
<1>9. ASSUME NEW t \in Threads, ReadExit(t)
      PROVE  TypeOK'
  <2>1. NULL \in Stacks
    BY DEF Stacks
  <2> QED BY <1>0, <1>1, <1>9, <2>1, CommandType DEF ReadExit, Took, IsTable
<1>10. ASSUME NEW t \in Threads, InputEOF(t)
       PROVE  TypeOK'
  BY <1>0, <1>10 DEF InputEOF, wireVars, blockVars, srvVars
<1> QED BY <1>2, <1>3, <1>4, <1>5, <1>6, <1>7, <1>8, <1>9, <1>10 DEF ServerStep

LEMMA UserType ==
  ASSUME TypeOK, UserStep \/ (\E t \in Threads : AnswerNobody(t)), UNCHANGED localVars
  PROVE  TypeOK'
<1> USE WireAssumption, ProcessAssumption
      DEF TypeOK, WireTypeOK, ProcessTypeOK
<1>0. InterceptTypeOK'
  BY DEF InterceptTypeOK, localVars
<1>1. CASE process_detach
  <2>1. wire' \in [Threads -> Seq(Parts)]
    <3>1. <<>> \in Seq(Parts)
      OBVIOUS
    <3>2. wire' = wire \/ wire' = [wire EXCEPT ![Main] = <<>>]
      BY <1>1 DEF process_detach
    <3> QED BY <3>1, <3>2
  <2>2. /\ peer' \in [Threads -> {"none", "open", "closed"}]
        /\ reply' \in [Threads -> {NULL, 0, 1}]
        /\ status' \in [Threads -> {"INIT", "RUNNING", "EXITING", "DEFUNCT", "DETACHED"}]
    BY <1>1 DEF process_detach
  <2> QED BY <1>0, <1>1, <2>1, <2>2 DEF process_detach, blockVars, srvVars
<1>2. CASE process_clear_input
  BY <1>0, <1>2 DEF process_clear_input, wireVars, connVars, srvVars, Empty
<1>3. CASE record_button_toggled_cb
  <2>1. input_tag' \in [Threads -> BOOLEAN]
    BY <1>3, Zenon DEF record_button_toggled_cb
  <2> QED BY <1>0, <1>3, <2>1
          DEF record_button_toggled_cb, wireVars, blockVars, srvVars
<1>4. CASE Quit
  BY <1>0, <1>4 DEF Quit, Ends, processVars, blockVars, connVars, srvVars
<1>5. ASSUME NEW t \in Threads, AnswerNobody(t)
      PROVE  TypeOK'
  BY <1>0, <1>5 DEF AnswerNobody, Ends, processVars, blockVars, connVars, srvVars
<1> QED BY <1>1, <1>2, <1>3, <1>4, <1>5 DEF UserStep

\* Every reachable state is well typed: in particular both counters stay in
\* range, whatever is queued or stored is a report that was sent, and
\* bytes_used stays within its width.
THEOREM TypeCorrect == Spec => []TypeOK
<1>1. TypeOK /\ [Next]_vars => TypeOK'
  <2> SUFFICES ASSUME TypeOK, [Next]_vars PROVE TypeOK'
    OBVIOUS
  <2>1. CASE Client
    BY <2>1, CallStepType, RequestType, DieType DEF Client, InterceptNext
  <2>2. CASE Server
    BY <2>2, ServerType, UserType DEF Server, ProcessNext
  <2>3. CASE UNCHANGED vars
    BY <2>3 DEF vars, TypeOK, WireTypeOK, InterceptTypeOK, ProcessTypeOK, wireVars,
                localVars, processVars, blockVars, connVars, srvVars
  <2> QED BY <2>1, <2>2, <2>3 DEF Next
<1> QED BY <1>1, InitType, PTL DEF Spec

-----------------------------------------------------------------------------
(* The number of allocations shown.                                        *)

CountInv == IsFiniteSet(DOMAIN block_table) /\ CountMatches

LEMMA ApplyCount ==
  ASSUME TypeOK, CountInv, NEW i, NEW stack, Apply(i, stack)
  PROVE  CountInv'
<1> DEFINE D == DOMAIN block_table
           W == DOMAIN Without(i)
           out == IF Removes(i) THEN 1 ELSE 0
           in  == IF Adds(i) THEN 1 ELSE 0
<1>1. IsFiniteSet(D) /\ n_allocations = Cardinality(D) /\ Cardinality(D) \in Nat
  BY FS_CardinalityType DEF CountInv, CountMatches
<1>2. IsFiniteSet(W) /\ Cardinality(W) = Cardinality(D) - out
  <2>1. CASE Removes(i)
    <3>1. W = D \ {i.old_ptr} /\ i.old_ptr \in D
      BY <2>1 DEF Without, Delete, Removes, Has
    <3> QED BY <1>1, <2>1, <3>1, FS_RemoveElement
  <2>2. CASE ~Removes(i)
    BY <1>1, <2>2 DEF Without
  <2> QED BY <2>1, <2>2
<1>3. IsFiniteSet(DOMAIN block_table')
      /\ Cardinality(DOMAIN block_table') = Cardinality(W) + in
  <2>1. CASE Adds(i)
    <3>1. DOMAIN block_table' = W \cup {i.new_ptr} /\ i.new_ptr \notin W
      BY <2>1 DEF Apply, Insert, Adds, Has
    <3> QED BY <1>2, <2>1, <3>1, FS_AddElement
  <2>2. CASE ~Adds(i)
    <3>1. DOMAIN block_table' = W
      BY <2>2 DEF Apply
    <3>2. Cardinality(W) \in Nat
      BY <1>2, FS_CardinalityType
    <3> QED BY <1>2, <2>2, <3>1, <3>2
  <2> QED BY <2>1, <2>2
<1>4. n_allocations' = n_allocations - out + in
  BY DEF Apply
<1> HIDE DEF D, W, out, in
<1> QED BY <1>1, <1>2, <1>3, <1>4 DEF CountInv, CountMatches

\* The number of allocations in the window is the number of blocks in the
\* table, through every order of applying reports, reset and death.
THEOREM CountsAgree == Spec => []CountMatches
<1>1. Init => CountInv
  BY FS_EmptySet DEF Init, ProcessInit, CountInv, CountMatches, Empty
<1>2. TypeOK /\ CountInv /\ [Next]_vars => CountInv'
  <2> SUFFICES ASSUME TypeOK, CountInv, [Next]_vars PROVE CountInv'
    OBVIOUS
  <2>1. ASSUME UNCHANGED <<block_table, n_allocations>> PROVE CountInv'
    BY <2>1 DEF CountInv, CountMatches
  <2>2. ASSUME NEW i, NEW stack, process_command(i, stack) PROVE CountInv'
    BY <2>1, <2>2, ApplyCount DEF process_command, queue_command
  <2>3. CASE unqueue_command
    BY <2>3, ApplyCount DEF unqueue_command
  <2>4. CASE ReadFrames \/ FramesEOF \/ (\E t \in Threads : ReadExit(t))
    BY <2>2, <2>4 DEF ReadFrames, FramesEOF, ReadExit
  <2>5. CASE process_clear_input
    BY <2>5, FS_EmptySet DEF process_clear_input, CountInv, CountMatches, Empty
  <2>6. CASE \/ QueueDone \/ process_detach \/ record_button_toggled_cb \/ Quit
             \/ \E t \in Threads : \/ control_func(t) \/ CloneOfNobody(t)
                                   \/ input_func(t) \/ InputEOF(t) \/ AnswerNobody(t)
    BY <2>1, <2>6
       DEF QueueDone, process_detach, record_button_toggled_cb, Quit, control_func,
           CloneOfNobody, input_func, InputEOF, AnswerNobody, Ends, blockVars,
           processVars
  <2>7. CASE Client \/ UNCHANGED vars
    BY <2>1, <2>7 DEF Client, vars, processVars, blockVars
  <2> QED BY <2>3, <2>4, <2>5, <2>6, <2>7
          DEF Next, Server, ProcessNext, ServerStep, UserStep
<1> QED BY <1>1, <1>2, TypeCorrect, PTL DEF Spec, CountInv

-----------------------------------------------------------------------------
(* The total of a table.                                                   *)

SizesIn(table) == [a \in DOMAIN table |-> table[a].size]

Sized(table) ==
  /\ table = [a \in DOMAIN table |-> table[a]]
  /\ IsFiniteSet(DOMAIN table)
  /\ \A a \in DOMAIN table : table[a].size \in Int

LEMMA TotalIs ==
  ASSUME NEW table, Sized(table)
  PROVE  Total(table) = SumOver(SizesIn(table), DOMAIN table)
<1> DEFINE S == DOMAIN table
           f == SizesIn(table)
           Fold(g) == g = [s \in SUBSET S |->
                             IF s = {} THEN 0
                             ELSE LET x == CHOOSE x \in s : TRUE IN table[x].size + g[s \ {x}]]
<1>1. Total(table) = (CHOOSE g : Fold(g))[S]
  BY DEF Total, MapThenSumSet, MapThenFoldSet
<1>2. \A s \in SUBSET S : s # {} => Chosen(s) \in S /\ f[Chosen(s)] = table[Chosen(s)].size
  BY DEF Chosen, SizesIn
<1> HIDE DEF f
<1>3. \A g : [s \in SUBSET S |-> IF s = {} THEN 0 ELSE table[Chosen(s)].size + g[s \ {Chosen(s)}]]
           = [s \in SUBSET S |-> IF s = {} THEN 0 ELSE f[Chosen(s)] + g[s \ {Chosen(s)}]]
  BY <1>2
<1>4. \A g : Fold(g) <=> Sums(f, SUBSET S, g)
  BY <1>3 DEF Sums, Chosen
<1> HIDE DEF Fold
<1>5. (CHOOSE g : Fold(g)) = (CHOOSE g : Sums(f, SUBSET S, g))
  BY <1>4
<1> QED
  BY <1>1, <1>5 DEF SumOver, f

LEMMA SizedSums ==
  ASSUME NEW table, Sized(table)
  PROVE  Summable(SizesIn(table), DOMAIN table)
BY DEF Sized, Summable, SizesIn

\* What a total is, and what inserting and removing a block do to it.
LEMMA TotalType ==
  ASSUME NEW table, Sized(table)
  PROVE  Total(table) \in Int
BY TotalIs, SizedSums, SumType

LEMMA TotalEmpty == Total(Empty) = 0
<1>1. Sized(Empty) /\ DOMAIN Empty = {}
  BY FS_EmptySet DEF Sized, Empty
<1> QED
  BY <1>1, TotalIs, SumEmpty

LEMMA TotalDelete ==
  ASSUME NEW table, Sized(table), NEW k \in DOMAIN table
  PROVE  Sized(Delete(table, k)) /\ Total(Delete(table, k)) = Total(table) - table[k].size
<1> DEFINE u == Delete(table, k)
           f == SizesIn(table)
           h == SizesIn(u)
<1>1. /\ DOMAIN u = DOMAIN table \ {k} /\ u = [a \in DOMAIN u |-> u[a]]
      /\ \A a \in DOMAIN u : u[a].size = table[a].size
  BY DEF Delete
<1> HIDE DEF u
<1>2. Sized(u)
  BY <1>1, FS_RemoveElement DEF Sized
<1>3. \A a \in DOMAIN u : f[a] = h[a]
  BY <1>1 DEF SizesIn
<1>4. f[k] = table[k].size
  BY DEF SizesIn
<1> HIDE DEF f, h
<1>5. /\ Summable(f, DOMAIN u) /\ SumOver(f, DOMAIN u) \in Int /\ f[k] \in Int
      /\ SumOver(f, DOMAIN table) = SumOver(f, DOMAIN u) + f[k]
  <2>1. Summable(f, DOMAIN table)
    BY SizedSums DEF f
  <2> QED
    BY <1>1, <2>1, SumAdd
<1>6. SumOver(f, DOMAIN u) = SumOver(h, DOMAIN u)
  BY <1>3, <1>5, SumAgree
<1>7. Total(table) = SumOver(f, DOMAIN table) /\ Total(u) = SumOver(h, DOMAIN u)
  BY <1>2, TotalIs DEF f, h
<1> QED
  BY <1>2, <1>4, <1>5, <1>6, <1>7 DEF u

LEMMA TotalInsert ==
  ASSUME NEW table, Sized(table), NEW k, k \notin DOMAIN table, NEW v, v.size \in Int
  PROVE  Sized(Insert(table, k, v)) /\ Total(Insert(table, k, v)) = Total(table) + v.size
<1> DEFINE u == Insert(table, k, v)
<1>1. /\ DOMAIN u = DOMAIN table \cup {k} /\ u = [a \in DOMAIN u |-> u[a]]
      /\ u[k] = v /\ \A a \in DOMAIN table : u[a] = table[a]
  BY DEF Insert
<1>2. Delete(u, k) = table
  <2>1. DOMAIN u \ {k} = DOMAIN table
    BY <1>1
  <2>2. \A a \in DOMAIN table : u[a] = table[a]
    BY <1>1
  <2> HIDE DEF u
  <2>3. Delete(u, k) = [a \in DOMAIN table |-> table[a]]
    BY <2>1, <2>2 DEF Delete
  <2> QED
    BY <2>3 DEF Sized
<1> HIDE DEF u
<1>3. Sized(u)
  <2>1. IsFiniteSet(DOMAIN u)
    BY <1>1, FS_AddElement DEF Sized
  <2>2. \A a \in DOMAIN u : u[a].size \in Int
    BY <1>1 DEF Sized
  <2> QED
    BY <1>1, <2>1, <2>2 DEF Sized
<1>4. Total(table) = Total(u) - v.size
  BY <1>1, <1>2, <1>3, TotalDelete
<1> QED
  BY <1>3, <1>4, TotalType DEF u

-----------------------------------------------------------------------------
(* The number of bytes shown.                                              *)

LEMMA ApplyBytes ==
  ASSUME TypeOK, Sized(block_table), BytesMatch,
         NEW i \in MIInfo, NEW stack, Apply(i, stack)
  PROVE  Sized(block_table') /\ BytesMatch'
<1> DEFINE W == Without(i)
           out == IF Removes(i) THEN block_table[i.old_ptr].size ELSE 0
           in  == IF Adds(i) THEN i.size ELSE 0
           new == [size |-> i.size % ByteMod, stack |-> stack]
<1>0. ByteMod \in Nat \ {0} /\ i.size \in Nat
  BY ProcessAssumption DEF MIInfo
<1>1. Total(block_table) \in Int /\ bytes_used = Total(block_table) % ByteMod
  BY TotalType DEF BytesMatch
<1>2. Sized(W) /\ Total(W) = Total(block_table) - out /\ out \in Int
  <2>1. CASE Removes(i)
    <3>1. i.old_ptr \in DOMAIN block_table /\ W = Delete(block_table, i.old_ptr)
      BY <2>1 DEF Removes, Has, Without
    <3>2. block_table[i.old_ptr].size \in Int
      BY <3>1 DEF Sized
    <3> QED
      BY <2>1, <3>1, <3>2, TotalDelete
  <2>2. CASE ~Removes(i)
    BY <1>1, <2>2 DEF Without
  <2> QED
    BY <2>1, <2>2
<1>3. in \in Int /\ (in % ByteMod) \in Int
  BY <1>0
<1>4. Sized(block_table') /\ Total(block_table') = Total(W) + (in % ByteMod)
  <2>1. CASE Adds(i)
    <3>1. i.new_ptr \notin DOMAIN W /\ block_table' = Insert(W, i.new_ptr, new)
      BY <2>1 DEF Adds, Has, Apply
    <3>2. new.size \in Int /\ new.size = in % ByteMod
      BY <1>0, <2>1
    <3> HIDE DEF W, new
    <3> QED
      BY <1>2, <3>1, <3>2, TotalInsert
  <2>2. CASE ~Adds(i)
    <3>1. block_table' = W
      BY <2>2 DEF Apply
    <3>2. Total(W) \in Int
      BY <1>2, TotalType
    <3>3. in % ByteMod = 0
      BY <1>0, <2>2
    <3> HIDE DEF W, in
    <3> QED
      BY <1>2, <3>1, <3>2, <3>3
  <2> QED
    BY <2>1, <2>2
<1>5. bytes_used' = (bytes_used - out + in) % ByteMod
  BY DEF Apply
<1> HIDE DEF W, out, in, new
<1>6. bytes_used' = (Total(block_table) - out + (in % ByteMod)) % ByteMod
  <2>1. -out \in Int
    BY <1>2
  <2>2. ((Total(block_table) % ByteMod) + (-out) + in) % ByteMod
        = (Total(block_table) + (-out) + (in % ByteMod)) % ByteMod
    <3>1. PICK x \in Int : x = Total(block_table)
      BY <1>1
    <3>2. PICK z \in Int : z = -out
      BY <2>1
    <3>3. PICK y \in Int : y = in
      BY <1>3
    <3>4. ((x % ByteMod) + z + y) % ByteMod = (x + z + (y % ByteMod)) % ByteMod
      BY <1>0, ModSum
    <3> QED
      BY <3>1, <3>2, <3>3, <3>4
  <2>3. \A x, y \in Int : x - y = x + (-y)
    OBVIOUS
  <2>4. bytes_used \in Int
    BY <1>0, <1>1
  <2> QED
    BY <1>1, <1>2, <1>3, <1>5, <2>2, <2>3, <2>4
<1> QED
  BY <1>2, <1>4, <1>6 DEF BytesMatch

\* The bytes in the window are the sum of the sizes of the blocks in the table,
\* in a counter that wraps at its own width, whatever the reports are, whatever
\* order they are applied in, and through reset (process_command, process_clear_input).
THEOREM BytesAgree == Spec => []BytesMatch
<1>1. Init => BytesMatch /\ Sized(block_table)
  <2>1. 0 % ByteMod = 0
    BY ProcessAssumption
  <2>2. Sized(Empty)
    BY FS_EmptySet DEF Sized, Empty
  <2> QED
    BY <2>1, <2>2, TotalEmpty DEF Init, ProcessInit, BytesMatch
<1>2. TypeOK /\ BytesMatch /\ Sized(block_table) /\ [Next]_vars => (BytesMatch /\ Sized(block_table))'
  <2> SUFFICES ASSUME TypeOK, BytesMatch, Sized(block_table), [Next]_vars
               PROVE  BytesMatch' /\ Sized(block_table')
    OBVIOUS
  <2>0. cmd \in MIInfo /\ \A c \in command_queue : c.info \in MIInfo
    BY DEF TypeOK, ProcessTypeOK, Commands
  <2>1. ASSUME UNCHANGED <<block_table, bytes_used>> PROVE BytesMatch' /\ Sized(block_table')
    BY <2>1 DEF BytesMatch
  <2>2. ASSUME NEW i \in MIInfo, NEW stack, process_command(i, stack)
        PROVE  BytesMatch' /\ Sized(block_table')
    BY <2>1, <2>2, ApplyBytes DEF process_command, queue_command
  <2>3. CASE unqueue_command
    BY <2>0, <2>3, ApplyBytes DEF unqueue_command
  <2>4. CASE ReadFrames \/ FramesEOF
    BY <2>0, <2>2, <2>4 DEF ReadFrames, FramesEOF
  <2>5. CASE \E t \in Threads : ReadExit(t)
    <3>1. PICK t \in Threads : ReadExit(t)
      BY <2>5
    <3>2. Head(wire[t]).info \in MIInfo
      <4>1. wire[t] \in Seq(Parts) /\ wire[t] # <<>>
        BY <3>1 DEF ReadExit, TypeOK, WireTypeOK
      <4>2. Head(wire[t]) \in Parts
        BY <4>1
      <4> QED
        BY <4>2 DEF Parts
    <3> QED
      BY <2>2, <3>1, <3>2 DEF ReadExit
  <2>6. CASE process_clear_input
    <3>1. block_table' = Empty /\ bytes_used' = 0
      BY <2>6 DEF process_clear_input
    <3>2. Sized(Empty) /\ 0 % ByteMod = 0
      BY FS_EmptySet, ProcessAssumption DEF Sized, Empty
    <3> QED
      BY <3>1, <3>2, TotalEmpty DEF BytesMatch
  <2>7. CASE \/ QueueDone \/ process_detach \/ record_button_toggled_cb \/ Quit
             \/ \E t \in Threads : \/ control_func(t) \/ CloneOfNobody(t)
                                   \/ input_func(t) \/ InputEOF(t) \/ AnswerNobody(t)
    BY <2>1, <2>7
       DEF QueueDone, process_detach, record_button_toggled_cb, Quit, control_func,
           CloneOfNobody, input_func, InputEOF, AnswerNobody, Ends, blockVars,
           processVars
  <2>8. CASE Client \/ UNCHANGED vars
    BY <2>1, <2>8 DEF Client, vars, processVars, blockVars
  <2> QED BY <2>3, <2>4, <2>5, <2>6, <2>7, <2>8
          DEF Next, Server, ProcessNext, ServerStep, UserStep
<1> QED BY <1>1, <1>2, TypeCorrect, PTL DEF Spec

-----------------------------------------------------------------------------
(* The pid's entry in the server's table.                                  *)

\* The entry never leads to a process that has ended, and is gone only after one
\* has: CloneOfNobody, control_func's g_error, needs such an end.
THEOREM EntryKept == Spec => []PidEntryLive
<1>1. Init => PidEntryLive
  BY WireAssumption, InterceptAssumption, ProcessAssumption
  DEF Init, ProcessInit, PidEntryLive
<1>2. TypeOK /\ PidEntryLive /\ [Next]_vars => PidEntryLive'
  <2> SUFFICES ASSUME TypeOK, PidEntryLive, [Next]_vars PROVE PidEntryLive'
    OBVIOUS
  <2>0. /\ status \in [Threads -> {"INIT", "RUNNING", "EXITING", "DEFUNCT", "DETACHED"}]
        /\ pid_entry \in Threads \cup {NULL}
    BY DEF TypeOK, ProcessTypeOK
  <2>1. ASSUME UNCHANGED <<status, pid_entry>> PROVE PidEntryLive'
    BY <2>1 DEF PidEntryLive
  <2>2. ASSUME NEW t \in Threads, NEW s \in {"RUNNING", "EXITING", "DETACHED"},
               status[t] # "DEFUNCT", status' = [status EXCEPT ![t] = s],
               pid_entry' \in {t, pid_entry}, pid_entry # NULL \/ pid_entry' = NULL
        PROVE  PidEntryLive'
    BY <2>0, <2>2, WireAssumption DEF PidEntryLive
  <2>3. ASSUME NEW t \in Threads, control_func(t) PROVE PidEntryLive'
    BY <2>2, <2>3 DEF control_func
  <2>4. ASSUME NEW t \in Threads, ReadExit(t) PROVE PidEntryLive'
    BY <2>2, <2>4 DEF ReadExit, Watched
  <2>5. CASE process_detach
    <3>1. CASE UNCHANGED status
      BY <2>1, <2>5, <3>1 DEF process_detach
    <3>2. CASE status[Main] = "RUNNING" /\ status' = [status EXCEPT ![Main] = "DETACHED"]
      BY <2>2, <2>5, <3>2, WireAssumption DEF process_detach
    <3> QED BY <2>5, <3>1, <3>2 DEF process_detach
  <2>6. ASSUME NEW t \in Threads, InputEOF(t) PROVE PidEntryLive'
    BY <2>0, <2>6, WireAssumption DEF InputEOF, PidEntryLive
  <2>7. CASE \/ unqueue_command \/ QueueDone \/ ReadFrames \/ FramesEOF
             \/ process_clear_input \/ record_button_toggled_cb \/ Quit
             \/ \E t \in Threads : CloneOfNobody(t) \/ input_func(t) \/ AnswerNobody(t)
    BY <2>1, <2>7
       DEF unqueue_command, QueueDone, ReadFrames, FramesEOF, process_clear_input,
           record_button_toggled_cb, Quit, CloneOfNobody, input_func, AnswerNobody,
           Ends, processVars, connVars
  <2>8. CASE Client \/ UNCHANGED vars
    BY <2>1, <2>8 DEF Client, vars, processVars, connVars
  <2> QED BY <2>3, <2>4, <2>5, <2>6, <2>7, <2>8
          DEF Next, Server, ProcessNext, ServerStep, UserStep
<1> QED BY <1>1, <1>2, TypeCorrect, PTL DEF Spec

-----------------------------------------------------------------------------
(***************************************************************************)
(* The command queue does its work: with fewer reports than the counter    *)
(* has values, memprof ends in step with the program (InStep), for any     *)
(* number of threads and any order in which their sockets are read.        *)
(***************************************************************************)

-----------------------------------------------------------------------------
(* Sequences of parts.                                                     *)

LEMMA HelloSeq ==
  /\ Append(<<>>, Hello) = <<Hello>>
  /\ Tail(<<Hello>>) = <<>>
  /\ <<Hello>> # <<>>
  /\ Head(<<Hello>>) = Hello
OBVIOUS

LEMMA AppendFacts ==
  ASSUME NEW w \in Seq(Parts), NEW p \in Parts
  PROVE  /\ Append(w, p) \in Seq(Parts)
         /\ Append(w, p) # <<>>
         /\ Len(Append(w, p)) = Len(w) + 1
         /\ Append(w, p)[Len(w) + 1] = p
         /\ \A k \in 1..Len(w) : Append(w, p)[k] = w[k]
         /\ Len(w) \in Nat
         /\ w # <<>> => Len(w) >= 1
OBVIOUS

LEMMA TailFacts ==
  ASSUME NEW w \in Seq(Parts), w # <<>>
  PROVE  /\ Tail(w) \in Seq(Parts)
         /\ Head(w) = w[1] /\ w[1] \in Parts
         /\ Len(w) \in Nat /\ Len(w) >= 1
         /\ Len(Tail(w)) = Len(w) - 1
         /\ \A k \in 1..Len(w) - 1 : Tail(w)[k] = w[k + 1]
         /\ Tail(w) = <<>> <=> Len(w) = 1
<1>1. /\ Tail(w) \in Seq(Parts)
      /\ Len(w) \in Nat /\ Len(w) >= 1
      /\ Len(Tail(w)) = Len(w) - 1
      /\ \A k \in 1..Len(w) - 1 : Tail(w)[k] = w[k + 1]
  OBVIOUS
<1>2. Head(w) = w[1] /\ w[1] \in Parts
  BY <1>1
<1>3. Tail(w) = <<>> <=> Len(Tail(w)) = 0
  BY <1>1, EmptySeq
<1> QED BY <1>1, <1>2, <1>3

LEMMA PairedTail ==
  ASSUME NEW w \in Seq(Parts), w # <<>>, Paired(w)
  PROVE  Paired(Tail(w))
BY TailFacts DEF Paired

LEMMA PairedHeader ==
  ASSUME NEW w \in Seq(Parts), NEW i \in MIInfo, Paired(w),
         w # <<>> => w[Len(w)].part # "info"
  PROVE  Paired(Append(w, Header(i)))
<1>1. Header(i) \in Parts /\ Header(i).part = "info"
  BY PartTypes DEF Header
<1> QED BY <1>1, AppendFacts DEF Paired

LEMMA PairedFrames ==
  ASSUME NEW w \in Seq(Parts), NEW i \in MIInfo, Paired(w), i.operation \in AllocOps,
         w # <<>> => w[Len(w)] = Header(i)
  PROVE  Paired(Append(w, Frames(i)))
<1>1. /\ Frames(i) \in Parts /\ Frames(i).part = "frames" /\ Frames(i).info = i
      /\ Header(i).part = "info" /\ Header(i).info = i
  BY PartTypes DEF Header, Frames
<1> QED BY <1>1, AppendFacts DEF Paired

LEMMA NumbersAppend ==
  ASSUME NEW w \in Seq(Parts), NEW p \in Parts
  PROVE  Numbers(Append(w, p)) =
           Numbers(w) \cup (IF p.part = "info" THEN {p.info.seqno} ELSE {})
<1> DEFINE v == Append(w, p)
<1>1. /\ Len(v) = Len(w) + 1 /\ v[Len(w) + 1] = p /\ Len(w) \in Nat
      /\ \A k \in 1..Len(w) : v[k] = w[k]
  BY AppendFacts
<1> HIDE DEF v
<1>2. ASSUME NEW n \in Numbers(v)
      PROVE  n \in Numbers(w) \/ (p.part = "info" /\ n = p.info.seqno)
  <2>1. PICK k \in 1..Len(v) : v[k].part = "info" /\ n = v[k].info.seqno
    BY DEF Numbers
  <2>2. k \in 1..Len(w) \/ k = Len(w) + 1
    BY <1>1
  <2> QED BY <1>1, <2>1, <2>2 DEF Numbers
<1>3. ASSUME NEW n \in Numbers(w) PROVE n \in Numbers(v)
  BY <1>1 DEF Numbers
<1>4. p.part = "info" => p.info.seqno \in Numbers(v)
  BY <1>1 DEF Numbers
<1> QED BY <1>2, <1>3, <1>4 DEF v

LEMMA NumbersTail ==
  ASSUME NEW w \in Seq(Parts), w # <<>>, AllDifferent(w)
  PROVE  /\ Head(w).part = "info" =>
              /\ Head(w).info.seqno \in Numbers(w)
              /\ Numbers(Tail(w)) = Numbers(w) \ {Head(w).info.seqno}
         /\ Head(w).part # "info" => Numbers(Tail(w)) = Numbers(w)
<1> DEFINE v == Tail(w)
<1>1. /\ Len(v) = Len(w) - 1 /\ Len(w) \in Nat /\ Len(w) >= 1 /\ Head(w) = w[1]
      /\ \A k \in 1..Len(w) - 1 : v[k] = w[k + 1]
  BY TailFacts
<1> HIDE DEF v
<1>2. ASSUME NEW n \in Numbers(v)
      PROVE  n \in Numbers(w) /\ (w[1].part = "info" => n # w[1].info.seqno)
  <2>1. PICK k \in 1..Len(v) : v[k].part = "info" /\ n = v[k].info.seqno
    BY DEF Numbers
  <2>2. k + 1 \in 1..Len(w) /\ 1 \in 1..Len(w) /\ v[k] = w[k + 1]
    BY <1>1
  <2> QED BY <2>1, <2>2 DEF Numbers, AllDifferent
<1>3. ASSUME NEW n \in Numbers(w), ~(w[1].part = "info" /\ n = w[1].info.seqno)
      PROVE  n \in Numbers(v)
  <2>1. PICK k \in 1..Len(w) : w[k].part = "info" /\ n = w[k].info.seqno
    BY DEF Numbers
  <2>2. k - 1 \in 1..Len(v) /\ v[k - 1] = w[k]
    BY <1>1, <1>3, <2>1
  <2> QED BY <2>1, <2>2 DEF Numbers
<1>4. w[1].part = "info" => w[1].info.seqno \in Numbers(w)
  BY <1>1 DEF Numbers
<1> QED BY <1>1, <1>2, <1>3, <1>4 DEF v

LEMMA DifferentAppend ==
  ASSUME NEW w \in Seq(Parts), NEW p \in Parts, AllDifferent(w),
         p.part = "info" => p.info.seqno \notin Numbers(w)
  PROVE  AllDifferent(Append(w, p))
BY AppendFacts DEF AllDifferent, Numbers

LEMMA DifferentTail ==
  ASSUME NEW w \in Seq(Parts), w # <<>>, AllDifferent(w)
  PROVE  AllDifferent(Tail(w))
BY TailFacts DEF AllDifferent

-----------------------------------------------------------------------------
(* Connections.                                                            *)

\* What a connection looks like survives every step.
LEMMA ConnInit == Init => ConnInv
BY WireAssumption
   DEF Init, WireInit, InterceptInit, ProcessInit, ConnInv, ConnOf, Info, AllocOps

LEMMA ConnClient ==
  ASSUME TypeOK, ConnInv, InterceptNext, UNCHANGED processVars
  PROVE  ConnInv'
<1> USE WireAssumption DEF TypeOK, WireTypeOK, InterceptTypeOK, ConnInv, ConnOf, Attached,
      wireVars, processVars, connVars
<1>1. ASSUME NEW t \in Threads, Request(t) PROVE ConnInv'
  <2>1. ASSUME NEW i, i.operation # "MI_CLONE", Ready(t), Called(t, i)
        PROVE  ConnInv'
    BY <2>1 DEF Ready, Called
  <2>2. CASE do_malloc(t)
    BY <2>1, <2>2 DEF do_malloc, Info
  <2>3. CASE do_realloc(t)
    BY <2>1, <2>3 DEF do_realloc, Info
  <2>4. CASE do_free(t)
    BY <2>1, <2>4 DEF do_free, Info
  <2>5. CASE atexit_trap(t)
    BY <2>5 DEF atexit_trap, Ready, Info
  <2> QED BY <1>1, <2>2, <2>3, <2>4, <2>5 DEF Request
<1>2. ASSUME NEW t \in Threads, CallStep(t) PROVE ConnInv'
  <2>1. CASE mi_tracing(t)
    BY <2>1 DEF mi_tracing
  <2>2. CASE Elide(t)
    BY <2>2 DEF Elide
  <2>3. CASE TakeSeqno(t)
    <3>1. ASSUME NEW u \in Threads PROVE info'[u].operation = info[u].operation
      BY <2>3 DEF TakeSeqno, MIInfo
    <3> QED BY <2>3, <3>1 DEF TakeSeqno
  <2>4. CASE new_process(t)
    <3>1. wire' = [wire EXCEPT ![t] = <<Hello>>]
      BY <2>4, HelloSeq DEF new_process, find_thread, Sent
    <3>2. status[t] = "INIT" /\ reply[t] = NULL
      BY <2>4 DEF new_process, find_thread
    <3>3. ConnOf(t)'
      BY <2>4, <3>1, <3>2 DEF new_process
    <3>4. ASSUME NEW u \in Threads, u # t PROVE ConnOf(u)'
      BY <2>4, <3>1, <3>4 DEF new_process
    <3>5. fd'[Main] # "none" /\ status'[Main] # "INIT"
      BY <2>4 DEF new_process
    <3> HIDE DEF ConnOf
    <3> QED BY <3>3, <3>4, <3>5
  <2>5. CASE ConnectError(t)
    BY <2>5 DEF ConnectError, Gone
  <2>6. CASE Response(t)
    <3>1. ConnOf(t)'
      <4>1. CASE reply[t] = 1
        BY <2>6, <4>1 DEF Response
      <4>2. CASE reply[t] # 1
        <5>1. peer[t] = "closed" /\ t # Main
          BY <2>6, <4>2 DEF Response
        <5> QED BY <2>6, <4>2, <5>1 DEF Response, stop_tracing
      <4> QED BY <4>1, <4>2
    <3>2. ASSUME NEW u \in Threads, u # t PROVE ConnOf(u)'
      BY <2>6, <3>2 DEF Response, stop_tracing
    <3> QED BY <2>6, <3>1, <3>2 DEF Response, stop_tracing
  <2>7. CASE WriteInfo(t)
    <3>1. ConnOf(t)'
      BY <2>7 DEF WriteInfo, Sent, CanSend, Broken, MIInfo
    <3>2. ASSUME NEW u \in Threads, u # t PROVE ConnOf(u)'
      BY <2>7, <3>2 DEF WriteInfo, Sent
    <3> QED BY <2>7, <3>1, <3>2 DEF WriteInfo
  <2>8. CASE WriteFrames(t)
    BY <2>8 DEF WriteFrames, Sent, CanSend, Broken
  <2>9. CASE WriteFails(t)
    BY <2>9 DEF WriteFails, find_thread, stop_tracing, Broken
  <2>10. CASE exit_wait(t)
    BY <2>10 DEF exit_wait, Broken
  <2>11. CASE Exited(t)
    BY <2>11 DEF Exited
  <2> QED BY <1>2, <2>1, <2>2, <2>3, <2>4, <2>5, <2>6, <2>7, <2>8, <2>9, <2>10, <2>11
          DEF CallStep
<1>3. CASE Die
  BY <1>3 DEF Die, Gone
<1> QED BY <1>1, <1>2, <1>3 DEF InterceptNext

LEMMA ConnServer ==
  ASSUME TypeOK, ConnInv, ReadInv, ProcessNext, UNCHANGED localVars
  PROVE  ConnInv'
<1> USE WireAssumption DEF TypeOK, WireTypeOK, ProcessTypeOK, ConnInv, ConnOf, Attached,
      localVars, Loop
<1>1. CASE \/ unqueue_command \/ QueueDone \/ FramesEOF \/ process_clear_input
           \/ record_button_toggled_cb
  BY <1>1 DEF unqueue_command, QueueDone, FramesEOF, process_clear_input,
              record_button_toggled_cb, connVars, wireVars
<1>2. CASE ReadFrames
  <2>0. PICK t \in Threads : t = reading
    OBVIOUS
  <2>1. ConnOf(t)'
    BY <1>2, <2>0 DEF ReadFrames, Took, connVars, ReadInv
  <2>2. ASSUME NEW u \in Threads, u # t PROVE ConnOf(u)'
    BY <1>2, <2>0, <2>2 DEF ReadFrames, Took, connVars
  <2> QED BY <1>2, <2>1, <2>2 DEF ReadFrames, connVars
<1>3. ASSUME NEW t \in Threads, control_func(t) PROVE ConnInv'
  <2>1. wire[t] = <<Hello>> /\ pc[t] = "await"
    BY <1>3 DEF control_func
  <2>2. wire' = [wire EXCEPT ![t] = <<>>]
    BY <1>3, <2>1, HelloSeq DEF control_func, Took
  <2>3. ConnOf(t)'
    BY <1>3, <2>1, <2>2 DEF control_func
  <2>4. ASSUME NEW u \in Threads, u # t PROVE ConnOf(u)'
    BY <1>3, <2>2, <2>4 DEF control_func
  <2> QED BY <1>3, <2>3, <2>4 DEF control_func
<1>4. ASSUME NEW t \in Threads, NEW how, Ends(how), how # "up" PROVE ConnInv'
  BY <1>4 DEF Ends, processVars, connVars
<1>5. ASSUME NEW t \in Threads, input_func(t) PROVE ConnInv'
  BY <1>5 DEF input_func, Watched, Took, connVars
<1>6. ASSUME NEW t \in Threads, ReadExit(t) PROVE ConnInv'
  BY <1>6 DEF ReadExit, Watched, Took
<1>7. ASSUME NEW t \in Threads, InputEOF(t) PROVE ConnInv'
  BY <1>7 DEF InputEOF, AtEOF, wireVars
<1>8. CASE process_detach
  <2>1. ConnOf(Main)'
    <3>1. CASE status[Main] = "EXITING"
      BY <1>8, <3>1 DEF process_detach
    <3>2. CASE status[Main] = "RUNNING"
      <4>1. ~Attached' /\ wire'[Main] = <<>>
        BY <1>8, <3>2 DEF process_detach
      <4>2. alive => pc[Main] # "await"
        OBVIOUS
      <4> QED BY <1>8, <3>2, <4>1, <4>2 DEF process_detach
    <3> QED BY <1>8, <3>1, <3>2 DEF process_detach
  <2>2. ASSUME NEW u \in Threads, u # Main PROVE ConnOf(u)'
    BY <1>8, <2>2 DEF process_detach
  <2> QED BY <1>8, <2>1, <2>2 DEF process_detach
<1>9. CASE Quit \/ (\E t \in Threads : CloneOfNobody(t) \/ AnswerNobody(t))
  BY <1>4, <1>9 DEF Quit, CloneOfNobody, AnswerNobody
<1> QED BY <1>1, <1>2, <1>3, <1>5, <1>6, <1>7, <1>8, <1>9
        DEF ProcessNext, ServerStep, UserStep

-----------------------------------------------------------------------------
(* Sockets.                                                                *)

LEMMA WireInit0 == Init => WireInv /\ ReadInv
<1> SUFFICES ASSUME Init PROVE WireInv /\ ReadInv
  OBVIOUS
<1>1. ReadInv
  BY DEF Init, ProcessInit, ReadInv
<1>2. ASSUME NEW t \in Threads PROVE WireOf(t)
  BY DEF Init, WireInit, InterceptInit, ProcessInit, WireOf, Paired, WaitsFor
<1> QED BY <1>1, <1>2 DEF WireInv

\* A thread's own steps change its socket only.
LEMMA WireOthers ==
  ASSUME NEW t \in Threads, NEW u \in Threads, u # t, TypeOK, WireOf(u), ConnOf(u),
         \/ Request(t) \/ CallStep(t),
         UNCHANGED processVars
  PROVE  WireOf(u)'
<1>1. CASE ConnectError(t)
  <2>1. /\ UNCHANGED <<wire, pc, info, peer, srv, reading, cmd, status>>
        /\ fd'[u] # "open"
    BY <1>1 DEF ConnectError, Gone, processVars, connVars, srvVars
  <2> QED BY <2>1 DEF WireOf, WaitsFor, Broken
<1>2. CASE ~ConnectError(t)
  <2>1. /\ wire'[u] = wire[u] /\ pc'[u] = pc[u] /\ info'[u] = info[u]
        /\ fd'[u] = fd[u] /\ peer'[u] = peer[u]
    BY <1>2 DEF Request, do_malloc, do_realloc, do_free, atexit_trap, Called, CallStep,
           mi_tracing, Elide, TakeSeqno, new_process, Response, stop_tracing,
           WriteInfo, WriteFrames, WriteFails, exit_wait, Exited, Sent, wireVars,
           TypeOK, WireTypeOK, InterceptTypeOK
  <2>2. UNCHANGED <<srv, reading, cmd, status>>
    BY DEF processVars, connVars, srvVars
  <2> QED BY <2>1, <2>2 DEF WireOf, WaitsFor, Broken
<1> QED BY <1>1, <1>2

LEMMA WireClient ==
  ASSUME TypeOK, ConnInv, WireInv, ReadInv, InterceptNext, UNCHANGED processVars
  PROVE  WireInv' /\ ReadInv'
<1> USE WireAssumption DEF WireInv, ConnInv
<1>0. ReadInv' /\ UNCHANGED <<srv, reading, cmd, status>>
  BY DEF ReadInv, processVars, connVars, srvVars
<1>1. ASSUME NEW t \in Threads, Request(t) PROVE WireOf(t)'
  <2>1. /\ pc[t] = "run" /\ pc'[t] \in {"called", "backtrace", "exited"}
        /\ wire' = wire /\ fd' = fd /\ peer' = peer
    BY <1>1 DEF Request, do_malloc, do_realloc, do_free, atexit_trap, Called, Ready,
                wireVars, TypeOK, InterceptTypeOK
  <2> QED BY <1>0, <2>1 DEF WireOf, WaitsFor, Broken
<1>2. ASSUME NEW t \in Threads, CallStep(t) PROVE WireOf(t)'
  <2> USE DEF TypeOK, WireTypeOK, InterceptTypeOK, wireVars
  <2>1. CASE mi_tracing(t) \/ Elide(t) \/ TakeSeqno(t) \/ Exited(t)
    <3>1. /\ pc[t] \notin {"frames", "exitwait"} /\ pc'[t] # "frames"
          /\ wire' = wire /\ fd' = fd /\ peer' = peer
      BY <2>1 DEF mi_tracing, Elide, TakeSeqno, Exited
    <3> QED BY <1>0, <3>1 DEF WireOf, WaitsFor, Broken
  <2>2. CASE new_process(t)
    <3>1. wire'[t] = <<Hello>> /\ status[t] = "INIT" /\ pc'[t] = "await"
      BY <2>2, HelloSeq DEF new_process, find_thread, Sent, ConnOf
    <3>2. ~WaitsFor(t)
      BY <3>1 DEF ReadInv, WaitsFor
    <3>3. <<Hello>>[1].part = "hello" /\ Len(<<Hello>>) = 1
      BY DEF Hello
    <3> QED BY <1>0, <3>1, <3>2, <3>3 DEF WireOf, WaitsFor, Broken, Paired
  <2>3. CASE ConnectError(t) \/ WriteFails(t) \/ exit_wait(t)
    <3>1. wire' = wire /\ fd'[t] # "open"
      BY <2>3 DEF ConnectError, Gone, WriteFails, stop_tracing, exit_wait
    <3> QED BY <1>0, <3>1 DEF WireOf, WaitsFor, Broken
  <2>4. CASE Response(t)
    <3>1. /\ wire' = wire /\ pc[t] = "await" /\ pc'[t] = "numbered"
          /\ info' = info /\ fd'[t] \in {fd[t], "closed"}
      BY <2>4 DEF Response, stop_tracing
    <3> QED BY <1>0, <3>1 DEF WireOf, WaitsFor, Broken
  <2>5. CASE WriteInfo(t)
    <3> DEFINE w == wire[t]
    <3>1. /\ w \in Seq(Parts) /\ info[t] \in MIInfo /\ Header(info[t]) \in Parts
          /\ fd[t] = "open" /\ pc[t] = "numbered"
          /\ Header(info[t]).part = "info" /\ Header(info[t]).info = info[t]
      BY <2>5, PartTypes DEF WriteInfo, CanSend, Broken, Header
    <3>2. /\ wire'[t] = Append(w, Header(info[t])) /\ info' = info /\ fd' = fd
          /\ pc'[t] \in {"frames", "exitwait"}
      BY <2>5 DEF WriteInfo, Sent
    <3>3. w # <<>> => w[Len(w)].part # "info"
      BY <3>1 DEF WireOf
    <3>4. w = <<>> => ~WaitsFor(t)
      BY <3>1 DEF WireOf
    <3>5. status[t] # "INIT" /\ info[t].operation # "MI_CLONE"
      BY <3>1 DEF ConnOf
    <3>6. Paired(wire'[t])
      BY <3>1, <3>2, <3>3, PairedHeader DEF WireOf
    <3> DEFINE v == Append(w, Header(info[t]))
    <3>7. /\ v # <<>> /\ Len(v) = Len(w) + 1 /\ v[Len(v)] = Header(info[t])
          /\ \A k \in 1..Len(w) : v[k] = w[k]
          /\ Len(w) \in Nat /\ (w # <<>> => Len(w) >= 1)
          /\ (w = <<>> => v[1] = Header(info[t]))
      BY <3>1, AppendFacts
    <3>8. \A k \in 1..Len(v) : v[k].part # "hello" /\ v[k].info.operation # "MI_CLONE"
      BY <3>1, <3>5, <3>7 DEF WireOf
    <3> HIDE DEF v
    <3> QED BY <1>0, <3>1, <3>2, <3>4, <3>5, <3>6, <3>7, <3>8
            DEF WireOf, WaitsFor, Broken, v
  <2>6. CASE WriteFrames(t)
    <3> DEFINE w == wire[t]
    <3>1. /\ w \in Seq(Parts) /\ info[t] \in MIInfo /\ Frames(info[t]) \in Parts
          /\ ~Broken(t) /\ fd[t] = "open" /\ pc[t] = "frames"
          /\ Frames(info[t]).part = "frames" /\ Frames(info[t]).info = info[t]
      BY <2>6, PartTypes DEF WriteFrames, CanSend, Broken, Frames
    <3>2. wire'[t] = Append(w, Frames(info[t])) /\ info' = info /\ pc'[t] = "run"
      BY <2>6 DEF WriteFrames, Sent
    <3>3. IF w = <<>> THEN WaitsFor(t) /\ cmd = info[t] ELSE w[Len(w)] = Header(info[t])
      BY <3>1 DEF WireOf
    <3>4. status[t] # "INIT" /\ info[t].operation \in AllocOps
      BY <3>1 DEF ConnOf
    <3>5. Paired(wire'[t])
      BY <3>1, <3>2, <3>3, <3>4, PairedFrames DEF WireOf
    <3> DEFINE v == Append(w, Frames(info[t]))
    <3>6. /\ v # <<>> /\ Len(v) = Len(w) + 1 /\ v[Len(v)] = Frames(info[t])
          /\ \A k \in 1..Len(w) : v[k] = w[k]
          /\ Len(w) \in Nat /\ (w # <<>> => Len(w) >= 1)
          /\ (w = <<>> => v[1] = Frames(info[t]))
      BY <3>1, AppendFacts
    <3>7. \A k \in 1..Len(v) : v[k].part # "hello" /\ v[k].info.operation # "MI_CLONE"
      BY <3>1, <3>4, <3>6 DEF WireOf, AllocOps
    <3> HIDE DEF v
    <3> QED BY <1>0, <3>1, <3>2, <3>3, <3>5, <3>6, <3>7 DEF WireOf, WaitsFor, Broken, v
  <2> QED BY <1>2, <2>1, <2>2, <2>3, <2>4, <2>5, <2>6 DEF CallStep
<1>3. CASE Die
  <2>1. /\ wire' = wire /\ \A t \in Threads : fd'[t] # "open"
    BY <1>3 DEF Die, Gone
  <2> QED BY <1>0, <2>1 DEF WireOf, WaitsFor, Broken
<1> QED BY <1>0, <1>1, <1>2, <1>3, WireOthers DEF InterceptNext

\* After process_command memprof waits for nobody's frames.
LEMMA CommandEndsWait ==
  ASSUME NEW i, NEW stack, process_command(i, stack)
  PROVE  srv' \in {"loop", "drain"}
BY DEF process_command, queue_command, Apply

\* Reading the first part of a socket: what is left.
LEMMA Popped ==
  ASSUME TypeOK, NEW t \in Threads, WireOf(t), wire[t] # <<>>
  PROVE  LET w == wire[t]
             v == Tail(wire[t])
         IN /\ v \in Seq(Parts) /\ Paired(v)
            /\ Head(w) = w[1] /\ Head(w) \in Parts
            /\ v # <<>> => v[Len(v)] = w[Len(w)] /\ v[1] = w[2] /\ Len(w) >= 2
            /\ v = <<>> => w[Len(w)] = w[1]
            /\ status[t] # "INIT" =>
                 \A k \in 1..Len(v) : /\ v[k].part # "hello"
                                      /\ v[k].info.operation # "MI_CLONE"
<1> DEFINE w == wire[t]
           v == Tail(w)
<1>1. w \in Seq(Parts) /\ w # <<>>
  BY DEF TypeOK, WireTypeOK
<1>2. /\ v \in Seq(Parts) /\ Head(w) = w[1] /\ w[1] \in Parts
      /\ Len(w) \in Nat /\ Len(w) >= 1 /\ Len(v) = Len(w) - 1
      /\ \A k \in 1..Len(w) - 1 : v[k] = w[k + 1]
      /\ v = <<>> <=> Len(w) = 1
  BY <1>1, TailFacts
<1>3. Paired(v)
  BY <1>1, PairedTail DEF WireOf
<1>4. status[t] # "INIT" =>
        \A k \in 1..Len(v) : v[k].part # "hello" /\ v[k].info.operation # "MI_CLONE"
  BY <1>2 DEF WireOf
<1> HIDE DEF w, v
<1>5. v # <<>> => v[Len(v)] = w[Len(w)] /\ v[1] = w[2] /\ Len(w) >= 2
  BY <1>2
<1>6. v = <<>> => w[Len(w)] = w[1]
  BY <1>2
<1> QED BY <1>2, <1>3, <1>4, <1>5, <1>6 DEF w, v

LEMMA WireServer ==
  ASSUME TypeOK, ConnInv, WireInv, ReadInv, ProcessNext, UNCHANGED localVars
  PROVE  WireInv' /\ ReadInv'
<1> USE WireAssumption DEF WireInv, ConnInv
<1>0. UNCHANGED <<pc, info>>
  BY DEF localVars
<1>1. ASSUME UNCHANGED <<wire, fd, peer, status>>,
             \A t \in Threads : ~WaitsFor(t), srv' \in {"loop", "drain"}
      PROVE  WireInv' /\ ReadInv'
  BY <1>0, <1>1 DEF WireOf, WaitsFor, Broken, ReadInv
<1>2. CASE unqueue_command \/ QueueDone \/ process_clear_input \/ record_button_toggled_cb
  <2>1. /\ UNCHANGED <<wire, fd, peer, status>> /\ srv # "frames"
        /\ srv' \in {"loop", "drain"}
    BY <1>2 DEF unqueue_command, QueueDone, process_clear_input, Loop, Apply,
                record_button_toggled_cb, wireVars, connVars, srvVars
  <2> QED BY <1>1, <2>1 DEF WaitsFor
<1>3. CASE ReadFrames
  <2>1. PICK t \in Threads : t = reading
    BY DEF TypeOK, ProcessTypeOK
  <2>2. /\ WaitsFor(t) /\ wire[t] # <<>> /\ UNCHANGED <<fd, peer, status>>
        /\ wire'[t] = Tail(wire[t]) /\ srv' \in {"loop", "drain"}
        /\ \A u \in Threads : u # t => wire'[u] = wire[u]
    BY <1>3, <2>1, CommandEndsWait
       DEF ReadFrames, Took, WaitsFor, connVars, TypeOK, WireTypeOK
  <2>3. wire[t][1] = Frames(cmd) /\ Frames(cmd).part = "frames"
    BY <2>2 DEF WireOf, Frames
  <2>4. Tail(wire[t]) # <<>> => Tail(wire[t])[1].part # "frames"
    <3>1. SUFFICES ASSUME Tail(wire[t]) # <<>> PROVE wire[t][2].part # "frames"
      BY <2>2, Popped
    <3>2. Len(wire[t]) >= 2 /\ 2 \in 2..Len(wire[t])
      BY <2>2, <3>1, Popped DEF TypeOK, WireTypeOK
    <3>3. Header(wire[t][2].info).part = "info"
      BY DEF Header
    <3> QED BY <2>3, <3>2, <3>3 DEF WireOf, Paired
  <2>5. WireOf(t)'
    <3>1. Header(info[t]).part = "info"
      BY DEF Header
    <3> QED BY <1>0, <2>2, <2>3, <2>4, <3>1, Popped DEF WireOf, WaitsFor, Broken
  <2>6. ASSUME NEW u \in Threads, u # t PROVE WireOf(u)'
    BY <1>0, <2>1, <2>2, <2>6 DEF WireOf, WaitsFor, Broken
  <2>7. ReadInv'
    BY <2>2 DEF ReadInv
  <2> QED BY <2>5, <2>6, <2>7
<1>4. CASE FramesEOF
  <2>1. PICK t \in Threads : t = reading
    BY DEF TypeOK, ProcessTypeOK
  <2>2. /\ fd[t] # "open" /\ wire[t] = <<>> /\ UNCHANGED <<wire, fd, peer, status>>
        /\ srv' \in {"loop", "drain"} /\ srv = "frames"
    BY <1>4, <2>1, CommandEndsWait DEF FramesEOF, AtEOF, wireVars, connVars
  <2> QED BY <1>0, <2>1, <2>2 DEF WireOf, WaitsFor, Broken, ReadInv
<1>5. ASSUME NEW t \in Threads, control_func(t) PROVE WireInv' /\ ReadInv'
  <2>1. wire[t] = <<Hello>> /\ pc[t] = "await" /\ srv = "loop"
    BY <1>5 DEF control_func, Loop, ConnOf, TypeOK, WireTypeOK
  <2>2. /\ wire'[t] = <<>> /\ UNCHANGED <<fd, srv, reading, cmd>>
        /\ \A u \in Threads : u # t => /\ wire'[u] = wire[u] /\ peer'[u] = peer[u]
                                       /\ status'[u] = status[u]
    BY <1>5, <2>1, HelloSeq
       DEF control_func, Took, srvVars, TypeOK, WireTypeOK, ProcessTypeOK
  <2>3. WireOf(t)'
    BY <1>0, <2>1, <2>2 DEF WireOf, WaitsFor, Broken, Paired
  <2>4. ASSUME NEW u \in Threads, u # t PROVE WireOf(u)'
    BY <1>0, <2>1, <2>2, <2>4 DEF WireOf, WaitsFor, Broken
  <2> QED BY <2>1, <2>2, <2>3, <2>4 DEF ReadInv
<1>6. ASSUME NEW how, Ends(how) PROVE WireInv' /\ ReadInv'
  <2>1. UNCHANGED <<wire, fd, status, srv, reading, cmd>>
        /\ \A t \in Threads : peer'[t] = "closed"
    BY <1>6 DEF Ends, processVars, connVars, srvVars
  <2> QED BY <1>0, <2>1 DEF WireOf, WaitsFor, Broken, ReadInv
<1>7. ASSUME NEW t \in Threads, input_func(t) PROVE WireInv' /\ ReadInv'
  <2> DEFINE w == wire[t]
  <2>1. /\ srv = "loop" /\ w # <<>> /\ status[t] # "INIT"
        /\ Head(w).info.operation # "MI_EXIT"
        /\ srv' = "frames" /\ reading' = t /\ cmd' = Head(w).info
        /\ wire'[t] = Tail(w) /\ UNCHANGED <<fd, peer, status>>
        /\ \A u \in Threads : u # t => wire'[u] = wire[u]
    BY <1>7 DEF input_func, Loop, Watched, Took, connVars, TypeOK, WireTypeOK
  <2>2. /\ w \in Seq(Parts) /\ Len(w) \in Nat /\ Len(w) >= 1
        /\ Head(w) = w[1] /\ w[1] \in Parts
    BY <2>1, TailFacts DEF TypeOK, WireTypeOK
  <2>3. w[1].part = "info" /\ w[1].info.operation \in AllocOps
    <3>1. w[1].part # "frames" /\ w[1].part # "hello" /\ w[1].info.operation # "MI_CLONE"
      BY <2>1, <2>2 DEF WireOf, WaitsFor
    <3> QED BY <2>1, <2>2, <3>1 DEF Parts, MIInfo
  <2>4. Tail(w) # <<>> => Tail(w)[1] = Frames(w[1].info)
    <3>1. SUFFICES ASSUME Tail(w) # <<>> PROVE w[2] = Frames(w[1].info)
      BY <2>1, Popped
    <3>2. 1 \in 1..Len(w) - 1
      BY <2>1, <2>2, <3>1, Popped
    <3> QED BY <2>3, <3>2 DEF WireOf, Paired
  <2>5. WireOf(t)'
    <3>1. ASSUME Tail(w) = <<>>, fd[t] = "open"
          PROVE  pc[t] = "frames" /\ info[t] = w[1].info
      <4>1. w[Len(w)] = w[1]
        BY <2>1, <3>1, Popped
      <4>2. pc[t] \in {"frames", "exitwait"} /\ info[t] = w[1].info
        BY <2>1, <2>3, <3>1, <4>1 DEF WireOf
      <4> QED BY <2>1, <2>2, <4>2 DEF ConnOf
    <3>2. ASSUME pc[t] = "frames", ~Broken(t), Tail(w) # <<>>
          PROVE  Tail(w)[Len(Tail(w))] = Header(info[t])
      BY <2>1, <3>2, Popped DEF WireOf
    <3>3. ~Broken(t) => fd[t] = "open"
      BY DEF Broken
    <3> QED BY <1>0, <2>1, <2>2, <2>3, <2>4, <3>1, <3>2, <3>3, Popped
            DEF WireOf, WaitsFor, Broken, Frames
  <2>6. ASSUME NEW u \in Threads, u # t PROVE WireOf(u)'
    BY <1>0, <2>1, <2>6 DEF WireOf, WaitsFor, Broken
  <2>7. ReadInv'
    BY <2>1, <2>2, <2>3 DEF ReadInv
  <2> QED BY <2>5, <2>6, <2>7
<1>8. ASSUME NEW t \in Threads, ReadExit(t) PROVE WireInv' /\ ReadInv'
  <2> DEFINE w == wire[t]
  <2>1. /\ srv = "loop" /\ w # <<>> /\ status[t] # "INIT" /\ status'[t] # "INIT"
        /\ Head(w).info.operation = "MI_EXIT"
        /\ srv' \in {"loop", "drain"} /\ UNCHANGED <<fd, peer>>
        /\ wire'[t] = Tail(w)
        /\ \A u \in Threads : u # t => wire'[u] = wire[u] /\ status'[u] = status[u]
    BY <1>8, CommandEndsWait
       DEF ReadExit, Loop, Watched, Took, TypeOK, WireTypeOK, ProcessTypeOK
  <2>2. /\ w \in Seq(Parts) /\ Len(w) \in Nat /\ Len(w) >= 1
        /\ Head(w) = w[1] /\ w[1] \in Parts
    BY <2>1, TailFacts DEF TypeOK, WireTypeOK
  <2>3. w[1].part = "info"
    <3>1. w[1].part # "frames" /\ w[1].part # "hello"
      BY <2>1, <2>2 DEF WireOf, WaitsFor
    <3> QED BY <2>2, <3>1 DEF Parts
  <2>4. Tail(w) = <<>>
    <3>1. SUFFICES ASSUME Tail(w) # <<>> PROVE FALSE
      OBVIOUS
    <3>2. 1 \in 1..Len(w) - 1
      BY <2>1, <2>2, <3>1, Popped
    <3> QED BY <2>1, <2>2, <2>3, <3>2 DEF WireOf, Paired, AllocOps
  <2>5. WireOf(t)'
    <3>1. pc[t] = "frames" => Broken(t)
      <4>1. SUFFICES ASSUME pc[t] = "frames", ~Broken(t) PROVE FALSE
        OBVIOUS
      <4>2. w[1] = Header(info[t])
        BY <2>1, <2>4, <4>1, Popped DEF WireOf
      <4> QED BY <2>1, <2>2, <4>1, <4>2 DEF ConnOf, Header, AllocOps
    <3> QED BY <1>0, <2>1, <2>4, <3>1 DEF WireOf, WaitsFor, Broken, Paired
  <2>6. ASSUME NEW u \in Threads, u # t PROVE WireOf(u)'
    BY <1>0, <2>1, <2>6 DEF WireOf, WaitsFor, Broken
  <2> QED BY <2>1, <2>5, <2>6 DEF ReadInv
<1>9. ASSUME NEW t \in Threads, InputEOF(t) PROVE WireInv' /\ ReadInv'
  <2>1. /\ srv = "loop" /\ UNCHANGED <<wire, fd, peer, srv, reading, cmd>>
        /\ \A u \in Threads : status'[u] # "INIT" => status[u] # "INIT"
    BY <1>9 DEF InputEOF, Loop, wireVars, srvVars, TypeOK, ProcessTypeOK
  <2> QED BY <1>0, <2>1 DEF WireOf, WaitsFor, Broken, ReadInv
<1>10. CASE process_detach
  <2>1. /\ srv = "loop" /\ UNCHANGED <<fd, srv, reading, cmd>>
        /\ \A u \in Threads : u # Main => /\ wire'[u] = wire[u] /\ peer'[u] = peer[u]
                                          /\ status'[u] = status[u]
        /\ \/ wire' = wire /\ peer' = peer /\ status' = status
           \/ wire'[Main] = <<>> /\ peer'[Main] = "closed"
    BY <1>10 DEF process_detach, Loop, srvVars, TypeOK, WireTypeOK, ProcessTypeOK
  <2>2. WireOf(Main)'
    BY <1>0, <2>1 DEF WireOf, WaitsFor, Broken, Paired
  <2>3. ASSUME NEW u \in Threads, u # Main PROVE WireOf(u)'
    BY <1>0, <2>1, <2>3 DEF WireOf, WaitsFor, Broken
  <2> QED BY <2>1, <2>2, <2>3 DEF ReadInv
<1>11. CASE Quit \/ (\E t \in Threads : CloneOfNobody(t) \/ AnswerNobody(t))
  BY <1>6, <1>11 DEF Quit, CloneOfNobody, AnswerNobody
<1> QED BY <1>2, <1>3, <1>4, <1>5, <1>7, <1>8, <1>9, <1>10, <1>11
        DEF ProcessNext, ServerStep, UserStep

-----------------------------------------------------------------------------
(* Where numbers are: one lemma per way a number moves.                    *)

\* A thread takes the next number.
LEMMA Take ==
  ASSUME NEW H, NEW W, NEW R, NEW Q, NEW lo \in Nat, NEW hi \in Nat,
         H \in [Threads -> SUBSET Nat], W \in [Threads -> SUBSET Nat],
         R \subseteq Nat, Q \subseteq Nat, lo <= hi,
         NEW t \in Threads, H[t] = {}, Apart(H, W, R, Q, lo, hi),
         NEW G, G = [H EXCEPT ![t] = {hi}]
  PROVE  /\ Apart(G, W, R, Q, lo, hi + 1)
         /\ Complete(H, W, R, Q, lo, hi) => Complete(G, W, R, Q, lo, hi + 1)
<1>1. /\ hi \notin R /\ hi \notin Q
      /\ \A u \in Threads : hi \notin W[u] /\ hi \notin H[u]
  BY DEF Apart
<1>2. \A n \in Nat : n < hi => n < hi + 1
  OBVIOUS
<1>3. G[t] = {hi} /\ \A u \in Threads : u # t => G[u] = H[u]
  OBVIOUS
<1>4. Apart(G, W, R, Q, lo, hi + 1)
  <2>1. ASSUME NEW u \in Threads, NEW n \in G[u]
        PROVE  /\ lo <= n /\ n < hi + 1 /\ n \notin R /\ n \notin Q
               /\ \A v \in Threads : n \notin W[v] /\ (v # u => n \notin G[v])
    <3>1. CASE u = t
      BY <1>1, <1>3, <2>1, <3>1
    <3>2. CASE u # t
      <4>1. n \in H[u] /\ n \in Nat /\ n # hi
        BY <1>1, <1>3, <2>1, <3>2
      <4> QED BY <1>2, <1>3, <4>1 DEF Apart
    <3> QED BY <3>1, <3>2
  <2>2. \A u \in Threads : \A n \in W[u] : n \in Nat
    OBVIOUS
  <2> QED BY <1>2, <2>1, <2>2 DEF Apart
<1>5. ASSUME Complete(H, W, R, Q, lo, hi) PROVE Complete(G, W, R, Q, lo, hi + 1)
  BY <1>3, <1>5 DEF Complete
<1> QED BY <1>4, <1>5

\* It writes the report with that number.
Moves(H, W, t, n, G, V) ==
  /\ H \in [Threads -> SUBSET Nat] /\ W \in [Threads -> SUBSET Nat]
  /\ t \in Threads /\ H[t] = {n}
  /\ G = [H EXCEPT ![t] = {}]
  /\ V = [W EXCEPT ![t] = W[t] \cup {n}]

LEMMA Send ==
  ASSUME NEW H, NEW W, NEW R, NEW Q, NEW lo, NEW hi, NEW t, NEW n, NEW G, NEW V,
         Moves(H, W, t, n, G, V), Apart(H, W, R, Q, lo, hi)
  PROVE  /\ n \notin W[t]
         /\ Apart(G, V, R, Q, lo, hi)
         /\ Complete(H, W, R, Q, lo, hi) => Complete(G, V, R, Q, lo, hi)
<1>1. n \notin W[t]
  BY DEF Apart, Moves
<1>2. Apart(G, V, R, Q, lo, hi)
  BY DEF Apart, Moves
<1>3. ASSUME Complete(H, W, R, Q, lo, hi) PROVE Complete(G, V, R, Q, lo, hi)
  BY <1>3 DEF Complete, Moves
<1> QED BY <1>1, <1>2, <1>3

\* memprof reads a report off a socket, into input_func's hands ...
LEMMA Receive ==
  ASSUME NEW H, NEW W, NEW Q, NEW lo \in Nat, NEW hi \in Nat,
         H \in [Threads -> SUBSET Nat], W \in [Threads -> SUBSET Nat],
         NEW t \in Threads, NEW n \in W[t], Apart(H, W, {}, Q, lo, hi),
         NEW V, V = [W EXCEPT ![t] = W[t] \ {n}]
  PROVE  /\ Apart(H, V, {n}, Q, lo, hi)
         /\ Complete(H, W, {}, Q, lo, hi) => Complete(H, V, {n}, Q, lo, hi)
<1>1. Apart(H, V, {n}, Q, lo, hi)
  BY DEF Apart
<1>2. ASSUME Complete(H, W, {}, Q, lo, hi) PROVE Complete(H, V, {n}, Q, lo, hi)
  BY <1>2 DEF Complete
<1> QED BY <1>1, <1>2

\* ... and queues it ...
LEMMA Enqueue ==
  ASSUME NEW H, NEW W, NEW Q, NEW lo \in Nat, NEW hi \in Nat, NEW n,
         Apart(H, W, {n}, Q, lo, hi), NEW P, P = Q \cup {n}
  PROVE  /\ n \notin Q
         /\ Apart(H, W, {}, P, lo, hi)
         /\ Complete(H, W, {n}, Q, lo, hi) => Complete(H, W, {}, P, lo, hi)
<1>1. n \notin Q /\ Apart(H, W, {}, P, lo, hi)
  BY DEF Apart
<1>2. ASSUME Complete(H, W, {n}, Q, lo, hi) PROVE Complete(H, W, {}, P, lo, hi)
  BY <1>2 DEF Complete
<1> QED BY <1>1, <1>2

\* ... or applies it, when it is the one that is due.
LEMMA Advance ==
  ASSUME NEW H, NEW W, NEW Q, NEW lo \in Nat, NEW hi \in Nat,
         H \in [Threads -> SUBSET Nat], W \in [Threads -> SUBSET Nat], Q \subseteq Nat,
         Apart(H, W, {lo}, Q, lo, hi)
  PROVE  /\ lo + 1 <= hi
         /\ Apart(H, W, {}, Q, lo + 1, hi)
         /\ Complete(H, W, {lo}, Q, lo, hi) => Complete(H, W, {}, Q, lo + 1, hi)
<1>1. lo < hi
  BY DEF Apart
<1>2. Apart(H, W, {}, Q, lo + 1, hi)
  BY <1>1 DEF Apart
<1>3. ASSUME Complete(H, W, {lo}, Q, lo, hi) PROVE Complete(H, W, {}, Q, lo + 1, hi)
  BY <1>3 DEF Complete
<1> QED BY <1>1, <1>2, <1>3

\* It takes a queued one that is due.
LEMMA Dequeue ==
  ASSUME NEW H, NEW W, NEW Q, NEW lo \in Nat, NEW hi \in Nat, NEW n \in Q,
         Apart(H, W, {}, Q, lo, hi), NEW P, P = Q \ {n}
  PROVE  /\ Apart(H, W, {n}, P, lo, hi)
         /\ Complete(H, W, {}, Q, lo, hi) => Complete(H, W, {n}, P, lo, hi)
<1>1. Apart(H, W, {n}, P, lo, hi)
  BY DEF Apart
<1>2. ASSUME Complete(H, W, {}, Q, lo, hi) PROVE Complete(H, W, {n}, P, lo, hi)
  BY <1>2 DEF Complete
<1> QED BY <1>1, <1>2

\* Losing numbers leaves the rest apart.
LEMMA Lose ==
  ASSUME NEW H, NEW W, NEW R, NEW Q, NEW lo, NEW hi, Apart(H, W, R, Q, lo, hi),
         NEW G, NEW V,
         \A t \in Threads : G[t] \subseteq H[t] /\ V[t] \subseteq W[t]
  PROVE  Apart(G, V, R, Q, lo, hi)
BY DEF Apart

-----------------------------------------------------------------------------
(***************************************************************************)
(* Every number handed out and not yet applied is in exactly one place     *)
(* (Placed), so that memprof and the program end in step (InStep).         *)
(***************************************************************************)

-----------------------------------------------------------------------------
LEMMA NumberTypes ==
  ASSUME TypeOK
  PROVE  /\ Hands \in [Threads -> SUBSET Nat]
         /\ Wires \in [Threads -> SUBSET Nat]
         /\ ReadSeqs \subseteq Nat
         /\ QueueSeqs \subseteq Nat
         /\ pseqno \in Nat /\ seqno \in Nat /\ Len(log) \in Nat /\ SeqMod \in Nat
<1> USE DEF TypeOK
<1>1. \A t \in Threads : HandSeqs(t) \subseteq Nat
  BY DEF InterceptTypeOK, HandSeqs, MIInfo
<1>2. ASSUME NEW t \in Threads, NEW n \in WireSeqs(t) PROVE n \in Nat
  <2>1. PICK k \in 1..Len(wire[t]) : n = wire[t][k].info.seqno
    BY <1>2 DEF WireSeqs, Numbers
  <2>2. wire[t][k] \in Parts
    BY DEF WireTypeOK
  <2> QED BY <2>1, <2>2 DEF Parts, MIInfo
<1>3. ReadSeqs \subseteq Nat /\ QueueSeqs \subseteq Nat
  BY DEF ProcessTypeOK, ReadSeqs, QueueSeqs, Commands, MIInfo
<1>4. pseqno \in Nat /\ seqno \in Nat /\ Len(log) \in Nat /\ SeqMod \in Nat
  BY WireAssumption DEF ProcessTypeOK, InterceptTypeOK
<1>5. Hands \in [Threads -> SUBSET Nat]
  BY <1>1 DEF Hands
<1>6. Wires \in [Threads -> SUBSET Nat]
  BY <1>2 DEF Wires
<1> QED BY <1>3, <1>4, <1>5, <1>6

\* memprof never comes back, and neither does the program.
LEMMA AttachedBefore ==
  ASSUME TypeOK, ConnInv, Next
  PROVE  Attached' => Attached
<1>1. CASE Client
  <2>1. memprof' = memprof /\ peer' = peer
    BY <1>1 DEF Client, InterceptNext, CallStep, Request, mi_tracing, Elide, TakeSeqno,
       new_process, ConnectError, Response, WriteInfo, WriteFrames, WriteFails, exit_wait,
       Exited, Die, do_malloc, do_realloc, do_free, atexit_trap, Called, wireVars
  <2>2. alive' => alive
    BY <1>1 DEF Client, InterceptNext, CallStep, Request, mi_tracing, Elide, TakeSeqno,
       new_process, ConnectError, Response, WriteInfo, WriteFrames, WriteFails, exit_wait,
       Exited, Die, do_malloc, do_realloc, do_free, atexit_trap, Called, Ready
  <2> QED BY <2>1, <2>2 DEF Attached
<1>2. CASE Server
  <2>1. alive' = alive
    BY <1>2 DEF Server, localVars
  <2>2. memprof = "up"
    BY <1>2 DEF Server, ProcessNext, ServerStep, UserStep, unqueue_command, QueueDone,
       ReadFrames, FramesEOF, control_func, CloneOfNobody, AnswerNobody, input_func,
       ReadExit, InputEOF, process_detach, process_clear_input, record_button_toggled_cb,
       Quit, Loop
  <2>3. peer'[Main] = "open" => peer[Main] = "open"
    <3>1. ASSUME NEW t \in Threads, control_func(t) PROVE peer'[Main] = peer[Main]
      BY <3>1, WireAssumption DEF control_func, ConnInv, TypeOK, WireTypeOK
    <3>2. ASSUME NEW how, Ends(how) PROVE peer'[Main] = "closed"
      BY <3>2, WireAssumption DEF Ends
    <3>3. CASE process_detach
      BY <3>3, WireAssumption DEF process_detach, TypeOK, WireTypeOK
    <3>4. ASSUME NEW t \in Threads, CloneOfNobody(t) \/ AnswerNobody(t)
          PROVE  peer'[Main] = "closed"
      BY <3>2, <3>4 DEF CloneOfNobody, AnswerNobody
    <3>5. ASSUME NEW t \in Threads, input_func(t) \/ ReadExit(t) \/ InputEOF(t)
          PROVE  peer' = peer
      BY <3>5 DEF input_func, ReadExit, InputEOF, wireVars
    <3>6. CASE \/ unqueue_command \/ QueueDone \/ ReadFrames \/ FramesEOF
               \/ process_clear_input \/ record_button_toggled_cb
      BY <3>6 DEF unqueue_command, QueueDone, ReadFrames, FramesEOF,
         process_clear_input, record_button_toggled_cb, wireVars
    <3>7. Quit => peer'[Main] = "closed"
      BY <3>2 DEF Quit
    <3> QED BY <1>2, <3>1, <3>3, <3>4, <3>5, <3>6, <3>7
            DEF Server, ProcessNext, ServerStep, UserStep
  <2> QED BY <2>1, <2>2, <2>3 DEF Attached
<1> QED BY <1>1, <1>2 DEF Next

\* A step that moves no number, or loses one as an end goes away.
LEMMA Still ==
  ASSUME Placed, Attached' => Attached,
         UNCHANGED <<seqno, log, pseqno, command_queue>>,
         ReadSeqs' = ReadSeqs, srv' = srv,
         \A t \in Threads : /\ HandSeqs(t)' \subseteq HandSeqs(t)
                            /\ WireSeqs(t)' \subseteq WireSeqs(t)
                            /\ AllDifferent(wire[t])',
         Attached' => \A t \in Threads : /\ HandSeqs(t)' = HandSeqs(t)
                                         /\ WireSeqs(t)' = WireSeqs(t)
  PROVE  Placed'
<1>1. QueueSeqs' = QueueSeqs /\ QueueInv'
  BY DEF QueueSeqs, QueueInv, Placed
<1>2. \A t \in Threads : Hands'[t] \subseteq Hands[t] /\ Wires'[t] \subseteq Wires[t]
  BY DEF Hands, Wires
<1>3. Apart(Hands', Wires', ReadSeqs, QueueSeqs, pseqno, seqno)
  <2> HIDE DEF Hands, Wires
  <2> QED BY <1>2, Lose DEF Placed
<1>4. Attached' => Hands' = Hands /\ Wires' = Wires
  BY DEF Hands, Wires
<1>5. Attached' => Complete(Hands', Wires', ReadSeqs, QueueSeqs, pseqno, seqno)
  BY <1>4 DEF Placed
<1>6. Apart(Hands, Wires, ReadSeqs, QueueSeqs, pseqno, seqno)'
  BY <1>1, <1>3
<1>7. Attached' => Complete(Hands, Wires, ReadSeqs, QueueSeqs, pseqno, seqno)'
  BY <1>1, <1>5
<1> QED BY <1>1, <1>6, <1>7 DEF Placed

\* One thread's step changes its own hands and its own socket only.
LEMMA HandsOfOthers ==
  ASSUME TypeOK, NEW t \in Threads, CallStep(t) \/ Request(t)
  PROVE  \A u \in Threads \ {t} :
           HandSeqs(u)' = HandSeqs(u) /\ wire'[u] = wire[u]
<1> USE DEF HandSeqs, TypeOK, WireTypeOK, InterceptTypeOK
<1>1. CASE Request(t)
  BY <1>1 DEF Request, do_malloc, do_realloc, do_free, atexit_trap, Called, wireVars
<1>2. CASE mi_tracing(t) \/ Elide(t) \/ TakeSeqno(t) \/ Exited(t)
  BY <1>2 DEF mi_tracing, Elide, TakeSeqno, Exited, wireVars
<1>3. CASE new_process(t) \/ ConnectError(t) \/ Response(t)
  BY <1>3 DEF new_process, ConnectError, Response, Sent
<1>4. CASE WriteInfo(t) \/ WriteFrames(t) \/ WriteFails(t) \/ exit_wait(t)
  BY <1>4 DEF WriteInfo, WriteFrames, WriteFails, exit_wait, Sent
<1> QED BY <1>1, <1>2, <1>3, <1>4 DEF CallStep

\* A thread whose socket is broken is not attached.
LEMMA BrokenIsDetached ==
  ASSUME TypeOK, ConnInv, NEW t \in Threads, Broken(t), fd[t] # "none",
         pc[t] \in {"numbered", "frames"}
  PROVE  ~Attached
BY WireAssumption DEF ConnInv, ConnOf, Broken, Attached, TypeOK, WireTypeOK

\* The library takes numbers and writes them; no number is lost while both
\* ends are there.
LEMMA PlacedClient ==
  ASSUME TypeOK, TypeOK', ConnInv, Placed, NoWrap', InterceptNext,
         UNCHANGED processVars, Attached' => Attached
  PROVE  Placed'
<1>1. UNCHANGED <<pseqno, command_queue, srv, cmd>> /\ ReadSeqs' = ReadSeqs
  BY DEF processVars, blockVars, srvVars, ReadSeqs
<1>2. \A u \in Threads : AllDifferent(wire[u]) /\ wire[u] \in Seq(Parts)
  BY DEF Placed, TypeOK, WireTypeOK
<1>3. ASSUME NEW t \in Threads, CallStep(t) \/ Request(t),
             UNCHANGED <<seqno, log>>, AllDifferent(wire[t])',
             WireSeqs(t)' = WireSeqs(t),
             HandSeqs(t)' \subseteq HandSeqs(t),
             Attached' => HandSeqs(t)' = HandSeqs(t)
      PROVE  Placed'
  <2>1. ASSUME NEW u \in Threads, u # t
        PROVE  /\ HandSeqs(u)' = HandSeqs(u) /\ WireSeqs(u)' = WireSeqs(u)
               /\ AllDifferent(wire[u])'
    BY <1>2, <1>3, <2>1, HandsOfOthers DEF WireSeqs
  <2>2. \A u \in Threads : /\ HandSeqs(u)' \subseteq HandSeqs(u)
                           /\ WireSeqs(u)' \subseteq WireSeqs(u)
                           /\ AllDifferent(wire[u])'
    BY <1>3, <2>1
  <2>3. Attached' => \A u \in Threads : /\ HandSeqs(u)' = HandSeqs(u)
                                        /\ WireSeqs(u)' = WireSeqs(u)
    BY <1>3, <2>1
  <2> QED BY <1>1, <1>3, <2>2, <2>3, Still
<1>4. CASE Die
  BY <1>1, <1>2, <1>4, Still DEF Die, HandSeqs, WireSeqs
<1>5. ASSUME NEW t \in Threads, Request(t) \/ mi_tracing(t) \/ Elide(t) \/ Exited(t)
      PROVE  Placed'
  <2>1. /\ UNCHANGED <<seqno, log, wire>> /\ HandSeqs(t)' = HandSeqs(t)
        /\ CallStep(t) \/ Request(t)
    BY <1>5 DEF Request, do_malloc, do_realloc, do_free, atexit_trap, Called, Ready,
       mi_tracing, Elide, Exited, wireVars, HandSeqs, TypeOK, InterceptTypeOK, CallStep
  <2> QED BY <1>2, <1>3, <2>1 DEF WireSeqs
<1>6. ASSUME NEW t \in Threads, ConnectError(t) \/ Response(t)
      PROVE  Placed'
  <2>1. /\ UNCHANGED <<seqno, log, wire>> /\ HandSeqs(t)' = HandSeqs(t)
        /\ CallStep(t) \/ Request(t)
    BY <1>6 DEF ConnectError, Response, HandSeqs, TypeOK, InterceptTypeOK, CallStep
  <2> QED BY <1>2, <1>3, <2>1 DEF WireSeqs
<1>7. ASSUME NEW t \in Threads, WriteFails(t) \/ exit_wait(t)
      PROVE  Placed'
  <2>1. /\ UNCHANGED <<seqno, log, wire>> /\ HandSeqs(t)' \subseteq HandSeqs(t)
        /\ CallStep(t) \/ Request(t)
    BY <1>7 DEF WriteFails, exit_wait, HandSeqs, TypeOK, InterceptTypeOK, CallStep
  <2>2. Attached' => HandSeqs(t)' = HandSeqs(t)
    <3>1. CASE pc[t] \in {"numbered", "frames"}
      <4>1. Broken(t) /\ fd[t] # "none"
        BY <1>7, <3>1 DEF WriteFails, exit_wait, find_thread
      <4> QED BY <3>1, <4>1, BrokenIsDetached
    <3>2. CASE pc[t] = "exitwait"
      BY <1>7, <3>2 DEF WriteFails, exit_wait, HandSeqs, TypeOK, InterceptTypeOK
    <3> QED BY <1>7, <3>1, <3>2 DEF WriteFails, exit_wait
  <2> QED BY <1>2, <1>3, <2>1, <2>2 DEF WireSeqs
<1>8. ASSUME NEW t \in Threads, NEW p \in Parts, p.part # "info",
             CallStep(t), UNCHANGED <<seqno, log>>,
             wire'[t] = Append(wire[t], p), HandSeqs(t)' = HandSeqs(t)
      PROVE  Placed'
  <2>1. AllDifferent(Append(wire[t], p)) /\ Numbers(Append(wire[t], p)) = Numbers(wire[t])
    BY <1>2, <1>8, DifferentAppend, NumbersAppend
  <2> QED BY <1>3, <1>8, <2>1 DEF WireSeqs
<1>9. ASSUME NEW t \in Threads, new_process(t) PROVE Placed'
  <2>1. /\ CallStep(t) /\ UNCHANGED <<seqno, log>> /\ HandSeqs(t)' = HandSeqs(t)
        /\ wire'[t] = Append(wire[t], Hello)
    BY <1>9 DEF new_process, CallStep, Sent, HandSeqs, TypeOK, WireTypeOK, InterceptTypeOK
  <2>2. Hello \in Parts /\ Hello.part # "info"
    BY PartTypes DEF Hello, TypeOK, InterceptTypeOK
  <2> QED BY <1>8, <2>1, <2>2
<1>10. ASSUME NEW t \in Threads, WriteFrames(t) PROVE Placed'
  <2>1. /\ CallStep(t) /\ UNCHANGED <<seqno, log>> /\ HandSeqs(t)' = HandSeqs(t)
        /\ wire'[t] = Append(wire[t], Frames(info[t]))
    BY <1>10 DEF WriteFrames, CallStep, Sent, HandSeqs, TypeOK, WireTypeOK, InterceptTypeOK
  <2>2. Frames(info[t]) \in Parts /\ Frames(info[t]).part # "info"
    BY PartTypes DEF Frames, TypeOK, InterceptTypeOK
  <2> QED BY <1>8, <2>1, <2>2
<1>11. ASSUME NEW t \in Threads, WriteInfo(t) PROVE Placed'
  <2> DEFINE n == info[t].seqno
             p == Header(info[t])
  <2>1. /\ UNCHANGED <<seqno, log>> /\ HandSeqs(t)' = {} /\ HandSeqs(t) = {n}
        /\ wire'[t] = Append(wire[t], p) /\ CallStep(t)
    BY <1>11 DEF WriteInfo, CallStep, Sent, HandSeqs, TypeOK, WireTypeOK, InterceptTypeOK
  <2>2. p \in Parts /\ p.part = "info" /\ p.info.seqno = n
    BY PartTypes DEF Header, TypeOK, InterceptTypeOK
  <2>3. Numbers(wire'[t]) = Numbers(wire[t]) \cup {n}
    BY <1>2, <2>1, <2>2, NumbersAppend
  <2>4. /\ Hands' = [Hands EXCEPT ![t] = {}]
        /\ Wires' = [Wires EXCEPT ![t] = Wires[t] \cup {n}] /\ Hands[t] = {n}
    BY <2>1, <2>3, HandsOfOthers DEF Hands, Wires, WireSeqs
  <2>5. QueueSeqs' = QueueSeqs /\ QueueInv'
    BY <1>1 DEF QueueSeqs, QueueInv, Placed
  <2>6. /\ n \notin Wires[t]
        /\ Apart(Hands', Wires', ReadSeqs, QueueSeqs, pseqno, seqno)
        /\ Complete(Hands, Wires, ReadSeqs, QueueSeqs, pseqno, seqno)
             => Complete(Hands', Wires', ReadSeqs, QueueSeqs, pseqno, seqno)
    <3> HIDE DEF n, p
    <3>1. Moves(Hands, Wires, t, n, Hands', Wires')
      BY <2>4, NumberTypes DEF Moves
    <3> QED BY <3>1, Send DEF Placed
  <2>7. \A u \in Threads : AllDifferent(wire[u])'
    <3>1. n \notin Numbers(wire[t])
      BY <2>6 DEF Wires, WireSeqs
    <3>2. AllDifferent(wire'[t])
      BY <1>2, <2>1, <2>2, <3>1, DifferentAppend
    <3> QED BY <1>2, <2>1, <3>2, HandsOfOthers
  <2> HIDE DEF n, p
  <2> QED BY <1>1, <2>1, <2>5, <2>6, <2>7 DEF Placed
<1>12. ASSUME NEW t \in Threads, TakeSeqno(t) PROVE Placed'
  <2>1. /\ HandSeqs(t) = {} /\ HandSeqs(t)' = {seqno} /\ wire' = wire /\ CallStep(t)
        /\ seqno' = (seqno + 1) % SeqMod /\ Len(log') = Len(log) + 1
    <3>1. info'[t].seqno = seqno /\ pc'[t] = "numbered" /\ pc[t] = "backtrace"
      BY <1>12 DEF TakeSeqno, TypeOK, InterceptTypeOK, MIInfo
    <3>2. Len(log') = Len(log) + 1
      BY <1>12, SeqnoType, NumberTypes DEF TakeSeqno, TypeOK, InterceptTypeOK
    <3> QED BY <1>12, <3>1, <3>2 DEF TakeSeqno, CallStep, HandSeqs, wireVars
  <2>2. seqno' = seqno + 1 /\ seqno' = Len(log')
    <3>1. seqno = Len(log) /\ seqno + 1 < SeqMod
      BY <2>1, NumberTypes DEF Placed, NoWrap
    <3> QED BY <2>1, <3>1, NumberTypes
  <2>3. /\ Hands' = [Hands EXCEPT ![t] = {seqno}] /\ Wires' = Wires /\ Hands[t] = {}
    BY <2>1, HandsOfOthers DEF Hands, Wires, WireSeqs
  <2>4. QueueSeqs' = QueueSeqs /\ QueueInv'
    BY <1>1 DEF QueueSeqs, QueueInv, Placed
  <2>5. /\ Apart(Hands', Wires, ReadSeqs, QueueSeqs, pseqno, seqno + 1)
        /\ Complete(Hands, Wires, ReadSeqs, QueueSeqs, pseqno, seqno)
             => Complete(Hands', Wires, ReadSeqs, QueueSeqs, pseqno, seqno + 1)
    BY <2>3, Take, NumberTypes DEF Placed
  <2>6. pseqno <= seqno + 1
    BY NumberTypes DEF Placed
  <2>7. /\ Apart(Hands, Wires, ReadSeqs, QueueSeqs, pseqno, seqno)'
        /\ Attached' => Complete(Hands, Wires, ReadSeqs, QueueSeqs, pseqno, seqno)'
    BY <1>1, <2>2, <2>3, <2>4, <2>5 DEF Placed
  <2>8. \A u \in Threads : AllDifferent(wire[u])'
    BY <1>2, <2>1
  <2> QED BY <1>1, <2>2, <2>4, <2>6, <2>7, <2>8 DEF Placed
<1> QED BY <1>4, <1>5, <1>6, <1>7, <1>9, <1>10, <1>11, <1>12
        DEF InterceptNext, CallStep

-----------------------------------------------------------------------------
(* memprof's side.                                                         *)

\* The report that is due is applied.
LEMMA Applied ==
  ASSUME TypeOK, Placed, NoWrap, NEW H, NEW W, NEW Q,
         H \in [Threads -> SUBSET Nat], W \in [Threads -> SUBSET Nat], Q \subseteq Nat,
         Apart(H, W, {pseqno}, Q, pseqno, seqno), pseqno' = (pseqno + 1) % SeqMod
  PROVE  /\ pseqno' \in Nat /\ pseqno' <= seqno
         /\ Apart(H, W, {}, Q, pseqno', seqno)
         /\ Complete(H, W, {pseqno}, Q, pseqno, seqno)
              => Complete(H, W, {}, Q, pseqno', seqno)
<1>1. pseqno \in Nat /\ seqno \in Nat /\ seqno < SeqMod /\ SeqMod \in Nat
  BY NumberTypes DEF Placed, NoWrap
<1>2. /\ pseqno + 1 <= seqno
      /\ Apart(H, W, {}, Q, pseqno + 1, seqno)
      /\ Complete(H, W, {pseqno}, Q, pseqno, seqno)
           => Complete(H, W, {}, Q, pseqno + 1, seqno)
  BY <1>1, Advance
<1>3. pseqno' = pseqno + 1
  BY <1>1, <1>2
<1> QED BY <1>1, <1>2, <1>3

\* process_command applies a report or queues it.
LEMMA CommandPlaced ==
  ASSUME TypeOK, Placed, NoWrap, srv # "drain",
         NEW i, NEW stack, process_command(i, stack), NEW H, NEW W,
         H \in [Threads -> SUBSET Nat], W \in [Threads -> SUBSET Nat],
         Apart(H, W, {i.seqno}, QueueSeqs, pseqno, seqno)
  PROVE  /\ pseqno' <= seqno /\ ReadSeqs' = {} /\ QueueInv'
         /\ Apart(H, W, {}, QueueSeqs', pseqno', seqno)
         /\ Complete(H, W, {i.seqno}, QueueSeqs, pseqno, seqno)
              => Complete(H, W, {}, QueueSeqs', pseqno', seqno)
<1>1. ReadSeqs' = {}
  BY CommandEndsWait DEF ReadSeqs
<1>2. QueueInv /\ pseqno \notin QueueSeqs
  BY DEF Placed, QueueInv
<1>3. CASE i.seqno = pseqno
  <2>1. pseqno' = (pseqno + 1) % SeqMod /\ command_queue' = command_queue /\ srv' = "drain"
    BY <1>3 DEF process_command, Apply
  <2>2. QueueSeqs' = QueueSeqs /\ QueueInv'
    BY <1>2, <2>1 DEF QueueSeqs, QueueInv
  <2>3. QueueSeqs \subseteq Nat
    BY NumberTypes
  <2>4. /\ pseqno' <= seqno
        /\ Apart(H, W, {}, QueueSeqs, pseqno', seqno)
        /\ Complete(H, W, {i.seqno}, QueueSeqs, pseqno, seqno)
             => Complete(H, W, {}, QueueSeqs, pseqno', seqno)
    BY <1>3, <2>1, <2>3, Applied
  <2> QED BY <1>1, <2>2, <2>4
<1>4. CASE i.seqno # pseqno
  <2>1. /\ command_queue' = command_queue \cup {[info |-> i, stack |-> stack]}
        /\ pseqno' = pseqno /\ srv' = "loop"
    BY <1>4 DEF process_command, queue_command
  <2>2. QueueSeqs' = QueueSeqs \cup {i.seqno}
    <3> DEFINE c == [info |-> i, stack |-> stack]
    <3>1. c.info = i
      OBVIOUS
    <3>2. command_queue' = command_queue \cup {c}
      BY <2>1
    <3> HIDE DEF c
    <3> QED BY <3>1, <3>2 DEF QueueSeqs
  <2>3. /\ i.seqno \notin QueueSeqs
        /\ Apart(H, W, {}, QueueSeqs', pseqno, seqno)
        /\ Complete(H, W, {i.seqno}, QueueSeqs, pseqno, seqno)
             => Complete(H, W, {}, QueueSeqs', pseqno, seqno)
    <3>1. pseqno \in Nat /\ seqno \in Nat
      BY NumberTypes
    <3>2. PICK n, P : n = i.seqno /\ P = QueueSeqs'
      OBVIOUS
    <3>3. P = QueueSeqs \cup {n} /\ Apart(H, W, {n}, QueueSeqs, pseqno, seqno)
      BY <2>2, <3>2
    <3>4. /\ n \notin QueueSeqs
          /\ Apart(H, W, {}, P, pseqno, seqno)
          /\ Complete(H, W, {n}, QueueSeqs, pseqno, seqno)
               => Complete(H, W, {}, P, pseqno, seqno)
      BY <3>1, <3>3, Enqueue
    <3> QED BY <3>2, <3>4
  <2>4. QueueInv'
    <3>1. \A c \in command_queue : c.info.seqno # i.seqno
      BY <2>3 DEF QueueSeqs
    <3>2. pseqno' \notin QueueSeqs'
      BY <1>2, <1>4, <2>1, <2>2
    <3> QED BY <1>2, <2>1, <3>1, <3>2 DEF QueueInv
  <2> QED BY <1>1, <2>1, <2>3, <2>4 DEF Placed
<1> QED BY <1>3, <1>4

\* Between callbacks the first part of a connected socket is a report.
LEMMA HeadIsReport ==
  ASSUME TypeOK, WireInv, NEW t \in Threads, srv = "loop", status[t] # "INIT",
         wire[t] # <<>>
  PROVE  Head(wire[t]).part = "info" /\ Head(wire[t]) \in Parts
<1>1. /\ Head(wire[t]) = wire[t][1] /\ wire[t][1] \in Parts
      /\ Len(wire[t]) \in Nat /\ Len(wire[t]) >= 1
  BY TailFacts DEF TypeOK, WireTypeOK
<1>2. wire[t][1].part # "frames" /\ wire[t][1].part # "hello"
  BY <1>1 DEF WireInv, WireOf, WaitsFor
<1> QED BY <1>1, <1>2 DEF Parts

\* What reading a part does to the numbers on the wires.
LEMMA TookDifferent ==
  ASSUME TypeOK, Placed, NEW t \in Threads, wire[t] # <<>>, Took(t)
  PROVE  /\ \A u \in Threads : AllDifferent(wire[u])'
         /\ \A u \in Threads : u # t => WireSeqs(u)' = WireSeqs(u)
         /\ Head(wire[t]).part # "info" => WireSeqs(t)' = WireSeqs(t)
         /\ Head(wire[t]).part = "info" =>
              /\ Head(wire[t]).info.seqno \in WireSeqs(t)
              /\ WireSeqs(t)' = WireSeqs(t) \ {Head(wire[t]).info.seqno}
<1>1. /\ wire[t] \in Seq(Parts) /\ AllDifferent(wire[t]) /\ wire'[t] = Tail(wire[t])
      /\ \A u \in Threads : u # t => wire'[u] = wire[u]
  BY DEF TypeOK, WireTypeOK, Took, Placed
<1>2. \A u \in Threads : AllDifferent(wire[u])'
  BY <1>1, DifferentTail DEF Placed
<1> QED BY <1>1, <1>2, NumbersTail DEF WireSeqs

LEMMA ReceivePlaced ==
  ASSUME TypeOK, Placed, NEW t \in Threads, srv = "loop", wire[t] # <<>>, Took(t),
         NEW n, n = Head(wire[t]).info.seqno, Head(wire[t]).part = "info"
  PROVE  /\ Apart(Hands, Wires', {n}, QueueSeqs, pseqno, seqno)
         /\ Complete(Hands, Wires, {}, QueueSeqs, pseqno, seqno)
              => Complete(Hands, Wires', {n}, QueueSeqs, pseqno, seqno)
<1>1. n \in Wires[t] /\ Wires' = [Wires EXCEPT ![t] = Wires[t] \ {n}]
  BY TookDifferent DEF Wires
<1>2. /\ Hands \in [Threads -> SUBSET Nat] /\ Wires \in [Threads -> SUBSET Nat]
      /\ pseqno \in Nat /\ seqno \in Nat
      /\ Apart(Hands, Wires, {}, QueueSeqs, pseqno, seqno)
  BY NumberTypes DEF Placed, ReadSeqs
<1>3. PICK V : V = Wires'
  OBVIOUS
<1>4. /\ Apart(Hands, V, {n}, QueueSeqs, pseqno, seqno)
      /\ Complete(Hands, Wires, {}, QueueSeqs, pseqno, seqno)
           => Complete(Hands, V, {n}, QueueSeqs, pseqno, seqno)
  BY <1>1, <1>2, <1>3, Receive
<1> QED BY <1>3, <1>4

\* memprof takes numbers off the wires in whatever order, and applies them in
\* the order they were handed out.
LEMMA PlacedServer ==
  ASSUME TypeOK, TypeOK', ConnInv, WireInv, ReadInv, Placed, NoWrap, ProcessNext,
         UNCHANGED localVars, Attached' => Attached
  PROVE  Placed'
<1>1. UNCHANGED <<seqno, log, pc, info>> /\ Hands' = Hands
  BY DEF localVars, Hands, HandSeqs
<1>2. \A u \in Threads : HandSeqs(u)' = HandSeqs(u) /\ AllDifferent(wire[u])
  BY <1>1 DEF HandSeqs, Placed
<1>3. ASSUME UNCHANGED <<pseqno, command_queue, srv, cmd, wire>> PROVE Placed'
  <2>1. ReadSeqs' = ReadSeqs
    BY <1>3 DEF ReadSeqs
  <2> QED BY <1>1, <1>2, <1>3, <2>1, Still DEF WireSeqs
<1>4. ASSUME NEW how, Ends(how) PROVE Placed'
  BY <1>3, <1>4 DEF Ends, processVars, blockVars, srvVars
<1>5. ASSUME NEW t \in Threads, CloneOfNobody(t) \/ AnswerNobody(t) PROVE Placed'
  BY <1>4, <1>5 DEF CloneOfNobody, AnswerNobody
<1>6. CASE Quit \/ process_clear_input \/ record_button_toggled_cb
  <2>1. CASE Quit
    BY <1>4, <2>1 DEF Quit
  <2>2. CASE process_clear_input \/ record_button_toggled_cb
    BY <1>3, <2>2 DEF process_clear_input, record_button_toggled_cb, blockVars, srvVars,
                      wireVars
  <2> QED BY <1>6, <2>1, <2>2
<1>7. ASSUME NEW t \in Threads, InputEOF(t) PROVE Placed'
  BY <1>3, <1>7 DEF InputEOF, blockVars, srvVars, wireVars
<1>8. CASE process_detach
  <2>1. UNCHANGED <<pseqno, command_queue, srv, cmd>> /\ ReadSeqs' = ReadSeqs
    BY <1>8 DEF process_detach, blockVars, srvVars, ReadSeqs
  <2>2. CASE wire' = wire
    BY <1>3, <2>1, <2>2
  <2>3. CASE wire' # wire
    <3>1. /\ peer'[Main] = "closed" /\ wire'[Main] = <<>>
          /\ \A u \in Threads : u # Main => wire'[u] = wire[u]
      BY <1>8, <2>3, WireAssumption DEF process_detach, TypeOK, WireTypeOK
    <3>2. Numbers(<<>>) = {} /\ AllDifferent(<<>>)
      BY DEF Numbers, AllDifferent
    <3>3. ~Attached'
      BY <3>1 DEF Attached
    <3> QED BY <1>1, <1>2, <2>1, <3>1, <3>2, <3>3, Still DEF WireSeqs
  <2> QED BY <2>2, <2>3
<1>9. ASSUME NEW t \in Threads, control_func(t) PROVE Placed'
  <2>1. wire[t] = <<Hello>> /\ wire[t] # <<>> /\ Took(t)
    BY <1>9 DEF control_func, ConnInv, ConnOf
  <2>2. Head(wire[t]).part # "info"
    BY <2>1, HelloSeq DEF Hello
  <2>3. UNCHANGED <<pseqno, command_queue, srv, cmd>> /\ ReadSeqs' = ReadSeqs
    BY <1>9 DEF control_func, blockVars, srvVars, ReadSeqs
  <2>4. \A u \in Threads : AllDifferent(wire[u])' /\ WireSeqs(u)' = WireSeqs(u)
    BY <2>1, <2>2, TookDifferent
  <2> QED BY <1>1, <1>2, <2>3, <2>4, Still
<1>10. CASE QueueDone
  <2>1. /\ UNCHANGED <<pseqno, command_queue, wire>> /\ srv = "drain" /\ srv' = "loop"
        /\ \A c \in command_queue : IsHead(c) => c.info.seqno # pseqno
    BY <1>10 DEF QueueDone, blockVars, wireVars
  <2>2. pseqno \notin QueueSeqs
    <3>1. SUFFICES ASSUME NEW c \in command_queue, c.info.seqno = pseqno PROVE FALSE
      BY DEF QueueSeqs
    <3>2. \A d \in command_queue : pseqno <= d.info.seqno
      BY DEF Placed, Apart, QueueSeqs
    <3> QED BY <2>1, <3>1, <3>2 DEF IsHead
  <2>3. ReadSeqs = {} /\ ReadSeqs' = {} /\ QueueSeqs' = QueueSeqs /\ Wires' = Wires
    BY <2>1 DEF ReadSeqs, QueueSeqs, Wires, WireSeqs
  <2>4. QueueInv'
    BY <2>1, <2>2, <2>3 DEF QueueInv, Placed
  <2> QED BY <1>1, <1>2, <2>1, <2>3, <2>4 DEF Placed
<1>11. CASE unqueue_command
  <2>1. PICK c \in command_queue :
          /\ c.info.seqno = pseqno /\ srv = "drain" /\ srv' = "drain"
          /\ command_queue' = command_queue \ {c}
          /\ pseqno' = (pseqno + 1) % SeqMod /\ wire' = wire
    BY <1>11 DEF unqueue_command, Apply, wireVars
  <2>2. QueueSeqs' = QueueSeqs \ {pseqno} /\ pseqno \in QueueSeqs
    BY <2>1 DEF QueueSeqs, Placed, QueueInv
  <2>3. ReadSeqs = {} /\ ReadSeqs' = {} /\ Wires' = Wires
    BY <2>1 DEF ReadSeqs, Wires, WireSeqs
  <2>4. QueueInv'
    BY <2>1 DEF QueueInv, Placed
  <2>5. PICK P : P = QueueSeqs'
    OBVIOUS
  <2>6. /\ Hands \in [Threads -> SUBSET Nat] /\ Wires \in [Threads -> SUBSET Nat]
        /\ pseqno \in Nat /\ seqno \in Nat /\ P \subseteq Nat
        /\ Apart(Hands, Wires, {}, QueueSeqs, pseqno, seqno)
    BY <2>2, <2>3, <2>5, NumberTypes DEF Placed
  <2>7. /\ Apart(Hands, Wires, {pseqno}, P, pseqno, seqno)
        /\ Complete(Hands, Wires, {}, QueueSeqs, pseqno, seqno)
             => Complete(Hands, Wires, {pseqno}, P, pseqno, seqno)
    BY <2>2, <2>5, <2>6, Dequeue
  <2>8. /\ pseqno' <= seqno
        /\ Apart(Hands, Wires, {}, P, pseqno', seqno)
        /\ Complete(Hands, Wires, {pseqno}, P, pseqno, seqno)
             => Complete(Hands, Wires, {}, P, pseqno', seqno)
    BY <2>1, <2>6, <2>7, Applied
  <2> QED BY <1>1, <1>2, <2>1, <2>3, <2>4, <2>5, <2>7, <2>8 DEF Placed
<1>12. ASSUME NEW t \in Threads, input_func(t) PROVE Placed'
  <2>1. /\ srv = "loop" /\ status[t] # "INIT" /\ wire[t] # <<>> /\ Took(t)
        /\ srv' = "frames" /\ cmd' = Head(wire[t]).info
        /\ UNCHANGED <<pseqno, command_queue>>
    BY <1>12 DEF input_func, Loop, Watched, blockVars
  <2>2. Head(wire[t]).part = "info"
    BY <2>1, HeadIsReport
  <2>3. PICK n : n = Head(wire[t]).info.seqno
    OBVIOUS
  <2>4. ReadSeqs = {} /\ ReadSeqs' = {n} /\ QueueSeqs' = QueueSeqs /\ QueueInv'
    BY <2>1, <2>3 DEF ReadSeqs, QueueSeqs, QueueInv, Placed
  <2>5. /\ Apart(Hands, Wires', {n}, QueueSeqs, pseqno, seqno)
        /\ Complete(Hands, Wires, {}, QueueSeqs, pseqno, seqno)
             => Complete(Hands, Wires', {n}, QueueSeqs, pseqno, seqno)
    BY <2>1, <2>2, <2>3, ReceivePlaced
  <2>6. \A u \in Threads : AllDifferent(wire[u])'
    BY <2>1, TookDifferent
  <2> QED BY <1>1, <2>1, <2>4, <2>5, <2>6 DEF Placed
<1>13. ASSUME NEW t \in Threads, ReadExit(t) PROVE Placed'
  <2>1. /\ srv = "loop" /\ status[t] # "INIT" /\ wire[t] # <<>> /\ Took(t)
        /\ process_command(Head(wire[t]).info, NULL)
    BY <1>13 DEF ReadExit, Loop, Watched
  <2>2. Head(wire[t]).part = "info"
    BY <2>1, HeadIsReport
  <2>3. PICK i, V : i = Head(wire[t]).info /\ V = Wires'
    OBVIOUS
  <2>4. /\ Apart(Hands, V, {i.seqno}, QueueSeqs, pseqno, seqno)
        /\ Complete(Hands, Wires, {}, QueueSeqs, pseqno, seqno)
             => Complete(Hands, V, {i.seqno}, QueueSeqs, pseqno, seqno)
    BY <2>1, <2>2, <2>3, ReceivePlaced
  <2>5. Hands \in [Threads -> SUBSET Nat] /\ V \in [Threads -> SUBSET Nat] /\ ReadSeqs = {}
    <3>1. Wires' \in [Threads -> SUBSET Nat]
      <4>1. TypeOK' => (\A u \in Threads : WireSeqs(u)' \subseteq Nat)
        BY <2>1, <2>2, NumberTypes, TookDifferent DEF Wires
      <4> QED BY <4>1 DEF Wires
    <3> QED BY <2>1, <2>3, <3>1, NumberTypes DEF ReadSeqs
  <2>6. process_command(i, NULL) /\ srv # "drain"
    BY <2>1, <2>3
  <2>7. /\ pseqno' <= seqno /\ ReadSeqs' = {} /\ QueueInv'
        /\ Apart(Hands, V, {}, QueueSeqs', pseqno', seqno)
        /\ Complete(Hands, V, {i.seqno}, QueueSeqs, pseqno, seqno)
             => Complete(Hands, V, {}, QueueSeqs', pseqno', seqno)
    BY <2>4, <2>5, <2>6, CommandPlaced
  <2>8. \A u \in Threads : AllDifferent(wire[u])'
    BY <2>1, TookDifferent
  <2> QED BY <1>1, <2>3, <2>4, <2>5, <2>7, <2>8 DEF Placed
<1>14. ASSUME NEW stack, process_command(cmd, stack), srv = "frames", Wires' = Wires,
              \A u \in Threads : AllDifferent(wire[u])'
       PROVE  Placed'
  <2>1. /\ Hands \in [Threads -> SUBSET Nat] /\ Wires \in [Threads -> SUBSET Nat]
        /\ ReadSeqs = {cmd.seqno} /\ srv # "drain"
    BY <1>14, NumberTypes DEF ReadSeqs
  <2>2. Apart(Hands, Wires, {cmd.seqno}, QueueSeqs, pseqno, seqno)
    BY <2>1 DEF Placed
  <2>3. /\ pseqno' <= seqno /\ ReadSeqs' = {} /\ QueueInv'
        /\ Apart(Hands, Wires, {}, QueueSeqs', pseqno', seqno)
        /\ Complete(Hands, Wires, {cmd.seqno}, QueueSeqs, pseqno, seqno)
             => Complete(Hands, Wires, {}, QueueSeqs', pseqno', seqno)
    BY <1>14, <2>1, <2>2, CommandPlaced
  <2> QED BY <1>1, <1>14, <2>1, <2>3 DEF Placed
<1>15. CASE FramesEOF
  BY <1>2, <1>14, <1>15 DEF FramesEOF, wireVars, Wires, WireSeqs
<1>16. CASE ReadFrames
  <2>1. PICK t \in Threads : t = reading
    BY DEF TypeOK, ProcessTypeOK
  <2>2. /\ srv = "frames" /\ wire[t] # <<>> /\ Took(t) /\ WaitsFor(t)
        /\ process_command(cmd, Head(wire[t]).info.seqno)
    BY <1>16, <2>1 DEF ReadFrames, WaitsFor
  <2>3. Head(wire[t]).part # "info"
    <3>1. wire[t][1] = Frames(cmd) /\ Frames(cmd).part = "frames"
      BY <2>2 DEF WireInv, WireOf, Frames
    <3> QED BY <2>2, <3>1, TailFacts DEF TypeOK, WireTypeOK
  <2>4. \A u \in Threads : AllDifferent(wire[u])' /\ WireSeqs(u)' = WireSeqs(u)
    BY <2>2, <2>3, TookDifferent
  <2>5. Wires' = Wires
    BY <2>4 DEF Wires
  <2> QED BY <1>14, <2>2, <2>4, <2>5
<1> QED BY <1>5, <1>6, <1>7, <1>8, <1>9, <1>10, <1>11, <1>12, <1>13, <1>15, <1>16
        DEF ProcessNext, ServerStep, UserStep

-----------------------------------------------------------------------------
(* The theorems.                                                           *)

LEMMA NumberInit == Init => NumberInv
<1> SUFFICES ASSUME Init PROVE Placed
  BY DEF NumberInv
<1>1. /\ seqno = 0 /\ pseqno = 0 /\ log = <<>> /\ command_queue = {} /\ srv = "loop"
      /\ \A t \in Threads : pc[t] = "run" /\ wire[t] = <<>>
  BY DEF Init, WireInit, InterceptInit, ProcessInit
<1>2. Numbers(<<>>) = {} /\ AllDifferent(<<>>)
  BY DEF Numbers, AllDifferent
<1>3. /\ \A t \in Threads : Hands[t] = {} /\ Wires[t] = {} /\ AllDifferent(wire[t])
      /\ ReadSeqs = {} /\ QueueSeqs = {} /\ QueueInv
  BY <1>1, <1>2 DEF Hands, HandSeqs, Wires, WireSeqs, ReadSeqs, QueueSeqs, QueueInv
<1>4. Apart(Hands, Wires, ReadSeqs, QueueSeqs, pseqno, seqno)
  BY <1>3 DEF Apart
<1>5. Complete(Hands, Wires, ReadSeqs, QueueSeqs, pseqno, seqno)
  BY <1>1 DEF Complete
<1> QED BY <1>1, <1>3, <1>4, <1>5 DEF Placed

LEMMA LogGrows ==
  ASSUME TypeOK, Next
  PROVE  Len(log) <= Len(log')
<1>1. CASE Server
  BY <1>1, NumberTypes DEF Server, localVars
<1>2. CASE Client
  <2>1. ASSUME NEW t \in Threads, TakeSeqno(t) PROVE Len(log') = Len(log) + 1
    BY <2>1, SeqnoType, NumberTypes DEF TakeSeqno, TypeOK, InterceptTypeOK
  <2>2. log' = log \/ \E t \in Threads : TakeSeqno(t)
    BY <1>2 DEF Client, InterceptNext, CallStep, Request, mi_tracing, Elide,
       new_process, ConnectError, Response, WriteInfo, WriteFrames, WriteFails, exit_wait,
       Exited, Die, do_malloc, do_realloc, do_free, atexit_trap, Called
  <2> QED BY <2>1, <2>2, NumberTypes
<1> QED BY <1>1, <1>2 DEF Next

LEMMA OrderStep ==
  ASSUME TypeOK, TypeOK', OrderInv, [Next]_vars
  PROVE  OrderInv'
<1> USE DEF OrderInv
<1>1. CASE UNCHANGED vars
  <2>1. UNCHANGED <<wire, fd, peer, reply, memprof, seqno, pc, info, alive, log, pseqno,
                    command_queue, status, srv, reading, cmd>>
    BY <1>1 DEF vars, wireVars, localVars, processVars, blockVars, connVars, srvVars
  <2>2. ConnInv'
    BY <2>1 DEF ConnInv, ConnOf, Attached
  <2>3. WireInv' /\ ReadInv'
    BY <2>1 DEF WireInv, WireOf, WaitsFor, Broken, ReadInv
  <2>4. NumberInv'
    BY <2>1 DEF NumberInv, NoWrap, Placed, Hands, HandSeqs, Wires, WireSeqs, ReadSeqs,
                QueueSeqs, QueueInv, Attached
  <2> QED BY <2>2, <2>3, <2>4
<1>2. CASE Next
  <2>1. ConnInv'
    BY <1>2, ConnClient, ConnServer DEF Next, Client, Server
  <2>2. WireInv' /\ ReadInv'
    BY <1>2, WireClient, WireServer DEF Next, Client, Server
  <2>3. NumberInv'
    <3>1. SUFFICES ASSUME NoWrap' PROVE Placed'
      BY DEF NumberInv
    <3>2. NoWrap
      BY <1>2, <3>1, LogGrows, NumberTypes DEF NoWrap, TypeOK, InterceptTypeOK
    <3>3. Placed /\ (Attached' => Attached)
      BY <1>2, <3>2, AttachedBefore DEF NumberInv
    <3> QED BY <1>2, <3>1, <3>2, <3>3, PlacedClient, PlacedServer DEF Next, Client, Server
  <2> QED BY <2>1, <2>2, <2>3
<1> QED BY <1>1, <1>2

\* The invariant behind the next two theorems: connections, sockets and
\* numbers are as TracingInv describes them in every reachable state.
THEOREM OrderKept == Spec => []OrderInv
<1>1. Init => OrderInv
  BY ConnInit, WireInit0, NumberInit DEF OrderInv
<1>2. TypeOK /\ TypeOK' /\ OrderInv /\ [Next]_vars => OrderInv'
  BY OrderStep
<1> QED BY <1>1, <1>2, TypeCorrect, PTL DEF Spec

\* process_command's queue puts the reports of any number of threads back in
\* step: with nothing on its way the queue is empty and memprof expects the
\* number the library hands out next.
THEOREM QueueKeepsStep == Spec => []InStep
<1>1. ASSUME TypeOK, OrderInv PROVE InStep
  <2>1. SUFFICES ASSUME NoWrap, Quiet PROVE command_queue = {} /\ pseqno = seqno
    BY DEF InStep, InStepAlways
  <2>2. Placed /\ Attached /\ srv = "loop"
    BY <1>1, <2>1 DEF OrderInv, NumberInv, Quiet
  <2>3. Numbers(<<>>) = {}
    BY DEF Numbers
  <2>4. ReadSeqs = {} /\ \A t \in Threads : Hands[t] = {} /\ Wires[t] = {}
    BY <2>1, <2>2, <2>3 DEF Quiet, ReadSeqs, Hands, HandSeqs, Wires, WireSeqs
  <2>5. pseqno = seqno
    <3>1. pseqno \in Nat /\ seqno \in Nat /\ pseqno <= seqno
      BY <1>1, <2>2, NumberTypes DEF Placed
    <3>2. pseqno < seqno => pseqno \in QueueSeqs
      BY <2>2, <2>4, <3>1 DEF Placed, Complete
    <3> QED BY <2>2, <3>1, <3>2 DEF Placed, QueueInv
  <2>6. QueueSeqs = {}
    BY <1>1, <2>2, <2>5, NumberTypes DEF Placed, Apart
  <2> QED BY <2>5, <2>6 DEF QueueSeqs
<1> QED BY <1>1, OrderKept, TypeCorrect, PTL

\* No report memprof still has to see is behind its counter, where
\* unqueue_command would never look again, and none is missing while both
\* ends are there.
THEOREM NumbersAccounted == Spec => []Accounted
<1>1. ASSUME TypeOK, OrderInv PROVE Accounted
  <2>1. SUFFICES ASSUME NoWrap
                 PROVE  /\ Pending \subseteq pseqno..(seqno - 1)
                        /\ Attached => pseqno..(seqno - 1) \subseteq Pending
    BY DEF Accounted
  <2>2. Placed
    BY <1>1, <2>1 DEF OrderInv, NumberInv
  <2>3. pseqno \in Nat /\ seqno \in Nat
    BY <1>1, NumberTypes
  <2>4. \A n : n \in Pending <=> \/ n \in ReadSeqs \/ n \in QueueSeqs
                                 \/ \E t \in Threads : n \in Hands[t] \/ n \in Wires[t]
    BY DEF Pending, Hands, Wires
  <2>5. \A n \in Pending : n \in Nat /\ pseqno <= n /\ n < seqno
    BY <1>1, <2>2, <2>4, NumberTypes DEF Placed, Apart
  <2>6. Pending \subseteq pseqno..(seqno - 1)
    BY <2>3, <2>5
  <2>7. Attached => pseqno..(seqno - 1) \subseteq Pending
    BY <2>2, <2>4 DEF Placed, Complete
  <2> QED BY <2>6, <2>7
<1> QED BY <1>1, OrderKept, TypeCorrect, PTL


-----------------------------------------------------------------------------
(* Neither end closes early.                                               *)

LEMMA HoldInit == Init => HoldInv
<1> SUFFICES ASSUME Init PROVE HoldInv
  OBVIOUS
<1>1. /\ srv = "loop" /\ \A t \in Threads : wire[t] = <<>> /\ reply[t] = NULL
      /\ \A t \in Threads : t # Main => fd[t] = "none"
      /\ fd[Main] = "open" /\ peer[Main] = "open"
      /\ \A t \in Threads : t # Main => status[t] = "INIT"
  BY WireAssumption DEF Init, WireInit, ProcessInit
<1>2. NULL # 0 /\ NULL # 1
  BY WireAssumption
<1> QED BY <1>1, <1>2 DEF HoldInv, HoldOf, Listening, Owed, WaitsFor

LEMMA HoldClient ==
  ASSUME TypeOK, ConnInv, WireInv, HoldInv, InterceptNext, UNCHANGED processVars
  PROVE  HoldInv'
<1> USE WireAssumption DEF HoldInv
<1>0. UNCHANGED <<status, srv, reading, cmd>>
  BY DEF processVars, connVars, srvVars
<1>1. CASE Die
  BY <1>0, <1>1 DEF Die, Gone, HoldOf, Listening
<1>2. ASSUME NEW t \in Threads, CallStep(t) \/ Request(t)
      PROVE  HoldInv'
  <2>1. UNCHANGED <<peer, memprof>>
    BY <1>2 DEF CallStep, Request, mi_tracing, Elide, TakeSeqno, new_process,
       ConnectError, Response, WriteInfo, WriteFrames, WriteFails, exit_wait, Exited,
       do_malloc, do_realloc, do_free, atexit_trap, Called, wireVars
  <2>3. ASSUME NEW u \in Threads, u # t, ~ConnectError(t)
        PROVE  HoldOf(u)'
    <3>1. wire'[u] = wire[u] /\ fd'[u] = fd[u] /\ reply'[u] = reply[u] /\ pc'[u] = pc[u]
          /\ (alive' => alive)
      BY <1>2, <2>3
      DEF CallStep, Request, mi_tracing, Elide, TakeSeqno, new_process, stop_tracing,
       Response, WriteInfo, WriteFrames, WriteFails, exit_wait, Exited, Sent,
       do_malloc, do_realloc, do_free, atexit_trap, Called, wireVars, TypeOK, WireTypeOK,
       InterceptTypeOK, Ready
    <3> QED BY <1>0, <2>1, <3>1 DEF HoldOf, Listening, Owed, WaitsFor
  <2>4. CASE Request(t) \/ mi_tracing(t) \/ Elide(t) \/ TakeSeqno(t) \/ Exited(t)
    <3>1. /\ UNCHANGED <<wire, fd, reply, alive>>
          /\ pc[t] # "await"
      BY <2>4 DEF Request, mi_tracing, Elide, TakeSeqno, Exited, do_malloc, do_realloc,
         do_free, atexit_trap, Called, Ready, wireVars
    <3>2. HoldOf(t)'
      BY <1>0, <2>1, <3>1 DEF HoldOf, Listening, Owed, WaitsFor
    <3>3. ~ConnectError(t)
      BY <2>4 DEF Request, mi_tracing, Elide, TakeSeqno, Exited, do_malloc, do_realloc,
         do_free, atexit_trap, Called, Ready, ConnectError
    <3> QED BY <1>0, <2>1, <2>3, <3>2, <3>3 DEF Listening
  <2>5. ASSUME HoldOf(t)', ~ConnectError(t) PROVE HoldInv'
    BY <1>0, <2>1, <2>3, <2>5 DEF Listening
  <2>6. ASSUME alive, fd[t] # "none" PROVE ~ConnectError(t)
    BY <2>6 DEF ConnectError, find_thread
  <2>7. wire[t] \in Seq(Parts) /\ info[t] \in MIInfo
    BY DEF TypeOK, WireTypeOK, InterceptTypeOK
  <2>8. CASE new_process(t)
    <3>1. /\ fd'[t] = "open" /\ wire'[t] = Append(wire[t], Hello) /\ pc'[t] = "await"
          /\ UNCHANGED <<reply, alive>> /\ status[t] = "INIT"
      BY <2>8 DEF new_process, find_thread, Sent, ConnInv, ConnOf, TypeOK, WireTypeOK,
                  InterceptTypeOK
    <3>2. HoldOf(t)'
      BY <1>0, <2>1, <2>7, <3>1, PartTypes DEF HoldOf, Listening
    <3> QED BY <2>5, <2>8, <3>2 DEF ConnectError, new_process
  <2>9. CASE Response(t)
    <3>1. /\ alive /\ pc[t] = "await" /\ fd[t] = "open" /\ t # Main
          /\ reply'[t] = NULL /\ UNCHANGED <<wire, alive>>
      BY <2>9 DEF Response, ConnInv, ConnOf, TypeOK, WireTypeOK
    <3>2. memprof = "up" => fd' = fd
      BY <2>9, <3>1 DEF Response, ConnInv, ConnOf
    <3>3. HoldOf(t)'
      BY <1>0, <2>1, <3>1, <3>2 DEF HoldOf, Listening, Owed, WaitsFor
    <3> QED BY <2>5, <2>6, <3>1, <3>3
  <2>10. CASE WriteInfo(t) \/ WriteFrames(t)
    <3>1. /\ fd[t] = "open" /\ fd'[t] = "open" /\ UNCHANGED <<reply, alive>> /\ alive
          /\ pc[t] # "await"
      BY <2>10 DEF WriteInfo, WriteFrames, CanSend, Broken
    <3>2. HoldOf(t)'
      BY <1>0, <2>1, <3>1 DEF HoldOf, Listening
    <3> QED BY <2>5, <2>6, <3>1, <3>2
  <2>11. CASE WriteFails(t) \/ exit_wait(t)
    <3>1. /\ alive /\ alive' /\ pc[t] # "await" /\ fd[t] # "none" /\ fd'[t] = "closed"
          /\ wire' = wire /\ reply'[t] \in {NULL, reply[t]}
      <4>1. /\ alive /\ alive' /\ pc[t] \in {"numbered", "frames", "exitwait"}
            /\ pc[t] = "exitwait" \/ find_thread(t)
            /\ wire' = wire /\ reply'[t] \in {NULL, reply[t]} /\ fd'[t] = "closed"
        BY <2>11 DEF WriteFails, exit_wait, stop_tracing, TypeOK, WireTypeOK
      <4> QED BY <4>1 DEF find_thread, ConnInv, ConnOf
    <3>2. CASE Broken(t)
      <4>1. memprof = "up" /\ status[t] \in {"RUNNING", "EXITING"} => fd[t] = "closed"
        BY <3>1, <3>2 DEF Broken, HoldOf, Listening, TypeOK, WireTypeOK
      <4>2. memprof = "up" /\ t # Main => fd[t] = "closed"
        BY <3>1, <3>2 DEF Broken, ConnInv, ConnOf, TypeOK, WireTypeOK
      <4> QED BY <1>0, <2>1, <2>5, <2>6, <3>1, <4>1, <4>2
              DEF HoldOf, Listening, Owed, WaitsFor
    <3>3. CASE ~Broken(t)
      <4>1. /\ exit_wait(t) /\ pc[t] = "exitwait" /\ fd[t] = "open" /\ reply[t] # NULL
            /\ info[t].operation = "MI_EXIT"
        BY <2>11, <3>3 DEF WriteFails, exit_wait, Broken
      <4>2. Listening(t) => ~Owed(t)
        BY <4>1 DEF Owed, WireInv, WireOf, AllocOps, TypeOK, WireTypeOK
      <4>3. t # Main => status[t] \notin {"INIT", "RUNNING"}
        BY <3>1, <4>1 DEF HoldOf, TypeOK, WireTypeOK
      <4> QED BY <1>0, <2>1, <2>5, <2>6, <3>1, <4>2, <4>3
              DEF HoldOf, Listening, Owed, WaitsFor
    <3> QED BY <3>2, <3>3
  <2>12. ASSUME ConnectError(t) PROVE HoldInv'
    BY <1>0, <2>1, <2>12 DEF ConnectError, Gone, HoldOf, Listening
  <2> QED BY <1>2, <2>4, <2>8, <2>9, <2>10, <2>11, <2>12 DEF CallStep
<1> QED BY <1>1, <1>2 DEF InterceptNext

LEMMA HoldServer ==
  ASSUME TypeOK, ConnInv, WireInv, ReadInv, HoldInv, ProcessNext, UNCHANGED localVars
  PROVE  HoldInv'
<1> USE WireAssumption DEF HoldInv
<1>0. UNCHANGED <<pc, info, alive>>
  BY DEF localVars
<1>1. ASSUME UNCHANGED <<fd, peer, reply, memprof, status, wire>>, srv' \in {"loop", "drain"}
      PROVE  HoldInv'
  BY <1>0, <1>1 DEF HoldOf, Listening, Owed, WaitsFor
<1>2. CASE unqueue_command \/ QueueDone \/ process_clear_input \/ record_button_toggled_cb
  BY <1>1, <1>2 DEF unqueue_command, QueueDone, process_clear_input, Loop, Apply,
     record_button_toggled_cb, wireVars, connVars, srvVars
<1>3. CASE FramesEOF
  BY <1>1, <1>3, CommandEndsWait DEF FramesEOF, wireVars, connVars
<1>4. ASSUME NEW t \in Threads, wire[t] # <<>>, Took(t), UNCHANGED <<fd, peer, memprof>>,
             \/ srv' \in {"loop", "drain"}
             \/ /\ srv' = "frames" /\ reading' = t /\ Listening(t) /\ status' = status
                /\ wire[t][1].part = "info" /\ wire[t][1].info.operation \in AllocOps,
             \A u \in Threads : Listening(u)' => Listening(u),
             \A u \in Threads : u # t => wire'[u] = wire[u]
      PROVE  \A u \in Threads : Listening(u)' => /\ peer'[u] = "open"
                                                 /\ alive' /\ Owed(u)' => fd'[u] = "open"
  <2>1. SUFFICES ASSUME NEW u \in Threads, Listening(u)'
                 PROVE  peer'[u] = "open" /\ (alive' /\ Owed(u)' => fd'[u] = "open")
    OBVIOUS
  <2>2. Listening(u) /\ peer'[u] = "open"
    BY <1>4, <2>1 DEF HoldOf
  <2>3. Owed(u)' => Owed(u)
    <3>1. CASE u # t
      BY <1>4, <3>1 DEF Owed, WaitsFor
    <3>2. CASE u = t
      <4>1. /\ wire'[t] = Tail(wire[t])
            /\ Tail(wire[t]) # <<>> => Tail(wire[t])[Len(Tail(wire[t]))] = wire[t][Len(wire[t])]
            /\ Tail(wire[t]) = <<>> => wire[t][Len(wire[t])] = wire[t][1]
        BY <1>4, Popped DEF Took, TypeOK, WireTypeOK, WireInv
      <4> QED BY <1>4, <3>2, <4>1 DEF Owed, WaitsFor
    <3> QED BY <3>1, <3>2
  <2> QED BY <1>0, <1>4, <2>2, <2>3 DEF HoldOf
<1>5. ASSUME NEW t \in Threads, input_func(t) PROVE HoldInv'
  <2>1. /\ srv = "loop" /\ wire[t] # <<>> /\ Took(t) /\ Listening(t)
        /\ srv' = "frames" /\ reading' = t
        /\ UNCHANGED <<fd, peer, reply, memprof, status>>
        /\ Head(wire[t]).info.operation # "MI_EXIT"
        /\ \A u \in Threads : u # t => wire'[u] = wire[u]
    BY <1>5 DEF input_func, Loop, Watched, Took, connVars, Listening, TypeOK, WireTypeOK
  <2>2. wire[t][1].part = "info" /\ wire[t][1].info.operation \in AllocOps
    <3>1. status[t] # "INIT"
      BY <2>1 DEF Listening
    <3>2. /\ wire[t][1] \in Parts /\ Head(wire[t]) = wire[t][1]
          /\ Len(wire[t]) \in Nat /\ Len(wire[t]) >= 1
      BY <2>1, TailFacts DEF TypeOK, WireTypeOK
    <3>3. wire[t][1].part = "info" /\ wire[t][1].info.operation # "MI_CLONE"
      BY <2>1, <3>1, <3>2, HeadIsReport DEF WireInv, WireOf
    <3> QED BY <2>1, <3>2, <3>3 DEF Parts, MIInfo
  <2>3. \A u \in Threads : Listening(u)' <=> Listening(u)
    BY <2>1 DEF Listening
  <2>4. \A u \in Threads : Listening(u)' => /\ peer'[u] = "open"
                                            /\ alive' /\ Owed(u)' => fd'[u] = "open"
    BY <1>4, <2>1, <2>2, <2>3
  <2> QED BY <1>0, <2>1, <2>3, <2>4 DEF HoldOf, Listening
<1>6. CASE ReadFrames
  <2>1. PICK t \in Threads : t = reading
    BY DEF TypeOK, ProcessTypeOK
  <2>2. /\ wire[t] # <<>> /\ Took(t) /\ srv' \in {"loop", "drain"}
        /\ UNCHANGED <<fd, peer, reply, memprof, status>>
        /\ \A u \in Threads : u # t => wire'[u] = wire[u]
    BY <1>6, <2>1, CommandEndsWait DEF ReadFrames, Took, connVars, TypeOK, WireTypeOK
  <2>3. \A u \in Threads : Listening(u)' <=> Listening(u)
    BY <2>2 DEF Listening
  <2>4. \A u \in Threads : Listening(u)' => /\ peer'[u] = "open"
                                            /\ alive' /\ Owed(u)' => fd'[u] = "open"
    BY <1>4, <2>2, <2>3
  <2> QED BY <1>0, <2>2, <2>3, <2>4 DEF HoldOf
<1>7. ASSUME NEW t \in Threads, ReadExit(t) PROVE HoldInv'
  <2>1. /\ wire[t] # <<>> /\ Took(t) /\ srv' \in {"loop", "drain"} /\ Listening(t)
        /\ UNCHANGED <<fd, peer, memprof>>
        /\ status'[t] = "EXITING" /\ (t # Main => reply'[t] = 0)
        /\ \A u \in Threads : u # t => /\ wire'[u] = wire[u] /\ status'[u] = status[u]
                                      /\ (u # Main => reply'[u] = reply[u])
    BY <1>7, CommandEndsWait
       DEF ReadExit, Loop, Watched, Took, Listening, TypeOK, WireTypeOK, ProcessTypeOK
  <2>2. \A u \in Threads : Listening(u)' => Listening(u)
    BY <2>1 DEF Listening
  <2>3. \A u \in Threads : Listening(u)' => /\ peer'[u] = "open"
                                            /\ alive' /\ Owed(u)' => fd'[u] = "open"
    BY <1>4, <2>1, <2>2
  <2> QED BY <1>0, <2>1, <2>3 DEF HoldOf
<1>8. ASSUME NEW t \in Threads, control_func(t) PROVE HoldInv'
  <2>1. /\ ~alive \/ (wire[t] = <<Hello>> /\ pc[t] = "await")
        /\ srv = "loop" /\ srv' = "loop"
        /\ fd' = fd /\ memprof' = memprof /\ fd[t] = "open"
        /\ wire'[t] = <<>> /\ peer'[t] = "open" /\ reply'[t] = 1 /\ status'[t] = "RUNNING"
        /\ \A u \in Threads : u # t => /\ wire'[u] = wire[u] /\ peer'[u] = peer[u]
                                      /\ reply'[u] = reply[u] /\ status'[u] = status[u]
    BY <1>8, HelloSeq DEF control_func, Loop, Took, srvVars, ConnInv, ConnOf, TypeOK,
       WireTypeOK, ProcessTypeOK
  <2>2. HoldOf(t)'
    BY <1>0, <1>8, <2>1 DEF HoldOf, control_func, ConnInv, ConnOf
  <2>3. ASSUME NEW u \in Threads, u # t PROVE HoldOf(u)'
    BY <1>0, <1>8, <2>1, <2>3 DEF HoldOf, Listening, Owed, WaitsFor, control_func, srvVars, Loop
  <2> QED BY <2>1, <2>2, <2>3
<1>9. ASSUME NEW t \in Threads, InputEOF(t) PROVE HoldInv'
  <2>1. /\ srv' = "loop" /\ srv = "loop" /\ UNCHANGED <<wire, fd, peer, reply, memprof>>
        /\ \A u \in Threads : status'[u] \in {status[u], "DEFUNCT"}
    BY <1>9 DEF InputEOF, Loop, wireVars, srvVars, TypeOK, ProcessTypeOK
  <2> QED BY <1>0, <2>1 DEF HoldOf, Listening, Owed, WaitsFor
<1>10. CASE process_detach
  <2>1. /\ srv' = "loop" /\ srv = "loop" /\ UNCHANGED <<fd, memprof>>
        /\ \A u \in Threads : u # Main => /\ wire'[u] = wire[u] /\ peer'[u] = peer[u]
                                         /\ reply'[u] = reply[u] /\ status'[u] = status[u]
        /\ \/ UNCHANGED <<wire, peer, status>>
           \/ status'[Main] = "DETACHED"
    BY <1>10 DEF process_detach, Loop, srvVars, TypeOK, WireTypeOK, ProcessTypeOK
  <2> QED BY <1>0, <2>1 DEF HoldOf, Listening, Owed, WaitsFor
<1>11. ASSUME NEW how, Ends(how), how # "up" PROVE HoldInv'
  BY <1>0, <1>11 DEF Ends, HoldOf, Listening, processVars, connVars, srvVars
<1>12. CASE Quit \/ (\E t \in Threads : CloneOfNobody(t) \/ AnswerNobody(t))
  BY <1>11, <1>12 DEF Quit, CloneOfNobody, AnswerNobody
<1> QED BY <1>2, <1>3, <1>5, <1>6, <1>7, <1>8, <1>9, <1>10, <1>12
        DEF ProcessNext, ServerStep, UserStep

LEMMA HoldKept == Spec => []HoldInv
<1>1. TypeOK /\ OrderInv /\ HoldInv /\ [Next]_vars => HoldInv'
  <2> SUFFICES ASSUME TypeOK, OrderInv, HoldInv, [Next]_vars PROVE HoldInv'
    OBVIOUS
  <2>1. CASE Client
    BY <2>1, HoldClient DEF Client, OrderInv
  <2>2. CASE Server
    BY <2>2, HoldServer DEF Server, OrderInv
  <2>3. CASE UNCHANGED vars
    BY <2>3 DEF vars, wireVars, localVars, processVars, connVars, srvVars, HoldInv, HoldOf,
                Listening, Owed, WaitsFor
  <2> QED BY <2>1, <2>2, <2>3 DEF Next
<1> QED BY <1>1, HoldInit, OrderKept, TypeCorrect, PTL DEF Spec

\* The program does not come back to life, nor does it reopen a socket.
LEMMA FdForward ==
  ASSUME TypeOK, InterceptNext, NEW u \in Threads
  PROVE  (alive' => alive) /\ (fd[u] = "closed" => fd'[u] = "closed")
BY DEF InterceptNext, CallStep, Request, mi_tracing, Elide, TakeSeqno, new_process,
   ConnectError, Response, WriteInfo, WriteFrames, WriteFails, exit_wait, Exited, Die,
   do_malloc, do_realloc, do_free, atexit_trap, Called, wireVars, Ready, Gone,
   stop_tracing, find_thread, TypeOK, WireTypeOK

\* memprof never listens to a thread that could go away unanswered, so only a
\* write to a socket whose program has ended, or whose root has closed it, raises
\* SIGPIPE: control_func and process_detach answer a live thread only.
THEOREM PipeNeedsEnd == Spec => []PipeNeedsDeath
<1>1. Init => PipeNeedsDeath
  BY DEF Init, WireInit, PipeNeedsDeath
<1>2. TypeOK /\ TypeOK' /\ OrderInv /\ HoldInv /\ PipeNeedsDeath /\ [Next]_vars
        => PipeNeedsDeath'
  <2> SUFFICES ASSUME TypeOK, OrderInv, HoldInv, PipeNeedsDeath, [Next]_vars,
                      memprof' = "SIGPIPE"
               PROVE  ~alive' \/ fd'[Main] = "closed"
    BY DEF PipeNeedsDeath
  <2>1. CASE UNCHANGED vars
    BY <2>1 DEF vars, wireVars, localVars, PipeNeedsDeath
  <2>2. CASE Client
    <3>1. memprof' = memprof
      BY <2>2 DEF Client, InterceptNext, CallStep, Request, mi_tracing, Elide, TakeSeqno,
         new_process, ConnectError, Response, WriteInfo, WriteFrames, WriteFails,
         exit_wait, Exited, Die, do_malloc, do_realloc, do_free, atexit_trap, Called,
         wireVars
    <3>2. (alive' => alive) /\ (fd[Main] = "closed" => fd'[Main] = "closed")
      BY <2>2, WireAssumption, FdForward DEF Client
    <3> QED BY <3>1, <3>2 DEF PipeNeedsDeath
  <2>3. CASE Server
    <3>1. UNCHANGED alive /\ fd' = fd
      BY <2>3 DEF Server, localVars, ProcessNext, ServerStep, UserStep, unqueue_command,
         QueueDone, ReadFrames, FramesEOF, control_func, CloneOfNobody, AnswerNobody,
         input_func, ReadExit, InputEOF, process_detach, process_clear_input,
         record_button_toggled_cb, Quit, Ends, wireVars
    <3>2. \/ memprof' = memprof \/ memprof' # "SIGPIPE"
          \/ \E t \in Threads : AnswerNobody(t)
      BY <2>3 DEF Server, ProcessNext, ServerStep, UserStep, unqueue_command,
         QueueDone, ReadFrames, FramesEOF, control_func, CloneOfNobody,
         input_func, ReadExit, InputEOF, process_detach, process_clear_input,
         record_button_toggled_cb, Quit, Ends, wireVars
    <3>3. ASSUME NEW t \in Threads, AnswerNobody(t), t # Main PROVE ~alive
      <4>1. memprof = "up" /\ fd[t] = "closed" /\ status[t] \in {"INIT", "RUNNING"}
        BY <3>3 DEF AnswerNobody, Loop
      <4> QED BY <3>3, <4>1 DEF HoldInv, HoldOf
    <3>4. AnswerNobody(Main) => fd[Main] = "closed"
      BY DEF AnswerNobody
    <3> QED BY <3>1, <3>2, <3>3, <3>4 DEF PipeNeedsDeath
  <2> QED BY <2>1, <2>2, <2>3 DEF Next
<1> QED BY <1>1, <1>2, HoldKept, OrderKept, TypeCorrect, PTL DEF Spec

-----------------------------------------------------------------------------
(* What is on its way is what the log says.                                *)

LEMMA LogFacts ==
  ASSUME TypeOK, NEW t \in Threads, TakeSeqno(t)
  PROVE  LET e == [info[t] EXCEPT !.seqno = seqno]
         IN /\ e \in MIInfo /\ Len(log') = Len(log) + 1 /\ log'[Len(log) + 1] = e
            /\ \A k \in 1..Len(log) : log'[k] = log[k]
            /\ info' = [info EXCEPT ![t] = e]
<1> DEFINE e == [info[t] EXCEPT !.seqno = seqno]
<1>1. e \in MIInfo
  BY SeqnoType, NumberTypes DEF TypeOK, InterceptTypeOK
<1>2. log' = Append(log, e) /\ log \in Seq(MIInfo) /\ info' = [info EXCEPT ![t] = e]
  BY DEF TakeSeqno, TypeOK, InterceptTypeOK
<1> HIDE DEF e
<1>3. /\ Len(log') = Len(log) + 1 /\ log'[Len(log) + 1] = e
      /\ \A k \in 1..Len(log) : log'[k] = log[k]
  BY <1>1, <1>2
<1> QED BY <1>1, <1>2, <1>3 DEF e

\* The log only grows, at its end.
LEMMA LogKeeps ==
  ASSUME TypeOK, [Next]_vars
  PROVE  /\ Len(log) \in Nat /\ Len(log') \in Nat /\ Len(log) <= Len(log')
         /\ \A k \in 1..Len(log) : log'[k] = log[k]
<1>1. log' = log \/ \E t \in Threads : TakeSeqno(t)
  BY DEF vars, localVars, Next, Server, Client, InterceptNext, CallStep, Request,
     mi_tracing, Elide, new_process, ConnectError, Response, WriteInfo, WriteFrames,
     WriteFails, exit_wait, Exited, Die, do_malloc, do_realloc, do_free, atexit_trap,
     Called
<1>2. Len(log) \in Nat
  BY NumberTypes
<1>3. CASE log' = log
  BY <1>2, <1>3
<1>4. ASSUME NEW t \in Threads, TakeSeqno(t)
      PROVE  Len(log') = Len(log) + 1 /\ \A k \in 1..Len(log) : log'[k] = log[k]
  BY <1>4, LogFacts
<1> QED BY <1>1, <1>2, <1>3, <1>4

LEMMA StillLogged ==
  ASSUME TypeOK, [Next]_vars, NEW i \in MIInfo, Logged(i)
  PROVE  Logged(i)'
<1>1. i.seqno \in Nat /\ i.seqno + 1 \in 1..Len(log)
  BY LogKeeps DEF Logged, MIInfo
<1> QED BY <1>1, LogKeeps DEF Logged

LEMMA ShapeInit == Init => ShapeInv
BY DEF Init, InterceptInit, ShapeInv, StackedIfNew, Info

LEMMA ShapeStep ==
  ASSUME TypeOK, ShapeInv, [Next]_vars
  PROVE  ShapeInv'
<1>1. CASE Server \/ UNCHANGED vars
  BY <1>1 DEF Server, vars, localVars, ShapeInv
<1>2. CASE Client
  <2>1. ASSUME UNCHANGED <<info, log>> PROVE ShapeInv'
    BY <2>1 DEF ShapeInv
  <2>2. ASSUME NEW t \in Threads, NEW i, StackedIfNew(i), log' = log,
               info' = [info EXCEPT ![t] = i]
        PROVE  ShapeInv'
    BY <2>2 DEF ShapeInv, TypeOK, InterceptTypeOK
  <2>3. ASSUME NEW t \in Threads, Request(t) PROVE ShapeInv'
    <3>1. PICK op, old, new, size :
            /\ info' = [info EXCEPT ![t] = Info(op, old, new, size)] /\ log' = log
            /\ op \in AllocOps \/ new = NULL
      BY <2>3 DEF Request, do_malloc, do_realloc, do_free, atexit_trap, Called, AllocOps
    <3>2. StackedIfNew(Info(op, old, new, size))
      BY <3>1 DEF StackedIfNew, Info
    <3> QED BY <2>2, <3>1, <3>2
  <2>4. ASSUME NEW t \in Threads, TakeSeqno(t) PROVE ShapeInv'
    <3> DEFINE e == [info[t] EXCEPT !.seqno = seqno]
    <3>1. StackedIfNew(e)
      <4>1. e.operation = info[t].operation /\ e.new_ptr = info[t].new_ptr
        BY DEF TypeOK, InterceptTypeOK, MIInfo
      <4> QED BY <4>1 DEF ShapeInv, StackedIfNew
    <3>2. /\ Len(log') = Len(log) + 1 /\ log'[Len(log) + 1] = e
          /\ \A k \in 1..Len(log) : log'[k] = log[k]
          /\ info' = [info EXCEPT ![t] = e] /\ Len(log) \in Nat
      BY <2>4, LogFacts, NumberTypes
    <3> HIDE DEF e
    <3> QED BY <3>1, <3>2 DEF ShapeInv, TypeOK, InterceptTypeOK
  <2> QED BY <1>2, <2>1, <2>3, <2>4
          DEF Client, InterceptNext, CallStep, mi_tracing, Elide, new_process,
          ConnectError, Response, WriteInfo, WriteFrames, WriteFails, exit_wait, Exited, Die
<1> QED BY <1>1, <1>2 DEF Next

LEMMA InfoOfPart ==
  ASSUME NEW w \in Seq(Parts), NEW k \in 1..Len(w)
  PROVE  w[k].info \in MIInfo
<1>1. w[k] \in Parts
  OBVIOUS
<1> QED BY <1>1 DEF Parts

\* The library sends what it has logged.
LEMMA DeliveredClient ==
  ASSUME TypeOK, TypeOK', Placed, Delivered, InterceptNext, UNCHANGED processVars
  PROVE  Delivered'
<1>0. UNCHANGED <<command_queue, srv, cmd>> /\ [Next]_vars
  BY DEF processVars, blockVars, srvVars, Next, Client
<1>1. \A i \in MIInfo : Logged(i) => Logged(i)'
  BY <1>0, StillLogged
<1>2. /\ srv' = "frames" => Logged(cmd)'
      /\ \A c \in command_queue' : Logged(c.info)' /\ OwnStack(c.info, c.stack)'
  <2>1. cmd \in MIInfo /\ \A c \in command_queue : c.info \in MIInfo
    BY DEF TypeOK, ProcessTypeOK, Commands
  <2>2. alive' => alive
    BY WireAssumption, FdForward
  <2> QED BY <1>0, <1>1, <2>1, <2>2 DEF Delivered, OwnStack
<1>3. ASSUME NEW u \in Threads, wire'[u] = wire[u]
      PROVE  WireLogged(wire[u])'
  <2>1. \A k \in 1..Len(wire[u]) : wire[u][k].info \in MIInfo
    BY InfoOfPart DEF TypeOK, WireTypeOK
  <2> QED BY <1>1, <1>3, <2>1 DEF Delivered, WireLogged
<1>4. ASSUME NEW u \in Threads, NEW p \in Parts, wire'[u] = Append(wire[u], p),
             p.part = "info" => Logged(p.info)
      PROVE  WireLogged(wire[u])'
  <2>1. wire[u] \in Seq(Parts) /\ p.info \in MIInfo
    BY DEF TypeOK, WireTypeOK, Parts
  <2>2. \A k \in 1..Len(wire[u]) : wire[u][k].info \in MIInfo
    BY <2>1, InfoOfPart
  <2>3. /\ Len(wire'[u]) = Len(wire[u]) + 1 /\ wire'[u][Len(wire[u]) + 1] = p
        /\ \A k \in 1..Len(wire[u]) : wire'[u][k] = wire[u][k]
        /\ Len(wire[u]) \in Nat
    BY <1>4, <2>1, AppendFacts
  <2> QED BY <1>1, <1>4, <2>1, <2>2, <2>3 DEF Delivered, WireLogged
<1>5. ASSUME NEW u \in Threads, info'[u] = info[u],
             pc'[u] \in {"numbered", "await", "frames"}
               => pc[u] \in {"numbered", "await", "frames"}
      PROVE  pc'[u] \in {"numbered", "await", "frames"} => Logged(info[u])'
  BY <1>1, <1>5 DEF Delivered, TypeOK, InterceptTypeOK
<1>6. CASE Die
  BY <1>2, <1>3, <1>5, <1>6 DEF Die, Delivered
<1>7. ASSUME NEW t \in Threads, CallStep(t) \/ Request(t) PROVE Delivered'
  <2>1. ASSUME NEW u \in Threads, u # t
        PROVE  wire'[u] = wire[u] /\ pc'[u] = pc[u] /\ info'[u] = info[u]
    <3> USE <2>1 DEF TypeOK, WireTypeOK, InterceptTypeOK, wireVars
    <3>1. CASE Request(t)
      BY <3>1 DEF Request, do_malloc, do_realloc, do_free, atexit_trap, Called
    <3>2. CASE mi_tracing(t) \/ Elide(t) \/ TakeSeqno(t) \/ Exited(t)
      BY <3>2 DEF mi_tracing, Elide, TakeSeqno, Exited
    <3>3. CASE new_process(t) \/ WriteInfo(t) \/ WriteFrames(t)
      BY <3>3 DEF new_process, WriteInfo, WriteFrames, Sent
    <3>4. CASE ConnectError(t) \/ Response(t) \/ WriteFails(t) \/ exit_wait(t)
      BY <3>4 DEF ConnectError, Response, WriteFails, exit_wait
    <3> QED
      BY <1>7, <3>1, <3>2, <3>3, <3>4 DEF CallStep
  <2>2. CASE Request(t) \/ mi_tracing(t) \/ Elide(t) \/ Exited(t)
    <3>1. wire' = wire /\ pc'[t] \notin {"numbered", "await", "frames"}
      BY <2>2 DEF Request, mi_tracing, Elide, Exited, do_malloc, do_realloc, do_free,
         atexit_trap, Called, wireVars, TypeOK, InterceptTypeOK
    <3> QED BY <1>2, <1>3, <1>5, <2>1, <3>1 DEF Delivered
  <2>3. CASE TakeSeqno(t)
    <3> DEFINE e == [info[t] EXCEPT !.seqno = seqno]
    <3>1. /\ e \in MIInfo /\ Len(log') = Len(log) + 1 /\ log'[Len(log) + 1] = e
          /\ info'[t] = e /\ e.seqno = Len(log) /\ Len(log) \in Nat /\ wire' = wire
      <4>1. e \in MIInfo /\ Len(log') = Len(log) + 1 /\ log'[Len(log) + 1] = e
        BY <2>3, LogFacts
      <4>2. info'[t] = e /\ e.seqno = seqno
        BY <2>3 DEF TypeOK, InterceptTypeOK, MIInfo, TakeSeqno
      <4>3. seqno = Len(log) /\ Len(log) \in Nat
        BY NumberTypes DEF Placed, TypeOK, InterceptTypeOK
      <4> QED BY <2>3, <4>1, <4>2, <4>3 DEF TakeSeqno, wireVars
    <3> HIDE DEF e
    <3>2. Logged(info[t])'
      BY <3>1 DEF Logged
    <3> QED BY <1>2, <1>3, <1>5, <2>1, <3>1, <3>2 DEF Delivered
  <2>4. CASE new_process(t) \/ WriteInfo(t) \/ WriteFrames(t)
    <3>1. /\ info' = info
          /\ pc[t] \in {"numbered", "frames"}
      BY <2>4 DEF new_process, WriteInfo, WriteFrames
    <3>2. Logged(info[t]) /\ info[t] \in MIInfo
      BY <3>1 DEF Delivered, TypeOK, InterceptTypeOK
    <3>3. PICK p \in Parts : wire'[t] = Append(wire[t], p) /\ (p.part = "info" => p.info = info[t])
      BY <2>4, <3>2, PartTypes
         DEF new_process, WriteInfo, WriteFrames, Sent, Hello, Header, Frames, TypeOK, WireTypeOK
    <3> QED BY <1>2, <1>3, <1>4, <1>5, <2>1, <3>1, <3>2, <3>3 DEF Delivered
  <2>5. CASE ConnectError(t) \/ Response(t) \/ WriteFails(t) \/ exit_wait(t)
    <3>1. /\ UNCHANGED <<wire, info>>
          /\ pc'[t] \in {"numbered", "await", "frames"}
               => pc[t] \in {"numbered", "await", "frames"}
      BY <2>5 DEF ConnectError, Response, WriteFails, exit_wait, TypeOK, InterceptTypeOK
    <3> QED BY <1>2, <1>3, <1>5, <2>1, <3>1 DEF Delivered
  <2> QED BY <1>7, <2>2, <2>3, <2>4, <2>5 DEF CallStep
<1> QED BY <1>6, <1>7 DEF InterceptNext

\* What process_command is called with.
LEMMA Commanded ==
  ASSUME TypeOK, ConnInv, WireInv, ReadInv, HoldInv, Delivered,
         ReadFrames \/ FramesEOF \/ (\E t \in Threads : ReadExit(t))
  PROVE  \E i \in MIInfo, stack \in Stacks :
           process_command(i, stack) /\ Logged(i) /\ OwnStack(i, stack)
<1>0. cmd \in MIInfo /\ reading \in Threads /\ NULL \in Stacks
  BY DEF TypeOK, ProcessTypeOK, Stacks
<1>1. CASE ReadFrames
  <2>1. /\ srv = "frames" /\ wire[reading] # <<>>
        /\ process_command(cmd, Head(wire[reading]).info.seqno)
    BY <1>1 DEF ReadFrames
  <2>2. Head(wire[reading]) = Frames(cmd)
    BY <1>0, <2>1, TailFacts DEF WireInv, WireOf, WaitsFor, TypeOK, WireTypeOK
  <2>3. Head(wire[reading]).info.seqno = cmd.seqno /\ cmd.seqno \in Stacks
    BY <1>0, <2>2 DEF Frames, MIInfo, Stacks
  <2> QED BY <1>0, <2>1, <2>3 DEF Delivered, OwnStack
<1>2. CASE FramesEOF
  <2>1. /\ memprof = "up" /\ srv = "frames" /\ fd[reading] # "open" /\ wire[reading] = <<>>
        /\ process_command(cmd, NULL)
    BY <1>2 DEF FramesEOF, AtEOF
  <2>2. ~alive
    BY <1>0, <2>1 DEF HoldInv, HoldOf, Owed, WaitsFor
  <2> QED BY <1>0, <2>1, <2>2 DEF Delivered, OwnStack
<1>3. ASSUME NEW t \in Threads, ReadExit(t)
      PROVE  \E i \in MIInfo, stack \in Stacks :
               process_command(i, stack) /\ Logged(i) /\ OwnStack(i, stack)
  <2>1. /\ srv = "loop" /\ status[t] # "INIT" /\ wire[t] # <<>>
        /\ process_command(Head(wire[t]).info, NULL)
        /\ Head(wire[t]).info.operation = "MI_EXIT"
    BY <1>3 DEF ReadExit, Loop, Watched
  <2>2. Head(wire[t]).part = "info" /\ Head(wire[t]).info \in MIInfo
    BY <2>1, HeadIsReport DEF Parts
  <2>3. Logged(Head(wire[t]).info)
    BY <2>1, <2>2, TailFacts DEF Delivered, WireLogged, TypeOK, WireTypeOK
  <2> QED BY <1>0, <2>1, <2>2, <2>3 DEF OwnStack, AllocOps
<1> QED BY <1>1, <1>2, <1>3

\* memprof reads what was sent, and queues it with its own stack.
LEMMA DeliveredServer ==
  ASSUME TypeOK, ConnInv, WireInv, ReadInv, HoldInv, Delivered, ProcessNext,
         UNCHANGED localVars
  PROVE  Delivered'
<1>0. UNCHANGED <<pc, info, log, alive>>
  BY DEF localVars
<1>1. \A i : (Logged(i) => Logged(i)') /\ \A stack : OwnStack(i, stack) => OwnStack(i, stack)'
  BY <1>0 DEF Logged, OwnStack
<1>2. ASSUME \A t \in Threads : WireLogged(wire[t])',
             srv' = "frames" => Logged(cmd'),
             \A c \in command_queue' : Logged(c.info) /\ OwnStack(c.info, c.stack)
      PROVE  Delivered'
  BY <1>0, <1>1, <1>2 DEF Delivered, Logged, OwnStack
<1>3. ASSUME NEW t \in Threads, wire'[t] \in {wire[t], <<>>} PROVE WireLogged(wire[t])'
  BY <1>0, <1>3 DEF Delivered, WireLogged, Logged
<1>4. ASSUME NEW t \in Threads, wire[t] # <<>>, Took(t)
      PROVE  \A u \in Threads : WireLogged(wire[u])'
  <2>1. /\ wire[t] \in Seq(Parts) /\ wire'[t] = Tail(wire[t])
        /\ \A u \in Threads : u # t => wire'[u] = wire[u]
    BY <1>4 DEF Took, TypeOK, WireTypeOK
  <2>2. WireLogged(wire[t])'
    BY <1>0, <1>4, <2>1, TailFacts DEF Delivered, WireLogged, Logged
  <2> QED BY <1>3, <2>1, <2>2
<1>5. CASE ReadFrames \/ FramesEOF \/ (\E t \in Threads : ReadExit(t))
  <2>1. PICK i \in MIInfo, stack \in Stacks :
          process_command(i, stack) /\ Logged(i) /\ OwnStack(i, stack)
    BY <1>5, Commanded
  <2>2. srv' # "frames"
    BY <2>1, CommandEndsWait
  <2>3. command_queue' \in {command_queue, command_queue \cup {[info |-> i, stack |-> stack]}}
    BY <2>1 DEF process_command, queue_command
  <2>4. \A t \in Threads : WireLogged(wire[t])'
    <3>1. CASE ReadFrames
      BY <1>4, <3>1 DEF ReadFrames, TypeOK, ProcessTypeOK
    <3>2. CASE FramesEOF
      BY <1>3, <3>2 DEF FramesEOF, wireVars
    <3>3. ASSUME NEW t \in Threads, ReadExit(t) PROVE \A u \in Threads : WireLogged(wire[u])'
      BY <1>4, <3>3 DEF ReadExit
    <3> QED BY <1>5, <3>1, <3>2, <3>3
  <2> QED BY <1>2, <2>1, <2>2, <2>3, <2>4 DEF Delivered
<1>6. CASE unqueue_command
  <2>1. UNCHANGED wire /\ srv' = "drain" /\ command_queue' \subseteq command_queue
    BY <1>6 DEF unqueue_command, wireVars, Apply
  <2> QED BY <1>2, <1>3, <2>1 DEF Delivered
<1>7. ASSUME NEW t \in Threads, input_func(t) PROVE Delivered'
  <2>1. /\ srv = "loop" /\ status[t] # "INIT" /\ wire[t] # <<>> /\ Took(t)
        /\ cmd' = Head(wire[t]).info /\ UNCHANGED command_queue
    BY <1>7 DEF input_func, Loop, Watched, blockVars
  <2>2. Logged(Head(wire[t]).info)
    BY <2>1, HeadIsReport, TailFacts DEF Delivered, WireLogged, TypeOK, WireTypeOK
  <2> QED BY <1>2, <1>4, <2>1, <2>2 DEF Delivered
<1>8. ASSUME NEW t \in Threads, control_func(t) PROVE Delivered'
  <2>1. wire[t] # <<>> /\ Took(t) /\ srv = "loop" /\ srv' = "loop" /\ UNCHANGED command_queue
    BY <1>8 DEF control_func, Loop, srvVars, blockVars
  <2> QED BY <1>2, <1>4, <2>1 DEF Delivered
<1>9. CASE process_detach
  <2>1. /\ srv = "loop" /\ srv' = "loop" /\ UNCHANGED command_queue
        /\ \A t \in Threads : wire'[t] \in {wire[t], <<>>}
    BY <1>9 DEF process_detach, Loop, srvVars, blockVars, TypeOK, WireTypeOK
  <2> QED BY <1>2, <1>3, <2>1 DEF Delivered
<1>10. ASSUME UNCHANGED <<wire, command_queue, cmd>>, srv' \in {srv, "loop"} PROVE Delivered'
  BY <1>2, <1>3, <1>10 DEF Delivered
<1>11. CASE \/ QueueDone \/ process_clear_input \/ record_button_toggled_cb \/ Quit
            \/ \E t \in Threads : CloneOfNobody(t) \/ InputEOF(t) \/ AnswerNobody(t)
  BY <1>10, <1>11
     DEF QueueDone, process_clear_input, record_button_toggled_cb, Quit, CloneOfNobody,
         InputEOF, AnswerNobody, Ends, wireVars, blockVars, srvVars, processVars
<1> QED BY <1>5, <1>6, <1>7, <1>8, <1>9, <1>11 DEF ProcessNext, ServerStep, UserStep

\* What a step of memprof's does to the table: nothing, or the user empties it,
\* or the report that is due is applied, with its own stack.
LEMMA ServerApplies ==
  ASSUME TypeOK, ConnInv, WireInv, ReadInv, HoldInv, Delivered, ProcessNext
  PROVE  \/ UNCHANGED <<pseqno, block_table>>
         \/ pseqno' = pseqno /\ block_table' = Empty /\ "reset" \in Clicks
         \/ \E i \in MIInfo, stack \in Stacks :
              Apply(i, stack) /\ i.seqno = pseqno /\ Logged(i) /\ OwnStack(i, stack)
<1>1. CASE ReadFrames \/ FramesEOF \/ (\E t \in Threads : ReadExit(t))
  <2>1. PICK i \in MIInfo, stack \in Stacks :
          process_command(i, stack) /\ Logged(i) /\ OwnStack(i, stack)
    BY <1>1, Commanded
  <2> QED BY <2>1 DEF process_command, queue_command
<1>2. CASE unqueue_command
  <2>1. PICK c \in command_queue : c.info.seqno = pseqno /\ Apply(c.info, c.stack)
    BY <1>2 DEF unqueue_command
  <2>2. c.info \in MIInfo /\ c.stack \in Stacks
    BY DEF TypeOK, ProcessTypeOK, Commands
  <2> QED BY <2>1, <2>2 DEF Delivered
<1>3. CASE process_clear_input
  BY <1>3 DEF process_clear_input
<1>4. CASE \/ QueueDone \/ record_button_toggled_cb \/ Quit \/ process_detach
           \/ \E t \in Threads : \/ control_func(t) \/ input_func(t) \/ CloneOfNobody(t)
                                 \/ InputEOF(t) \/ AnswerNobody(t)
  BY <1>4 DEF QueueDone, record_button_toggled_cb, Quit, process_detach, control_func,
     input_func, CloneOfNobody, InputEOF, AnswerNobody, Ends, processVars, blockVars
<1> QED BY <1>1, <1>2, <1>3, <1>4 DEF ProcessNext, ServerStep, UserStep

-----------------------------------------------------------------------------
(* The blocks in the table are the ones the log says.                      *)

LEMMA ApplyReported ==
  ASSUME TypeOK, ShapeInv, TableReported, NEW i \in MIInfo, NEW stack \in Stacks,
         Apply(i, stack), Logged(i), OwnStack(i, stack), UNCHANGED <<log, alive>>
  PROVE  TableReported'
<1> DEFINE new == [size |-> i.size % ByteMod, stack |-> stack]
<1>1. SUFFICES ASSUME NEW a \in DOMAIN block_table' PROVE Reported(a, block_table[a])'
  BY DEF TableReported
<1>2. \/ a \in DOMAIN block_table /\ block_table'[a] = block_table[a]
      \/ a = i.new_ptr /\ a # NULL /\ block_table'[a] = new
  BY DEF Apply, Adds, Without, Insert, Delete
<1>3. CASE a \in DOMAIN block_table /\ block_table'[a] = block_table[a]
  <2>1. Reported(a, block_table[a])
    BY <1>3 DEF TableReported
  <2> QED BY <1>3, <2>1 DEF Reported
<1>4. CASE a = i.new_ptr /\ a # NULL /\ block_table'[a] = new
  <2>1. i.seqno \in Nat /\ i = log[i.seqno + 1] /\ i.seqno < Len(log) /\ Len(log) \in Nat
    BY NumberTypes DEF Logged, MIInfo
  <2>2. i.operation \in AllocOps
    BY <1>4, <2>1 DEF ShapeInv, StackedIfNew
  <2>3. stack = i.seqno \/ (stack = NULL /\ ~alive)
    BY <2>2 DEF OwnStack
  <2>4. i.seqno # NULL
    BY <2>1, WireAssumption
  <2>5. block_table'[a].stack = stack /\ block_table'[a].size = i.size % ByteMod
    BY <1>4
  <2> HIDE DEF new
  <2> QED BY <1>4, <2>1, <2>3, <2>4, <2>5 DEF Reported
<1> QED BY <1>2, <1>3, <1>4

LEMMA ReportedStep ==
  ASSUME TypeOK, ConnInv, WireInv, ReadInv, HoldInv, ShapeInv, Delivered, TableReported,
         [Next]_vars
  PROVE  TableReported'
<1>1. CASE Server
  <2>1. UNCHANGED <<log, alive>>
    BY <1>1 DEF Server, localVars
  <2>2. CASE UNCHANGED <<pseqno, block_table>>
    BY <2>1, <2>2 DEF TableReported, Reported
  <2>3. CASE block_table' = Empty
    BY <2>3 DEF TableReported, Empty
  <2>4. ASSUME NEW i \in MIInfo, NEW stack \in Stacks, Apply(i, stack), Logged(i),
               OwnStack(i, stack)
        PROVE  TableReported'
    BY <2>1, <2>4, ApplyReported
  <2> QED BY <1>1, <2>2, <2>3, <2>4, ServerApplies DEF Server
<1>2. CASE Client \/ UNCHANGED vars
  <2>1. block_table' = block_table /\ (alive' => alive)
    BY <1>2, WireAssumption, FdForward
       DEF Client, vars, processVars, blockVars, localVars
  <2>2. \A a \in DOMAIN block_table : block_table[a].stack \in Stacks
    BY DEF TypeOK, ProcessTypeOK, Blocks
  <2>3. ASSUME NEW a \in DOMAIN block_table PROVE Reported(a, block_table[a])'
    <3>1. Reported(a, block_table[a])
      BY DEF TableReported
    <3>2. CASE block_table[a].stack = NULL
      BY <2>1, <3>1, <3>2 DEF Reported
    <3>3. CASE block_table[a].stack \in Nat
      <4>1. block_table[a].stack # NULL
        BY <3>3, WireAssumption
      <4>2. block_table[a].stack + 1 \in 1..Len(log)
        BY <3>1, <3>3, <4>1, LogKeeps DEF Reported
      <4> QED BY <2>1, <3>1, <3>3, <4>1, <4>2, LogKeeps DEF Reported
    <3> QED BY <2>2, <3>2, <3>3 DEF Stacks
  <2> QED BY <2>1, <2>3 DEF TableReported
<1> QED BY <1>1, <1>2 DEF Next

LEMMA LogInit == Init => LogInv
<1> SUFFICES ASSUME Init PROVE LogInv
  OBVIOUS
<1>1. /\ \A t \in Threads : pc[t] = "run" /\ wire[t] = <<>>
      /\ command_queue = {} /\ srv = "loop" /\ DOMAIN block_table = {}
  BY DEF Init, WireInit, InterceptInit, ProcessInit, Empty
<1> QED BY <1>1 DEF LogInv, Delivered, WireLogged, TableReported

LEMMA LogStep ==
  ASSUME TypeOK, TypeOK', OrderInv, HoldInv, ShapeInv, LogInv, [Next]_vars
  PROVE  LogInv'
<1> SUFFICES ASSUME NoWrap' PROVE Delivered' /\ TableReported'
  BY DEF LogInv
<1>1. NoWrap
  BY LogKeeps, WireAssumption DEF NoWrap
<1>2. Delivered /\ TableReported /\ Placed
  BY <1>1 DEF LogInv, OrderInv, NumberInv
<1>3. TableReported'
  BY <1>2, ReportedStep DEF OrderInv
<1>4. CASE Client
  BY <1>2, <1>3, <1>4, DeliveredClient DEF Client
<1>5. CASE Server
  BY <1>2, <1>3, <1>5, DeliveredServer DEF Server, OrderInv
<1>6. CASE UNCHANGED vars
  BY <1>2, <1>3, <1>6 DEF vars, wireVars, localVars, processVars, blockVars, srvVars,
     Delivered, WireLogged, Logged, OwnStack
<1> QED BY <1>3, <1>4, <1>5, <1>6 DEF Next

\* Every report between the wrapper and the table is the one the log has at its
\* number, and its frames are its own or lost with the program.
THEOREM LogKept == Spec => [](ShapeInv /\ LogInv)
<1>1. TypeOK /\ TypeOK' /\ OrderInv /\ HoldInv /\ ShapeInv /\ LogInv /\ [Next]_vars
        => ShapeInv' /\ LogInv'
  BY LogStep, ShapeStep
<1> QED BY <1>1, ShapeInit, LogInit, HoldKept, OrderKept, TypeCorrect, PTL DEF Spec

\* The stack and the size shown for a block are those of the report that allocated
\* it, for any number of threads whose two-part reports arrive in any order; a
\* stack is missing only when the program died between the parts.
THEOREM StacksAreOwn == Spec => []StackIsAllocators
<1>1. LogInv => StackIsAllocators
  BY DEF LogInv, TableReported, Reported, StackIsAllocators
<1> QED BY <1>1, LogKept, PTL

-----------------------------------------------------------------------------
(* Tracing implements ReplayLog.                                           *)

\* process_command's remove-then-insert is ReplayLog's effect of a report.
LEMMA ApplyIsEffect ==
  ASSUME TypeOK, NEW i \in MIInfo, NEW stack, NEW given, Apply(i, given),
         i.new_ptr # NULL => stack = given
  PROVE  block_table' = Replay!Effect(i, stack)
<1>1. NULL \notin DOMAIN block_table
  BY WireAssumption DEF TypeOK, ProcessTypeOK
<1>2. DOMAIN Without(i) = Replay!Kept(i)
      /\ \A a \in Replay!Kept(i) : Without(i)[a] = block_table[a]
  BY <1>1 DEF Without, Removes, Has, Delete, Replay!Kept
<1>3. CASE Adds(i)
  <2>1. block_table' = Insert(Without(i), i.new_ptr, [size |-> i.size % ByteMod, stack |-> given])
        /\ i.new_ptr # NULL /\ i.new_ptr \notin Replay!Kept(i) /\ stack = given
    BY <1>2, <1>3 DEF Apply, Adds, Has
  <2> HIDE DEF Replay!Kept
  <2> QED BY <1>2, <2>1 DEF Insert, Replay!Effect
<1>4. CASE ~Adds(i)
  <2>1. block_table' = Without(i) /\ (i.new_ptr = NULL \/ i.new_ptr \in Replay!Kept(i))
    BY <1>2, <1>4 DEF Apply, Adds, Has
  <2>2. Without(i) = [a \in Replay!Kept(i) |-> block_table[a]]
    <3>1. Without(i) = [a \in DOMAIN Without(i) |-> Without(i)[a]]
      <4>1. block_table = [a \in DOMAIN block_table |-> block_table[a]]
        BY DEF TypeOK, ProcessTypeOK
      <4> QED BY <4>1 DEF Without, Delete
    <3> HIDE DEF Without, Replay!Kept
    <3> QED BY <1>2, <3>1
  <2>3. Replay!Kept(i) \cup ({i.new_ptr} \ {NULL}) = Replay!Kept(i)
    BY <2>1
  <2> QED BY <2>1, <2>2, <2>3 DEF Replay!Effect
<1> QED BY <1>3, <1>4

LEMMA ApplyReplays ==
  ASSUME TypeOK, ShapeInv, NoWrap, NEW i \in MIInfo, NEW given \in Stacks, Apply(i, given),
         i.seqno = pseqno, Logged(i), OwnStack(i, given), UNCHANGED <<log, alive>>
  PROVE  Replay!Replay
<1>1. /\ pseqno \in Nat /\ Len(log) \in Nat /\ pseqno < Len(log) /\ SeqMod \in Nat
      /\ Len(log) < SeqMod /\ i = log[pseqno + 1]
  BY NumberTypes DEF Logged, NoWrap
<1>2. pseqno' = pseqno + 1
  <2>1. pseqno' = (pseqno + 1) % SeqMod
    BY DEF Apply
  <2> QED BY <1>1, <2>1
<1>3. PICK stack : /\ stack = pseqno \/ (stack = NULL /\ ~alive)
                   /\ i.new_ptr # NULL => stack = given
  <2>1. CASE i.new_ptr # NULL
    BY <1>1, <2>1 DEF OwnStack, ShapeInv, StackedIfNew
  <2>2. CASE i.new_ptr = NULL
    BY <2>2
  <2> QED BY <2>1, <2>2
<1>4. block_table' = Replay!Effect(log[pseqno + 1], stack)
  BY <1>1, <1>3, ApplyIsEffect
<1> QED BY <1>1, <1>2, <1>3, <1>4 DEF Replay!Replay

LEMMA ReplayStep ==
  ASSUME TypeOK, OrderInv, HoldInv, ShapeInv, LogInv, NoWrap, [Next]_vars
  PROVE  [Replay!Issue \/ Replay!Replay \/ Replay!Clear \/ Replay!End]_
           <<log, pseqno, block_table, alive>>
<1>1. CASE Client
  <2>1. UNCHANGED <<pseqno, block_table>>
    BY <1>1 DEF Client, processVars, blockVars
  <2>2. \/ UNCHANGED <<log, alive>>
        \/ log' = log /\ alive' = FALSE
        \/ alive /\ alive' = alive /\ \E t \in Threads : TakeSeqno(t)
    <3>1. ASSUME NEW t \in Threads, Request(t)
          PROVE  UNCHANGED <<log, alive>>
      BY <3>1 DEF Request, do_malloc, do_realloc, do_free, atexit_trap, Called
    <3>2. ASSUME NEW t \in Threads, CallStep(t), ~TakeSeqno(t)
          PROVE  UNCHANGED <<log, alive>> \/ (log' = log /\ alive' = FALSE)
      BY <3>2 DEF CallStep, mi_tracing, Elide, new_process, ConnectError, Response, WriteInfo, WriteFrames,
         WriteFails, exit_wait, Exited, Die, Gone
    <3>3. Die => log' = log /\ alive' = FALSE
      BY DEF Die, Gone
    <3>4. ASSUME NEW t \in Threads, TakeSeqno(t)
          PROVE  alive /\ alive' = alive
      BY <3>4 DEF TakeSeqno
    <3> QED BY <1>1, <3>1, <3>2, <3>3, <3>4 DEF Client, InterceptNext, CallStep
  <2>3. ASSUME NEW t \in Threads, TakeSeqno(t)
        PROVE  Len(log') = Len(log) + 1 /\ \A k \in 1..Len(log) : log'[k] = log[k]
    BY <2>3, LogFacts
  <2> QED BY <2>1, <2>2, <2>3 DEF Replay!Issue, Replay!End
<1>2. CASE Server
  <2>1. UNCHANGED <<log, alive>>
    BY <1>2 DEF Server, localVars
  <2>2. block_table' = Empty /\ pseqno' = pseqno => Replay!Clear
    BY <2>1 DEF Replay!Clear, Empty
  <2>3. ProcessNext
    BY <1>2 DEF Server
  <2>4. Delivered /\ ConnInv /\ WireInv /\ ReadInv
    BY DEF LogInv, OrderInv
  <2>5. \/ UNCHANGED <<pseqno, block_table>>
        \/ pseqno' = pseqno /\ block_table' = Empty
        \/ \E i \in MIInfo, given \in Stacks :
             Apply(i, given) /\ i.seqno = pseqno /\ Logged(i) /\ OwnStack(i, given)
    BY <2>3, <2>4, ServerApplies
  <2>6. ASSUME NEW i \in MIInfo, NEW given \in Stacks,
               Apply(i, given), i.seqno = pseqno, Logged(i), OwnStack(i, given)
        PROVE  Replay!Replay
    BY <2>1, <2>6, ApplyReplays
  <2> QED BY <2>1, <2>2, <2>5, <2>6
<1>3. CASE UNCHANGED vars
  BY <1>3 DEF vars, localVars, processVars, blockVars
<1> QED BY <1>1, <1>2, <1>3 DEF Next

\* While fewer reports are numbered than the counter has values, memprof's side is
\* a replay of the log: whatever the interleaving of threads, sockets, resets and
\* death, each report is applied once, in order, with its own stack.
THEOREM TracingReplays == Spec /\ []NoWrap => ReplaysTheLog
<1>1. Init => Replay!Init
  BY DEF Init, InterceptInit, ProcessInit, Empty, Replay!Init
<1>2. TypeOK /\ OrderInv /\ HoldInv /\ ShapeInv /\ LogInv /\ NoWrap /\ [Next]_vars
        => [Replay!Issue \/ Replay!Replay \/ Replay!Clear \/ Replay!End]_
             <<log, pseqno, block_table, alive>>
  BY ReplayStep
<1> QED BY <1>1, <1>2, LogKept, HoldKept, OrderKept, TypeCorrect, PTL
        DEF Spec, ReplaysTheLog, Replay!Spec

-----------------------------------------------------------------------------
(* With one thread the table catches up with the heap.                     *)

\* What a report does to a table of sizes.
Resized(i, sizes) ==
  [a \in (DOMAIN sizes \ {i.old_ptr}) \cup ({i.new_ptr} \ {NULL}) |->
     IF a \in DOMAIN sizes \ {i.old_ptr} THEN sizes[a] ELSE i.size % ByteMod]

\* The sizes in the table lead, through the reports that are numbered and not
\* yet applied, to those in the heap; the report of a call that has reached the C
\* library and has no number yet is the last of them.
Leads(T) ==
  /\ T[pseqno] = TableSizes
  /\ \A k \in pseqno .. (Len(log) - 1) : T[k + 1] = Resized(log[k + 1], T[k])
  /\ HeapSizes = IF pc[Main] \in {"called", "backtrace"}
                 THEN Resized(info[Main], T[Len(log)]) ELSE T[Len(log)]

CatchesUp ==
  NoWrap /\ Attached =>
    /\ tracing \/ pc[Main] = "exited"
    /\ \E T : Leads(T)

LEMMA ApplyResizes ==
  ASSUME TypeOK, NEW i \in MIInfo, NEW stack, Apply(i, stack)
  PROVE  TableSizes' = Resized(i, TableSizes)
<1>1. block_table' = Replay!Effect(i, stack)
  BY ApplyIsEffect
<1>2. DOMAIN TableSizes = DOMAIN block_table
      /\ \A a \in DOMAIN block_table : TableSizes[a] = block_table[a].size
  BY DEF TableSizes
<1>3. /\ DOMAIN block_table' = (DOMAIN block_table \ {i.old_ptr}) \cup ({i.new_ptr} \ {NULL})
      /\ \A a \in DOMAIN block_table' :
           block_table'[a].size = IF a \in DOMAIN block_table \ {i.old_ptr}
                                  THEN block_table[a].size ELSE i.size % ByteMod
  BY <1>1 DEF Replay!Effect, Replay!Kept
<1>4. TableSizes' = [a \in DOMAIN block_table' |-> block_table'[a].size]
  BY DEF TableSizes
<1> QED
  BY <1>2, <1>3, <1>4 DEF Resized

\* The C library does to the heap what the wrapper reports.
LEMMA CallResizes ==
  ASSUME TypeOK, "oom" \notin Faults, NEW t \in Threads, Request(t)
  PROVE  HeapSizes' = Resized(info'[t], HeapSizes)
<1>0. /\ NULL \notin DOMAIN heap /\ OOM = {} /\ t \in DOMAIN info
      /\ heap = [a \in DOMAIN heap |-> heap[a]]
  BY WireAssumption DEF TypeOK, InterceptTypeOK, OOM
<1>1. ASSUME NEW p, NEW r, NEW n, heap' = Insert(Delete(heap, p), r, n),
             r \notin DOMAIN heap \ {p}, r # NULL, NEW i, i.old_ptr = p, i.new_ptr = r, i.size = n
      PROVE  HeapSizes' = Resized(i, HeapSizes)
  BY <1>1 DEF HeapSizes, Resized, Insert, Delete
<1>2. ASSUME NEW p, heap' = Delete(heap, p), NEW i, i.old_ptr = p, i.new_ptr = NULL
      PROVE  HeapSizes' = Resized(i, HeapSizes)
  BY <1>2 DEF HeapSizes, Resized, Delete
<1>3. Delete(heap, NULL) = heap
  BY <1>0 DEF Delete
<1>4. CASE do_malloc(t)
  <2>1. PICK n \in Sizes, p \in Fresh :
          heap' = Insert(heap, p, n) /\ info'[t] = Info("MI_MALLOC", NULL, p, n)
    BY <1>0, <1>4, WireAssumption DEF do_malloc, Called, Fresh
  <2> QED
    BY <1>1, <1>3, <2>1, WireAssumption DEF Fresh, Info
<1>5. CASE do_realloc(t)
  <2>1. PICK p \in Usable \cup {NULL}, n \in Sizes, r \in Pointers :
          old_realloc(p, n, r) /\ info'[t] = Info("MI_REALLOC", p, r, n)
    BY <1>0, <1>5 DEF do_realloc, Called
  <2>2. CASE r = NULL /\ heap' = Delete(heap, p)
    BY <1>2, <2>1, <2>2 DEF Info
  <2>3. CASE r \in Fresh \cup ({p} \ {NULL}) /\ heap' = Insert(Delete(heap, p), r, n)
    <3>1. r # NULL /\ r \notin DOMAIN heap \ {p}
      BY <2>3, WireAssumption DEF Fresh
    <3> QED
      BY <1>1, <2>1, <2>3, <3>1 DEF Info
  <2> QED
    BY <1>0, <2>1, <2>2, <2>3 DEF old_realloc
<1>6. CASE do_free(t)
  <2>1. PICK p : heap' = Delete(heap, p) /\ info'[t] = Info("MI_FREE", p, NULL, 0)
    BY <1>0, <1>6 DEF do_free, Called
  <2> QED
    BY <1>2, <2>1 DEF Info
<1>7. CASE atexit_trap(t)
  <2>1. heap' = Delete(heap, NULL) /\ info'[t] = Info("MI_EXIT", NULL, NULL, 0)
    BY <1>0, <1>3, <1>7 DEF atexit_trap
  <2> QED
    BY <1>2, <2>1 DEF Info
<1> QED
  BY <1>4, <1>5, <1>6, <1>7 DEF Request

\* While memprof listens to the only thread, its writes do not fail.
LEMMA TracesOn ==
  ASSUME TypeOK, ConnInv, Threads = {Main}, InterceptNext, Attached, Attached',
         tracing \/ pc[Main] = "exited"
  PROVE  tracing' \/ pc'[Main] = "exited"
<1>1. fd[Main] = "open" \/ pc[Main] \in {"closing", "exited"}
  <2>1. fd[Main] \in {"none", "open", "closed"} /\ fd[Main] # "none" /\ ConnOf(Main)
    BY DEF ConnInv, TypeOK, WireTypeOK
  <2> QED
    BY <2>1 DEF ConnOf
<1>2. pc[Main] = "exited" => pc'[Main] = "exited"
  BY DEF InterceptNext, CallStep, Request, mi_tracing, Elide, TakeSeqno, new_process,
     ConnectError, Response, WriteInfo, WriteFrames, WriteFails, exit_wait, Exited, Die,
     do_malloc, do_realloc, do_free, atexit_trap, Called, Ready
<1>3. CASE ~ (\E t \in Threads : ConnectError(t) \/ Response(t) \/ WriteFails(t) \/ Exited(t))
  <2>1. tracing' = tracing
    BY <1>3 DEF InterceptNext, CallStep, Request, mi_tracing, Elide, TakeSeqno, new_process,
       WriteInfo, WriteFrames, exit_wait, Die, do_malloc, do_realloc, do_free,
       atexit_trap, Called
  <2> QED
    BY <1>2, <2>1
<1>4. CASE ConnectError(Main)
  BY <1>4 DEF ConnectError, Attached
<1>5. CASE Response(Main)
  BY <1>5 DEF Response, ConnInv, ConnOf
<1>6. CASE WriteFails(Main)
  BY <1>1, <1>6 DEF WriteFails, Broken, Attached
<1>7. CASE Exited(Main)
  BY <1>7 DEF Exited, TypeOK, InterceptTypeOK
<1> QED
  BY <1>3, <1>4, <1>5, <1>6, <1>7

LEMMA LeadsClient ==
  ASSUME TypeOK, ShapeInv, Placed, Threads = {Main}, Faults \cap {"oom", "elide"} = {},
         InterceptNext, UNCHANGED processVars, tracing \/ pc[Main] = "exited",
         NEW T, Leads(T)
  PROVE  \E U : Leads(U)'
<1>0. /\ UNCHANGED <<pseqno, block_table>> /\ TableSizes' = TableSizes
      /\ Len(log) \in Nat /\ pseqno \in Nat /\ pseqno <= Len(log) /\ Main \in DOMAIN pc
  BY NumberTypes DEF processVars, blockVars, TableSizes, Placed, TypeOK, InterceptTypeOK
<1>1. CASE Request(Main)
  <2>1. log' = log /\ pc[Main] = "run" /\ pc'[Main] \in {"called", "backtrace"}
    <3>1. log' = log /\ pc[Main] = "run"
      BY <1>1 DEF Request, do_malloc, do_realloc, do_free, atexit_trap, Called, Ready
    <3>2. tracing
      BY <3>1
    <3> QED
      BY <1>0, <1>1, <3>1, <3>2
         DEF Request, do_malloc, do_realloc, do_free, atexit_trap, Called
  <2>2. HeapSizes' = Resized(info'[Main], HeapSizes)
    BY <1>1, CallResizes
  <2> QED
    BY <1>0, <2>1, <2>2 DEF Leads
<1>2. CASE TakeSeqno(Main)
  <2> DEFINE e == [info[Main] EXCEPT !.seqno = seqno]
             n == Len(log)
             U == [k \in 0 .. (n + 1) |-> IF k = n + 1 THEN HeapSizes ELSE T[k]]
  <2>1. /\ Len(log') = n + 1 /\ log'[n + 1] = e /\ \A k \in 1 .. n : log'[k] = log[k]
        /\ pc[Main] = "backtrace" /\ pc'[Main] = "numbered" /\ HeapSizes' = HeapSizes
    BY <1>0, <1>2, LogFacts DEF TakeSeqno, HeapSizes
  <2>2. \A f : Resized(e, f) = Resized(info[Main], f)
    <3>1. /\ e.old_ptr = info[Main].old_ptr /\ e.new_ptr = info[Main].new_ptr
          /\ e.size = info[Main].size
      BY DEF TypeOK, InterceptTypeOK, MIInfo
    <3> HIDE DEF e
    <3> QED
      BY <3>1 DEF Resized
  <2>3. HeapSizes = Resized(e, T[n])
    BY <2>1, <2>2 DEF Leads
  <2>4. n \in Nat /\ \A k \in pseqno .. (n - 1) : k \in 0 .. n /\ k + 1 \in 0 .. n /\ k + 1 \in 1 .. n
    BY <1>0
  <2>5. U[n + 1] = HeapSizes /\ \A k \in 0 .. n : U[k] = T[k]
    BY <2>4
  <2>6. U[pseqno] = TableSizes
    BY <1>0, <2>5 DEF Leads
  <2>7. \A k \in pseqno .. n : U[k + 1] = Resized(log'[k + 1], U[k])
    <3> SUFFICES ASSUME NEW k \in pseqno .. n PROVE U[k + 1] = Resized(log'[k + 1], U[k])
      OBVIOUS
    <3>1. CASE k = n
      BY <2>1, <2>3, <2>4, <2>5, <3>1
    <3>2. CASE k # n
      <4>1. k \in pseqno .. (n - 1)
        BY <1>0, <3>2
      <4>2. T[k + 1] = Resized(log[k + 1], T[k])
        BY <4>1 DEF Leads
      <4> QED
        BY <2>1, <2>4, <2>5, <4>1, <4>2
    <3> QED
      BY <3>1, <3>2
  <2> HIDE DEF U, e
  <2>8. PICK V : V = U
    OBVIOUS
  <2>9. Leads(V)'
    <3>1. Len(log') - 1 = n /\ pc'[Main] \notin {"called", "backtrace"}
      BY <2>1, <2>4
    <3>2. V[pseqno'] = TableSizes'
      BY <1>0, <2>6, <2>8
    <3>3. \A k \in pseqno' .. (Len(log') - 1) : V[k + 1] = Resized(log'[k + 1], V[k])
      BY <1>0, <2>7, <2>8, <3>1
    <3>4. HeapSizes' = V[Len(log')]
      BY <2>1, <2>5, <2>8
    <3> QED
      BY <3>1, <3>2, <3>3, <3>4 DEF Leads, Resized
  <2> QED
    BY <2>9
<1>3. CASE ~Request(Main) /\ ~TakeSeqno(Main)
  <2>1. UNCHANGED <<log, heap, info>>
    BY <1>3 DEF InterceptNext, CallStep, mi_tracing, Elide, new_process, ConnectError, Response,
       WriteInfo, WriteFrames, WriteFails, exit_wait, Exited, Die
  <2>2. pc[Main] \in {"called", "backtrace"} <=> pc'[Main] \in {"called", "backtrace"}
    BY <1>0, <1>3 DEF InterceptNext, CallStep, mi_tracing, Elide, new_process, ConnectError,
       Response, WriteInfo, WriteFrames, WriteFails, exit_wait, Exited, Die
  <2>3. HeapSizes' = HeapSizes
    BY <2>1 DEF HeapSizes
  <2> QED
    BY <1>0, <2>1, <2>2, <2>3 DEF Leads
<1> QED
  BY <1>1, <1>2, <1>3

LEMMA CatchesUpStep ==
  ASSUME TypeOK, OrderInv, HoldInv, ShapeInv, LogInv, CatchesUp, [Next]_vars,
         Threads = {Main}, Faults \cap {"oom", "elide"} = {}, "reset" \notin Clicks
  PROVE  CatchesUp'
<1> SUFFICES ASSUME NoWrap', Attached'
             PROVE  (tracing' \/ pc'[Main] = "exited") /\ \E U : Leads(U)'
  BY DEF CatchesUp
<1>1. CASE UNCHANGED vars
  <2>1. NoWrap /\ Attached
    BY <1>1 DEF vars, wireVars, localVars, NoWrap, Attached
  <2>2. PICK T : Leads(T)
    BY <2>1 DEF CatchesUp
  <2>3. Leads(T)'
    BY <1>1, <2>2 DEF vars, localVars, processVars, blockVars, Leads, TableSizes, HeapSizes
  <2> QED
    BY <1>1, <2>1, <2>3 DEF CatchesUp, vars, localVars
<1>2. CASE Next
  <2>1. NoWrap /\ Attached
    BY <1>2, LogKeeps, AttachedBefore, WireAssumption DEF NoWrap, OrderInv
  <2>2. /\ tracing \/ pc[Main] = "exited"
        /\ Placed /\ Delivered /\ ConnInv /\ WireInv /\ ReadInv
    BY <2>1 DEF CatchesUp, OrderInv, NumberInv, LogInv
  <2>3. PICK T : Leads(T)
    BY <2>1 DEF CatchesUp
  <2>4. CASE Client
    BY <2>1, <2>2, <2>3, <2>4, TracesOn, LeadsClient DEF Client
  <2>5. CASE Server
    <3>1. UNCHANGED <<log, info, pc, tracing>> /\ HeapSizes' = HeapSizes /\ ProcessNext
      BY <2>5 DEF Server, localVars, HeapSizes
    <3>2. CASE UNCHANGED <<pseqno, block_table>>
      <4>1. Leads(T)'
        BY <2>3, <3>1, <3>2 DEF Leads, TableSizes
      <4> QED
        BY <2>2, <3>1, <4>1
    <3>3. ASSUME NEW i \in MIInfo, NEW stack \in Stacks,
                 Apply(i, stack), i.seqno = pseqno, Logged(i)
          PROVE  Leads(T)'
      <4>1. /\ pseqno \in Nat /\ Len(log) \in Nat /\ pseqno < Len(log)
            /\ SeqMod \in Nat /\ Len(log) < SeqMod /\ i = log[pseqno + 1]
        BY <2>1, <3>3, NumberTypes DEF Logged, NoWrap
      <4>2. pseqno' = pseqno + 1
        <5>1. pseqno' = (pseqno + 1) % SeqMod
          BY <3>3 DEF Apply
        <5> QED
          BY <4>1, <5>1
      <4>3. TableSizes' = Resized(i, TableSizes)
        BY <3>3, ApplyResizes
      <4>4. T[pseqno + 1] = TableSizes'
        BY <2>3, <4>1, <4>3 DEF Leads
      <4>5. \A k \in (pseqno + 1) .. (Len(log) - 1) : k \in pseqno .. (Len(log) - 1)
        BY <4>1
      <4> QED
        BY <2>3, <3>1, <4>2, <4>4, <4>5 DEF Leads
    <3> QED
      BY <2>2, <3>1, <3>2, <3>3, ServerApplies
  <2> QED
    BY <1>2, <2>4, <2>5 DEF Next
<1> QED
  BY <1>1, <1>2

\* "Yellow = Allocated": in a program of one thread, none of whose calls fails or
\* is dropped for its stack, and whose windows are not reset, the blocks in
\* memprof's table are those of the program's heap, sizes included, whenever
\* nothing is on its way and no call is in progress.
THEOREM YellowIsHeap ==
  ASSUME Threads = {Main}, Faults \cap {"oom", "elide"} = {}, "reset" \notin Clicks
  PROVE  Spec => [](NoWrap => YellowIsAllocated)
<1>1. Init => CatchesUp
  <2> SUFFICES ASSUME Init PROVE tracing /\ \E T : Leads(T)
    BY DEF CatchesUp
  <2> DEFINE T == [k \in {0} |-> TableSizes]
  <2>1. /\ tracing /\ pseqno = 0 /\ log = <<>> /\ pc[Main] = "run"
        /\ DOMAIN heap = {} /\ DOMAIN block_table = {}
    BY WireAssumption DEF Init, InterceptInit, ProcessInit, Empty
  <2>2. HeapSizes = TableSizes
    BY <2>1 DEF HeapSizes, TableSizes
  <2>3. Leads(T)
    BY <2>1, <2>2 DEF Leads
  <2> QED
    BY <2>1, <2>3
<1>2. TypeOK /\ OrderInv /\ HoldInv /\ ShapeInv /\ LogInv /\ CatchesUp /\ [Next]_vars => CatchesUp'
  BY CatchesUpStep
<1>3. TypeOK /\ OrderInv /\ InStep /\ CatchesUp => (NoWrap => YellowIsAllocated)
  <2> SUFFICES ASSUME TypeOK, OrderInv, InStep, CatchesUp, NoWrap,
                      Quiet, \A t \in Threads : pc[t] = "run"
               PROVE  TableSizes = HeapSizes
    BY DEF YellowIsAllocated
  <2>1. pseqno = Len(log) /\ pc[Main] = "run"
    BY WireAssumption DEF OrderInv, NumberInv, Placed, InStep, InStepAlways
  <2>2. PICK T : Leads(T)
    BY DEF CatchesUp, Quiet
  <2> QED
    BY <2>1, <2>2 DEF Leads
<1> QED
  BY <1>1, <1>2, <1>3, QueueKeepsStep, LogKept, HoldKept, OrderKept, TypeCorrect, PTL DEF Spec

=============================================================================
