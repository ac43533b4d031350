----------------------------- MODULE KernelHeap -----------------------------
(***************************************************************************)
(* The heap of the kernel: mem::alloc and mem::free, which reach the heap  *)
(* kmain has set and nothing before that, and the operators new and        *)
(* delete, the only way the kernel allocates.  A failed new panics, a      *)
(* failed new[] spins.                                                     *)
(***************************************************************************)
EXTENDS BmHeap

VARIABLES global_kernel_heap, \* is it set?
          spinning,           \* new[] has failed
          asked               \* ghost: the size new or new[] was just asked for

NotAsked == -1

hook_vars == <<global_kernel_heap, spinning, asked>>

running == panicked = "no" /\ ~ spinning

KernelInit == Init /\ global_kernel_heap = FALSE /\ spinning = FALSE /\ asked = NotAsked

\* init_heap comes before set_kernel_heap.
init_heap(a) == init(a) /\ UNCHANGED hook_vars

extend_heap(a) == running /\ add_block(a) /\ UNCHANGED hook_vars

set_kernel_heap ==
  /\ running /\ list # <<>> /\ ~ global_kernel_heap
  /\ global_kernel_heap' = TRUE
  /\ UNCHANGED <<spinning, asked, vars>>

\* mem::alloc returns nullptr.
refused(size, align) == global_kernel_heap => no_fit(size, align)

\* mem::alloc itself, and malloc, which is mem::alloc.
mem_alloc(size, align) ==
  /\ running
  /\ IF global_kernel_heap
       THEN alloc(size, align) \/ alloc_fails(size, align) \/ alloc_misaligned(size, align)
       ELSE ret' = 0 /\ UNCHANGED <<list, ids, remaining, last_id, panicked, live, allocs>>
  /\ asked' = NotAsked /\ UNCHANGED <<global_kernel_heap, spinning>>

operator_new(size) ==
  /\ running
  /\ \/ global_kernel_heap /\ alloc(size, DataAlign)
     \/ refused(size, DataAlign) /\ panic("Out of memory")
  /\ asked' = size /\ UNCHANGED <<global_kernel_heap, spinning>>

operator_new_array(size) ==
  /\ running
  /\ \/ global_kernel_heap /\ alloc(size, DataAlign) /\ UNCHANGED spinning
     \/ refused(size, DataAlign) /\ spinning' = TRUE /\ UNCHANGED vars
  /\ asked' = size /\ UNCHANGED global_kernel_heap

mem_free(p) == IF global_kernel_heap THEN free(p) \/ free_ignored(p) ELSE UNCHANGED vars

\* All four deletes, and the free of the C library.
operator_delete(p) ==
  /\ running
  /\ mem_free(p)
  /\ asked' = NotAsked /\ UNCHANGED <<global_kernel_heap, spinning>>

KernelNext ==
  \/ \E a \in Arena : init_heap(a) \/ extend_heap(a)
  \/ set_kernel_heap
  \/ \E r \in Requests : \/ mem_alloc(r[1], r[2])
                         \/ operator_new(r[1])
                         \/ operator_new_array(r[1])
  \/ \E r \in live : operator_delete(pointer(r))
  \/ \E p \in Strays : operator_delete(p)

KernelSpec == KernelInit /\ [][KernelNext]_<<vars, hook_vars>>

-----------------------------------------------------------------------------
\* No caller of new tests what it returns: while the kernel runs, new has
\* returned an aligned allocation of at least the size asked for, and when it
\* has stopped there was no heap yet, nothing was asked for, or no run of
\* unused divisions was long enough.
NewReturnsMemoryOrStops ==
  asked # NotAsked =>
    IF running
    THEN \E r \in live : /\ pointer(r) = ret /\ ret % DataAlign = 0
                         /\ asked <= r.n * ArenaDiv[r.a]
    ELSE \/ ~ global_kernel_heap \/ asked = 0
         \/ \A a \in linked : \A s \in Divs(a) :
              ~ fits_at(a, s, needed_divs(a, asked), DataAlign)
=============================================================================
