----------------------------- MODULE GateTables -----------------------------
(***************************************************************************)
(* The tables through which the processor finds its handlers: src/gdt.c    *)
(* and, of src/interrupts.c, IRQ_init and IRQ_init_tss.  An address has 8  *)
(* bits for its 64: each part of a descriptor is an eighth as wide.        *)
(***************************************************************************)
EXTENDS Integers, Sequences

CONSTANTS isr_stub_table,    \* the addresses of the stubs, by vector
          TssAddresses,      \* where the linker may put tss
          IDT_MAX_DESCRIPTORS, GDT_SIZE

Vector == 0 .. IDT_MAX_DESCRIPTORS - 1

\* There are gates for all vectors with a stack of their own and room for the
\* four entries pushed.
ASSUME GateAssumption ==
    /\ IDT_MAX_DESCRIPTORS \in Nat /\ IDT_MAX_DESCRIPTORS > 129
    /\ GDT_SIZE \in Nat /\ GDT_SIZE >= 4
    /\ isr_stub_table \in [Vector -> 0 .. 255]
    /\ TssAddresses \subseteq 0 .. 255

VARIABLES
    gate_pc,
    table, limit,            \* gdt.table up to gdt.top; the loaded limit
    kernel_desc_offset,
    tss, ist,                \* the address of tss and its stack table
    tr,                      \* the task register
    idt, gate_intr           \* the descriptors set so far; interrupts are on

gateVars == <<gate_pc, table, limit, kernel_desc_offset, tss, ist, tr, idt,
              gate_intr>>

GateInit ==
    /\ gate_pc = "gdt"
    /\ table = <<>> /\ limit = 0 /\ kernel_desc_offset = 0
    /\ tss \in TssAddresses /\ ist = <<>> /\ tr = 0
    /\ idt = <<>> /\ gate_intr = FALSE

-----------------------------------------------------------------------------
\* Bits lo to hi - 1 of an address.
Part(addr, lo, hi) == (addr \div 2^lo) % 2^(hi - lo)

\* GDT_push_dq returns the offset of what it pushes; GDT_load.
GDT_offset(t) == 8 * Len(t)
GDT_limit(t) == 8 * Len(t) - 1

\* GDT_setup: the null descriptor, then the kernel's code segment.
GDT_setup ==
    /\ gate_pc = "gdt"
    /\ table' = <<[kind |-> "null"], [kind |-> "code"]>>
    /\ kernel_desc_offset' = GDT_offset(<<[kind |-> "null"]>>)
    /\ limit' = GDT_limit(table')
    /\ gate_pc' = "tss"
    /\ UNCHANGED <<tss, ist, tr, idt, gate_intr>>

\* The two halves of the TSS descriptor.
tss_set_descriptor ==
    <<[kind |-> "tss", base_low |-> Part(tss, 0, 3),
       base_mid |-> Part(tss, 3, 4)],
      [kind |-> "high", base_high |-> Part(tss, 4, 8)]>>

Stacks == <<"DF_stack", "PF_stack", "GP_stack", "EX_stack">>

\* Fault: the table is not loaded again.
TssNotLoaded ==
    /\ gate_pc = "tss"
    /\ ist' = Stacks
    /\ table' = table \o tss_set_descriptor
    /\ tr' = GDT_offset(table)
    /\ gate_pc' = "idt"
    /\ UNCHANGED <<limit, kernel_desc_offset, tss, idt, gate_intr>>

\* IRQ_init_tss: the stacks, the descriptor, GDT_load and ltr.
IRQ_init_tss ==
    /\ gate_pc = "tss"
    /\ ist' = Stacks
    /\ table' = table \o tss_set_descriptor
    /\ limit' = GDT_limit(table')
    /\ tr' = GDT_offset(table)
    /\ gate_pc' = "idt"
    /\ UNCHANGED <<kernel_desc_offset, tss, idt, gate_intr>>

\* The vectors that have a stack of their own: DF_INT, PF_INT, GP_INT, EX_INT.
IstIndex(v) == CASE v = 8 -> 1 [] v = 14 -> 2 [] v = 13 -> 3 [] v = 129 -> 4
                 [] OTHER -> 0

idt_set_descriptor(isr, index) ==
    [isr_low |-> Part(isr, 0, 2), isr_mid |-> Part(isr, 2, 4),
     isr_high |-> Part(isr, 4, 8), cs |-> kernel_desc_offset, ist |-> index]

\* One turn of the loop of IRQ_init; idt[v + 1] is the descriptor of v.
SetDescriptor ==
    /\ gate_pc = "idt" /\ Len(idt) < IDT_MAX_DESCRIPTORS
    /\ LET v == Len(idt)
           d == idt_set_descriptor(isr_stub_table[v], IstIndex(v))
       IN  idt' = Append(idt, d)
    /\ UNCHANGED <<gate_pc, table, limit, kernel_desc_offset, tss, ist, tr,
                   gate_intr>>

\* The end of IRQ_init: lidt and STI.
IRQ_init_end ==
    /\ gate_pc = "idt" /\ Len(idt) = IDT_MAX_DESCRIPTORS
    /\ gate_pc' = "up" /\ gate_intr' = TRUE
    /\ UNCHANGED <<table, limit, kernel_desc_offset, tss, ist, tr, idt>>

GateNext == GDT_setup \/ IRQ_init_tss \/ SetDescriptor \/ IRQ_init_end

GateSpec == GateInit /\ [][GateNext]_gateVars

-----------------------------------------------------------------------------
\* External: what the processor makes of a selector and of a gate.
Selects(selector, kind, bytes) ==
    /\ selector + bytes - 1 <= limit
    /\ table[selector \div 8 + 1].kind = kind

TaskState == LET k == tr \div 8 + 1
             IN  table[k].base_low + 8 * table[k].base_mid
                 + 16 * table[k + 1].base_high

Target(g) == g.isr_low + 4 * g.isr_mid + 16 * g.isr_high

\* Once IRQ_init has turned interrupts on, every vector leads through the
\* tables as loaded to its own stub, in the kernel's code segment, and double
\* fault, page fault, protection fault and thread exit to their own stacks.
VectorsReady ==
    gate_intr =>
        /\ Len(table) <= GDT_SIZE
        /\ Selects(tr, "tss", 16) /\ TaskState = tss
        /\ \A v \in Vector :
              LET g == idt[v + 1] IN
              /\ Target(g) = isr_stub_table[v]
              /\ Selects(g.cs, "code", 8)
              /\ (g.ist = 0) = (v \notin {8, 13, 14, 129})
        /\ ist[idt[9].ist] = "DF_stack" /\ ist[idt[15].ist] = "PF_stack"
        /\ ist[idt[14].ist] = "GP_stack" /\ ist[idt[130].ist] = "EX_stack"
=============================================================================
