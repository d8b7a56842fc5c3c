-------------------------------- MODULE Ata --------------------------------
(***************************************************************************)
(* The ATA driver, src/block_device.c: ata_probe, then threads that call   *)
(* ata_48_read_block, block on the request at the head of the list and are *)
(* woken by IRQ 14.  The queues are those of module QueueOps; the kernel's *)
(* idle loop is the thread Source, whose races are module Scheduler's.     *)
(*                                                                         *)
(* The drive and the latch of IRQ 14 are external.  The drive raises its   *)
(* line together with DRQ or ERR; reading the status register, or writing  *)
(* a command, lowers it.  The alternate status the readers poll does not.  *)
(***************************************************************************)
EXTENDS QueueOps, FiniteSets

CONSTANTS Thread,
          Reader,      \* the threads that read blocks; the others, past
                       \* their first STI, only yield
          Source,      \* the idle loop of kmain
          Block,       \* block numbers
          Junk,        \* what the data register gives when no data is ready
          MaxReads     \* bound on the reads of a thread

ASSUME AtaAssumption ==
    /\ Reader \subseteq Thread /\ IsFiniteSet(Thread)
    /\ Source \notin Thread /\ Junk \notin Block
    /\ MaxReads \in Nat

VARIABLES
    probe,         \* ata_probe: "boot", "signature", "wait", then "ready",
                   \* or "nodev" when it returns NULL
    st, at,        \* the drive: "reset", "idle", "busy", "drq" or "err", and
                   \* the block of its command
    intrq, edge,   \* its interrupt line and the latch of the controller
    req,           \* req_head .. req_tail, each request as its reader
    block_queue,   \* of the request of a reader
    avail, cur,    \* the scheduler's queue and the running thread
    flag,          \* the interrupt flag of a thread, saved or current
    step, blk_num, dst, reads,     \* of each reader: where it is in a read,
                   \* the block, what it got and the reads begun
    wild           \* the handler has used a NULL req_head

drive == <<st, at, intrq>>
ataVars == <<probe, st, at, intrq, edge, req, block_queue, avail, cur, flag,
             step, blk_num, dst, reads, wild>>

\* A reader is a new thread, so its flag is clear.
AtaInit ==
    /\ probe = "boot"
    /\ st = "idle" /\ at = Junk /\ intrq = FALSE /\ edge = FALSE
    /\ req = <<>> /\ block_queue = [r \in Reader |-> <<>>]
    /\ avail \in {s \in [1 .. Cardinality(Thread) -> Thread] : Distinct(s)}
    /\ cur = Source
    /\ flag = [t \in Thread \cup {Source} |-> t \notin Reader]
    /\ step = [r \in Reader |-> "idle"] /\ blk_num = [r \in Reader |-> Junk]
    /\ dst = [r \in Reader |-> Junk] /\ reads = [r \in Reader |-> 0]
    /\ wild = FALSE

\* IRQ 14 is unmasked when ata_probe returns.  A CPU whose flag is set takes
\* a latched interrupt before it goes on.
Interrupted == probe = "ready" /\ edge /\ flag[cur]

Runs(r) == cur = r /\ ~Interrupted

-----------------------------------------------------------------------------
\* ata_soft_reset(ctl_base, false) and the selection of the drive.  Bit 0 of
\* the control register means nothing: interrupts stay enabled.
detect_devtype(r) ==
    /\ Runs(r) /\ probe = "boot"
    /\ st' = "reset"
    /\ probe' = "signature"
    /\ UNCHANGED <<at, intrq, edge, req, block_queue, avail, cur, flag, step,
                   blk_num, dst, reads, wild>>

\* Nothing but four reads separates the reset from the signature bytes: of a
\* drive still in reset they are not a PATA drive's.  Of one that is ready
\* they are, and dev_identify sends its command.
Signature(r) ==
    /\ Runs(r) /\ probe = "signature"
    /\ probe' = IF st = "reset" THEN "nodev" ELSE "wait"
    /\ st' = IF st = "reset" THEN st ELSE "busy"
    /\ UNCHANGED <<at, intrq, edge, req, block_queue, avail, cur, flag, step,
                   blk_num, dst, reads, wild>>

\* Fault: the probe ends with STI.
ProbeSTI(r) ==
    /\ Runs(r) /\ probe = "wait" /\ st = "drq"
    /\ st' = "idle" /\ intrq' = FALSE /\ edge' \in {edge, FALSE}
    /\ probe' = "ready" /\ flag' = [flag EXCEPT ![r] = TRUE]
    /\ UNCHANGED <<at, req, block_queue, avail, cur, step, blk_num, dst, reads,
                   wild>>

\* dev_identify polls the status, which lowers the line, and reads the data;
\* the controller may or may not keep the edge it saw while IRQ 14 was
\* masked.  The second reset writes to the data register and does nothing.
\* Then the handler is set and IRQ 2 and 14 are unmasked.
dev_identify(r) ==
    /\ Runs(r) /\ probe = "wait" /\ st = "drq"
    /\ st' = "idle" /\ intrq' = FALSE /\ edge' \in {edge, FALSE}
    /\ probe' = "ready"
    /\ UNCHANGED <<at, req, block_queue, avail, cur, flag, step, blk_num, dst,
                   reads, wild>>

ata_probe(r) == detect_devtype(r) \/ Signature(r) \/ dev_identify(r)

\* CLI and ata_req_queue_execute: a command is sent only for a request that
\* finds the list empty.  The busy loop of ata_req_execute reads the data
\* register of an idle drive and falls through.
Submit(r, b) ==
    /\ Runs(r) /\ probe = "ready" /\ step[r] = "idle" /\ reads[r] < MaxReads
    /\ reads' = [reads EXCEPT ![r] = @ + 1]
    /\ blk_num' = [blk_num EXCEPT ![r] = b]
    /\ block_queue' = [block_queue EXCEPT ![r] = <<>>]
    /\ flag' = [flag EXCEPT ![r] = FALSE]
    /\ req' = Append(req, r)
    /\ IF req = <<>> THEN st' = "busy" /\ at' = b /\ intrq' = FALSE
                     ELSE UNCHANGED drive
    /\ step' = [step EXCEPT ![r] = "poll"]
    /\ UNCHANGED <<probe, edge, avail, cur, dst, wild>>

\* The test of the loop.  PROC_block_on enables interrupts before it yields.
Poll(r) ==
    /\ Runs(r) /\ step[r] = "poll"
    /\ flag' = [flag EXCEPT ![r] = TRUE]
    /\ \/ /\ st \in {"drq", "err"}
          /\ step' = [step EXCEPT ![r] = "data"]
          /\ UNCHANGED <<avail, block_queue>>
       \/ /\ st \notin {"drq", "err"} /\ req # <<>>
          /\ avail' = unlink_proc(avail, r)
          /\ block_queue' = [block_queue EXCEPT
                                 ![Head(req)] = append_proc(@, r)]
          /\ step' = [step EXCEPT ![r] = "yield"]
    /\ UNCHANGED <<probe, drive, edge, req, cur, blk_num, dst, reads, wild>>

\* To the next thread of the queue, or to the idle loop if there is none.
Switch == /\ cur' = IF avail = <<>> THEN Source ELSE Head(avail)
          /\ avail' = IF avail = <<>> THEN avail
                                      ELSE set_head(avail, head_next(avail))

Yield(r) ==
    /\ Runs(r) /\ step[r] = "yield"
    /\ Switch
    /\ step' = [step EXCEPT ![r] = "woken"]
    /\ UNCHANGED <<probe, drive, edge, req, block_queue, flag, blk_num, dst,
                   reads, wild>>

\* Fault: an if in place of the while, so that a wake-up means data.
WokenMeansData(r) ==
    /\ Runs(r) /\ step[r] = "woken"
    /\ step' = [step EXCEPT ![r] = "data"]
    /\ UNCHANGED <<probe, drive, edge, req, block_queue, avail, cur, flag,
                   blk_num, dst, reads, wild>>

\* Back from PROC_block_on: CLI, and the status is read again.
Woken(r) ==
    /\ Runs(r) /\ step[r] = "woken"
    /\ flag' = [flag EXCEPT ![r] = FALSE]
    /\ step' = [step EXCEPT ![r] = "poll"]
    /\ UNCHANGED <<probe, drive, edge, req, block_queue, avail, cur, blk_num,
                   dst, reads, wild>>

\* The words of the block, with interrupts on.  ERR is not looked at.
ReadData(r) ==
    /\ Runs(r) /\ step[r] = "data"
    /\ dst' = [dst EXCEPT ![r] = IF st = "drq" THEN at ELSE Junk]
    /\ st' = IF st = "drq" THEN "idle" ELSE st
    /\ step' = [step EXCEPT ![r] = "finish"]
    /\ UNCHANGED <<probe, at, intrq, edge, req, block_queue, avail, cur, flag,
                   blk_num, reads, wild>>

\* ata_req_unqueue takes the head of the list; the request behind it is not
\* executed, that code is commented out.
Finish(r) ==
    /\ Runs(r) /\ step[r] = "finish"
    /\ req' = IF req = <<>> THEN req ELSE Tail(req)
    /\ step' = [step EXCEPT ![r] = "idle"]
    /\ UNCHANGED <<probe, drive, edge, block_queue, avail, cur, flag, blk_num,
                   dst, reads, wild>>

\* A thread that has read enough returns and exits.
Exit(r) ==
    /\ Runs(r) /\ probe = "ready" /\ step[r] = "idle" /\ reads[r] = MaxReads
    /\ LET rest == unlink_proc(avail, r) IN
           /\ cur' = IF rest = <<>> THEN Source ELSE Head(rest)
           /\ avail' = rest
    /\ step' = [step EXCEPT ![r] = "gone"]
    /\ UNCHANGED <<probe, drive, edge, req, block_queue, flag, blk_num, dst,
                   reads, wild>>

\* The idle loop calls PROC_run when a thread is available, and the other
\* threads yield.
Other ==
    /\ \E t \in {Source} \cup (Thread \ Reader) : Runs(t)
    /\ avail # <<>>
    /\ Switch
    /\ UNCHANGED <<probe, drive, edge, req, block_queue, flag, step, blk_num,
                   dst, reads, wild>>

\* Fault: no thread is woken for a command that failed.
WakeOnlyForData ==
    /\ Interrupted
    /\ edge' = FALSE /\ intrq' = FALSE
    /\ wild' = (wild \/ req = <<>>)
    /\ IF req # <<>> /\ st # "err" /\ block_queue[Head(req)] # <<>>
       THEN LET h == Head(req) t == Head(block_queue[h]) IN
            /\ block_queue' = [block_queue EXCEPT ![h] = unlink_proc(@, t)]
            /\ avail' = append_proc(avail, t)
       ELSE UNCHANGED <<block_queue, avail>>
    /\ UNCHANGED <<probe, st, at, req, cur, flag, step, blk_num, dst, reads>>

\* The status is read, req_head is used without a test, one thread is woken.
read_block_handler ==
    /\ Interrupted
    /\ edge' = FALSE /\ intrq' = FALSE
    /\ wild' = (wild \/ req = <<>>)
    /\ IF req # <<>> /\ block_queue[Head(req)] # <<>>
       THEN LET h == Head(req) t == Head(block_queue[h]) IN
            /\ block_queue' = [block_queue EXCEPT ![h] = unlink_proc(@, t)]
            /\ avail' = append_proc(avail, t)
       ELSE UNCHANGED <<block_queue, avail>>
    /\ UNCHANGED <<probe, st, at, req, cur, flag, step, blk_num, dst, reads>>

\* The drive ends a reset, or a command: the line rises with DRQ or ERR.
\* IDENTIFY succeeds (an error stops the kernel at an assertion).
Drive ==
    /\ \/ st = "reset" /\ st' = "idle" /\ UNCHANGED <<intrq, edge>>
       \/ /\ st = "busy"
          /\ st' \in {"drq", "err"} /\ (probe = "wait" => st' = "drq")
          /\ intrq' = TRUE /\ edge' = (edge \/ ~intrq)
    /\ UNCHANGED <<probe, at, req, block_queue, avail, cur, flag, step,
                   blk_num, dst, reads, wild>>

ata_48_read_block(r) == \/ \E b \in Block : Submit(r, b)
                        \/ Poll(r) \/ Yield(r) \/ Woken(r)
                        \/ ReadData(r) \/ Finish(r)

CPU == \/ \E r \in Reader : ata_probe(r) \/ ata_48_read_block(r) \/ Exit(r)
       \/ Other
       \/ read_block_handler

AtaNext == CPU \/ Drive

AtaSpec == AtaInit /\ [][AtaNext]_ataVars

\* The CPU executes and the drive answers.
AtaFairSpec == AtaSpec /\ WF_ataVars(CPU) /\ WF_ataVars(Drive)

-----------------------------------------------------------------------------
\* A read that met no error gives the block it asked for: no early wake-up,
\* left over from IDENTIFY or from the read before, makes ata_48_read_block
\* read the data register too soon, or for another request.
ReadsOwnBlock == \A r \in Reader : step[r] = "finish" =>
                     dst[r] = blk_num[r] \/ (st = "err" /\ at = blk_num[r])

\* read_block_handler never runs without a request: it uses req_head with
\* no test, and IDENTIFY may leave IRQ 14 latched when it is unmasked.
HandlerHasRequest == ~wild

\* Every read ends.
ReadEnds == \A r \in Reader : (step[r] = "poll") ~> (step[r] = "idle")
=============================================================================
