------------------------------ MODULE OtaAgent ------------------------------
(***************************************************************************)
(* The OTA agent (modules/ota/ota_agent.c): a session object, the          *)
(* ota_agent_ctx_t, driven through init, start, write, finish, abort and   *)
(* deinit over the esp_ota_* flash API of ESP-IDF.                          *)
(*                                                                         *)
(* Every agent function is an operator from a session record and the flash *)
(* device to the SET of results it can have; the callers (OtaService) pick *)
(* one of them inside a single action.  ota_agent_finish makes two calls   *)
(* that touch the flash device, esp_ota_end and esp_ota_set_boot_partition,*)
(* and another task may run between them, so it is two operators.          *)
(*                                                                         *)
(* Data: firmware is a sequence of chunks <<image, index>>; a length is a  *)
(* number of chunks.                                                       *)
(***************************************************************************)
EXTENDS Naturals, Sequences

CONSTANTS
  Ctx,        \* the ota_agent_ctx_t objects of the program
  Image,      \* firmware images
  Factory,    \* the image the device ships with
  ImageLen,   \* chunks of an image
  NumPart,    \* OTA app partitions; partitions.csv has ota_0 and ota_1
  Cap,        \* chunks that fit in a partition (bound)
  MaxHandle,  \* esp_ota handles that can be open at once (bound)
  MaxFw,      \* largest firmware_size a caller announces (bound)
  NoPart,     \* a NULL esp_partition_t pointer
  Blank,      \* an erased flash slot
  Garbage,    \* a slot programmed twice with different data
  Faults      \* the external calls that may fail in this instance

Part == 0..(NumPart - 1)
Handle == 1..MaxHandle
Chunk == Image \X (1..ImageLen)
Check == {"skip", "any"} \cup Image
State == {"IDLE", "READY", "RUNNING", "DONE", "ERROR", "ABORTED"}

ASSUME OtaConstants ==
  /\ ImageLen \in Nat \ {0}
  /\ NumPart \in Nat \ {0}
  /\ Cap \in Nat /\ Cap >= ImageLen
  /\ MaxHandle \in Nat \ {0}
  /\ MaxFw \in Nat
  /\ Factory \in Image
  /\ NoPart \notin Part
  /\ Blank \notin Chunk /\ Garbage \notin Chunk /\ Blank # Garbage

VARIABLES
  ctx,      \* ctx[c]: the fields of session object c
  dev,      \* [entry, flash, boot]: the esp_ota handle table, the partitions, otadata
  running,  \* the partition the device booted from
  ending,   \* sessions inside ota_agent_finish, after esp_ota_end succeeded
  leaked    \* a mbedtls_md_context_t was freed while it was set up

agentVars == <<ctx, dev, running, ending, leaked>>

Slot == Chunk \cup {Blank, Garbage}
CtxRec == [state: State, fw: 0..MaxFw, check: Check, bytes: 0..Cap,
           part: Part \cup {NoPart}, handle: {0} \cup Handle,
           sha: {"null", "heap", "live"}, log: Seq(Chunk)]
EntryRec == [used: BOOLEAN, part: Part, off: 0..Cap]
Dev == [entry: [Handle -> EntryRec], flash: [Part -> [1..Cap -> Slot]], boot: Part]

AgentTypeOK ==
  /\ ctx \in [Ctx -> CtxRec]
  /\ dev \in Dev
  /\ running \in Part
  /\ ending \subseteq Ctx
  /\ leaked \in BOOLEAN

-----------------------------------------------------------------------------
(* External: the flash device behind esp_ota_*.                            *)

ImageSeq(im) == [i \in 1..ImageLen |-> <<im, i>>]

\* The image checks of esp_ota_end, esp_ota_set_boot_partition and the
\* bootloader accept a partition that starts with a whole image.
Holds(slots, im) == \A i \in 1..ImageLen : slots[i] = <<im, i>>
Bootable(slots) == \E im \in Image : Holds(slots, im)

NextPart(p) == (p + 1) % NumPart

FreeHandles(d) == {h \in Handle : ~d.entry[h].used}

\* esp_ota_begin: a new handle on p, the first n chunks of p erased.
Opened(d, h, p, n) ==
  [d EXCEPT !.entry[h] = [used |-> TRUE, part |-> p, off |-> 0],
            !.flash[p] = [i \in 1..Cap |-> IF i <= n THEN Blank ELSE @[i]]]

\* esp_ota_end and esp_ota_abort give the handle back.
Closed(d, h) == [d EXCEPT !.entry[h].used = FALSE]

\* esp_ota_write: the chunk goes to the handle's own offset; programming a
\* slot that is not erased mixes the bits of both writes.
Written(d, h, ch) ==
  LET e == d.entry[h] IN
  [d EXCEPT !.entry[h].off = @ + 1,
            !.flash[e.part][e.off + 1] = IF @ \in {Blank, ch} THEN ch ELSE Garbage]

Erase(fw) == IF fw > 0 THEN fw ELSE Cap

-----------------------------------------------------------------------------
(* The agent's functions.                                                  *)

Result(r, d, ret) == [ctx |-> r, dev |-> d, ret |-> ret]
OneOf(fault, results) == IF fault \in Faults THEN results ELSE {}

\* memset(ctx, 0): no expected hash, and skip_sha256 is false.
Zeroed ==
  [state |-> "IDLE", fw |-> 0, check |-> "any", bytes |-> 0, part |-> NoPart,
   handle |-> 0, sha |-> "null", log |-> <<>>]

Failed(r) == [r EXCEPT !.state = "ERROR"]

InitResults(r, d) ==
  IF r.state # "IDLE" THEN {Result(r, d, "INVALID_STATE")}
  ELSE LET z == [r EXCEPT !.bytes = 0, !.part = NoPart, !.handle = 0] IN
       {Result([z EXCEPT !.sha = "heap", !.state = "READY"], d, "OK")}
       \cup (IF r.sha = "null" THEN OneOf("malloc", {Result(z, d, "NO_MEM")}) ELSE {})

\* Faulty: the slot the device runs from is taken for the update.
StartOnRunning(r, d, run) ==
  IF r.state # "READY" \/ FreeHandles(d) = {} THEN {Result(Failed(r), d, "INVALID_STATE")}
  ELSE LET h == CHOOSE x \in FreeHandles(d) : TRUE IN
       {Result([r EXCEPT !.part = run, !.handle = h, !.sha = "live", !.state = "RUNNING"],
               Opened(d, h, run, Erase(r.fw)), "OK")}

StartResults(r, d, run) ==
  IF r.state # "READY" THEN {Result(r, d, "INVALID_STATE")}
  ELSE
    LET p  == NextPart(run)
        h  == CHOOSE x \in FreeHandles(d) : TRUE
        at == [r EXCEPT !.part = p]
        d1 == Opened(d, h, p, Erase(r.fw))
        noPart == {Result(Failed([r EXCEPT !.part = NoPart]), d, "NOT_FOUND")}
        noBegin == {Result(Failed([at EXCEPT !.handle = 0]), d, "BEGIN")}
        noMd == {Result(Failed([at EXCEPT !.handle = 0]), Closed(d1, h), "FAIL")}
    IN OneOf("part", noPart) \cup
       ( IF p = run THEN {Result(Failed(at), d, "INVALID_STATE")}
         ELSE OneOf("begin", noBegin) \cup
              ( IF FreeHandles(d) = {} THEN noBegin
                ELSE OneOf("md", noMd) \cup
                     {Result([at EXCEPT !.handle = h, !.bytes = 0, !.sha = "live",
                                        !.state = "RUNNING", !.log = <<>>], d1, "OK")} ) )

\* Faulty: the chunk is added to bytes_written twice.
WriteCountsTwice(r, d, ch) ==
  IF r.state # "RUNNING" \/ d.entry[r.handle].off = Cap THEN {Result(r, d, "INVALID_STATE")}
  ELSE {Result([r EXCEPT !.bytes = @ + 2, !.log = Append(@, ch)], Written(d, r.handle, ch), "OK")}

\* Faulty: the result of esp_ota_write is ignored.
WriteIgnoresError(r, d, ch) ==
  IF r.state # "RUNNING" \/ r.bytes = Cap THEN {Result(r, d, "INVALID_STATE")}
  ELSE LET ok == [r EXCEPT !.bytes = @ + 1, !.log = Append(@, ch)] IN
       {Result(ok, d, "OK"),
        Result(ok, IF d.entry[r.handle].off = Cap THEN d ELSE Written(d, r.handle, ch), "OK")}

WriteResults(r, d, ch) ==
  IF r.state # "RUNNING" THEN {Result(r, d, "INVALID_STATE")}
  ELSE IF r.fw > 0 /\ r.bytes + 1 > r.fw THEN {Result(Failed(r), d, "INVALID_SIZE")}
  ELSE IF d.entry[r.handle].off = Cap THEN {Result(Failed(r), d, "WRITE")}
  ELSE LET d1 == Written(d, r.handle, ch) IN
       OneOf("write", {Result(Failed(r), d, "WRITE")})
       \cup (IF r.check # "skip" THEN OneOf("md", {Result(Failed(r), d1, "FAIL")}) ELSE {})
       \cup {Result([r EXCEPT !.bytes = @ + 1, !.log = Append(@, ch)], d1, "OK")}

\* Faulty: update_handle is not cleared once esp_ota_end has freed it.
EndKeepsHandle(r, d) ==
  IF r.state # "RUNNING" \/ ~Bootable(d.flash[r.part]) THEN {Result(r, d, "INVALID_STATE")}
  ELSE {Result([r EXCEPT !.sha = "heap"], Closed(d, r.handle), "ENDED")}

\* ota_agent_finish up to and including esp_ota_end; "ENDED" goes on to
\* BootResults, every other result leaves the function.
EndResults(r, d) ==
  LET gone(s) == Failed([r EXCEPT !.handle = 0, !.part = NoPart, !.sha = s])
      shut == Closed(d, r.handle)
      ended == [r EXCEPT !.sha = "heap", !.handle = 0]
  IN IF r.state # "RUNNING" THEN {Result(r, d, "INVALID_STATE")}
     ELSE IF r.fw > 0 /\ r.bytes # r.fw THEN {Result(gone(r.sha), shut, "INVALID_SIZE")}
     ELSE IF r.check \in Image /\ r.log # ImageSeq(r.check)
     THEN {Result(gone("heap"), shut, "INVALID_CRC")}
     ELSE (IF r.check # "skip" THEN OneOf("md", {Result(gone("heap"), shut, "FAIL")}) ELSE {})
          \cup OneOf("end", {Result(gone("heap"), shut, "END")})
          \cup {IF Bootable(d.flash[r.part])
                THEN Result(ended, shut, "ENDED") ELSE Result(gone("heap"), shut, "END")}

\* The rest of ota_agent_finish: esp_ota_set_boot_partition checks the image again.
BootResults(r, d) ==
  LET no == Result(Failed([r EXCEPT !.part = NoPart]), d, "SET_BOOT") IN
  IF ~Bootable(d.flash[r.part]) THEN {no}
  ELSE OneOf("setboot", {no})
       \cup {Result([r EXCEPT !.part = NoPart, !.state = "DONE"],
                    [d EXCEPT !.boot = r.part], "OK")}

Aborted(r, d) ==
  IF r.state \in {"IDLE", "DONE", "ABORTED"} THEN Result(r, d, "OK")
  ELSE Result([r EXCEPT !.state = "ABORTED", !.handle = 0, !.part = NoPart, !.bytes = 0,
                        !.sha = IF r.state = "RUNNING" THEN "heap" ELSE @],
              IF r.handle # 0 THEN Closed(d, r.handle) ELSE d, "OK")

Deinited(r) == IF r.state = "RUNNING" THEN r ELSE Zeroed
\* free(sha256_ctx) without mbedtls_md_free
LeaksMd(r) == r.state # "RUNNING" /\ r.sha = "live"

-----------------------------------------------------------------------------
(* The agent on its own: any caller, any order of calls.                   *)

Become(c, o) == ctx' = [ctx EXCEPT ![c] = o.ctx] /\ dev' = o.dev

AgentInit ==
  /\ ctx = [c \in Ctx |-> Zeroed]
  /\ dev = [entry |-> [h \in Handle |-> [used |-> FALSE, part |-> 0, off |-> 0]],
            flash |-> [p \in Part |-> [i \in 1..Cap |->
                         IF p = 0 /\ i <= ImageLen THEN <<Factory, i>> ELSE Blank]],
            boot |-> 0]
  /\ running = 0 /\ ending = {} /\ leaked = FALSE

\* A caller fills cfg in a zeroed object and calls ota_agent_init.
InitSession(c, fw, check) ==
  /\ c \notin ending
  /\ \E o \in InitResults([ctx[c] EXCEPT !.fw = IF ctx[c].state = "IDLE" THEN fw ELSE @,
                                         !.check = IF ctx[c].state = "IDLE" THEN check ELSE @],
                          dev) : Become(c, o)
  /\ UNCHANGED <<running, ending, leaked>>

Start(c) ==
  /\ c \notin ending
  /\ \E o \in StartResults(ctx[c], dev, running) : Become(c, o)
  /\ UNCHANGED <<running, ending, leaked>>

Write(c, ch) ==
  /\ c \notin ending
  /\ \E o \in WriteResults(ctx[c], dev, ch) : Become(c, o)
  /\ UNCHANGED <<running, ending, leaked>>

FinishEnd(c) ==
  /\ c \notin ending
  /\ \E o \in EndResults(ctx[c], dev) :
       Become(c, o) /\ ending' = IF o.ret = "ENDED" THEN ending \cup {c} ELSE ending
  /\ UNCHANGED <<running, leaked>>

FinishBoot(c) ==
  /\ c \in ending
  /\ \E o \in BootResults(ctx[c], dev) : Become(c, o)
  /\ ending' = ending \ {c}
  /\ UNCHANGED <<running, leaked>>

Abort(c) ==
  /\ c \notin ending
  /\ Become(c, Aborted(ctx[c], dev))
  /\ UNCHANGED <<running, ending, leaked>>

Deinit(c) ==
  /\ c \notin ending
  /\ ctx' = [ctx EXCEPT ![c] = Deinited(@)]
  /\ leaked' = (leaked \/ LeaksMd(ctx[c]))
  /\ UNCHANGED <<dev, running, ending>>

AgentNext ==
  \E c \in Ctx :
    \/ \E fw \in 0..MaxFw, check \in Check : InitSession(c, fw, check)
    \/ Start(c)
    \/ \E ch \in Chunk : Write(c, ch)
    \/ FinishEnd(c) \/ FinishBoot(c)
    \/ Abort(c) \/ Deinit(c)

AgentSpec == AgentInit /\ [][AgentNext]_agentVars
-----------------------------------------------------------------------------
(* Properties                                                              *)

Owners(h) == {c \in Ctx : ctx[c].handle = h}

\* Every session that holds an update_handle holds one esp_ota has open for
\* the session's own update_partition, and no other session holds it: so
\* write, finish and abort never use a closed or a foreign handle
\* (ota_agent.c:316, "Only call esp_ota_abort if we actually have an open handle").
HandleOwned ==
  \A c \in Ctx : ctx[c].handle # 0 =>
     LET h == ctx[c].handle IN
     /\ dev.entry[h].used
     /\ dev.entry[h].part = ctx[c].part
     /\ Owners(h) = {c}

\* Between the calls of a RUNNING session, bytes_written is what its handle
\* has programmed, and the hash context is set up: the size check of
\* ota_agent_finish counts exactly the chunks that are in flash.
SessionInStep ==
  \A c \in Ctx \ ending : ctx[c].state = "RUNNING" =>
     /\ ctx[c].handle # 0
     /\ ctx[c].bytes = dev.entry[ctx[c].handle].off
     /\ ctx[c].bytes = Len(ctx[c].log)
     /\ ctx[c].sha = "live"

\* No session, however it fails, touches the partition the device runs from.
RunningUntouched ==
  /\ Holds(dev.flash[running], Factory)
  /\ \A h \in Handle : dev.entry[h].used => dev.entry[h].part # running

=============================================================================
