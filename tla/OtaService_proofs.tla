-------------------------- MODULE OtaService_proofs --------------------------
(***************************************************************************)
(* Theorems about the OTA agent, the OTA service and its HTTP client, for  *)
(* every number of sessions, downloads, partitions, handles, images and    *)
(* chunks, and every set of faults; and the proof that the service         *)
(* implements OtaUpdate.                                                   *)
(*                                                                         *)
(* Argument for the agent: each function meets a contract, Contract, that  *)
(* speaks only of the calling session and of the device; a step that meets *)
(* it preserves SessionsInv and the partition that runs (ContractKeeps),   *)
(* and so the inductive invariant AgentInv.                                *)
(*                                                                         *)
(* Argument for the service: each action drives one session through one,   *)
(* two or three agent functions.  Their contracts compose, and Accounts    *)
(* adds to them that a function opens no handle it does not leave in its   *)
(* session.  PassiveStep and DownloadStep then show that a step which      *)
(* meets both keeps the inductive invariant ServiceInv; it starts from     *)
(* ContractKeeps too, where the image that runs may change.                *)
(***************************************************************************)
EXTENDS OtaService, TLAPS

-----------------------------------------------------------------------------
(* The agent                                                               *)

\* A session that was not started holds no handle.
\* A session between the two halves of ota_agent_finish has given its handle
\* back and still knows a partition that is not the running one.
ReadyShape == \A c \in Ctx : ctx[c].state = "READY" => ctx[c].handle = 0

EndingShape ==
  \A c \in ending :
    /\ ctx[c].state = "RUNNING"
    /\ ctx[c].handle = 0
    /\ ctx[c].part \in Part

RunningClosed == \A h \in Handle : dev.entry[h].used => dev.entry[h].part # running

SessionsInv == AgentTypeOK /\ HandleOwned /\ SessionInStep /\ RunningClosed
               /\ ReadyShape /\ EndingShape

AgentInv == SessionsInv /\ RunningUntouched

InStep(r, d) ==
  /\ r.handle # 0
  /\ r.bytes = d.entry[r.handle].off
  /\ r.bytes = Len(r.log)
  /\ r.sha = "live"

\* What a result o of an agent function owes to the session r it was called
\* for and to the other users of device d.
Contract(r, d, run, o) ==
  /\ o.ctx \in CtxRec
  /\ o.dev \in Dev
  /\ \A h \in Handle : (h # r.handle /\ d.entry[h].used) => o.dev.entry[h] = d.entry[h]
  /\ o.ctx.handle # 0 =>
        /\ o.dev.entry[o.ctx.handle].used
        /\ o.dev.entry[o.ctx.handle].part = o.ctx.part
        /\ o.ctx.handle = r.handle \/ ~d.entry[o.ctx.handle].used
  /\ o.dev.flash[run] = d.flash[run]
  /\ \A h \in Handle : o.dev.entry[h].used => o.dev.entry[h].part # run
  /\ o.ctx.state = "READY" => o.ctx.handle = 0
  /\ (o.ctx.state = "RUNNING" /\ o.ret # "ENDED") => InStep(o.ctx, o.dev)
  /\ o.ret = "ENDED" => o.ctx.state = "RUNNING" /\ o.ctx.handle = 0 /\ o.ctx.part \in Part

\* What SessionsInv says of one session r outside ota_agent_finish.
Pre(r, d, run) ==
  /\ r \in CtxRec
  /\ d \in Dev
  /\ run \in Part
  /\ r.handle # 0 => d.entry[r.handle].used /\ d.entry[r.handle].part = r.part
  /\ r.state = "READY" => r.handle = 0
  /\ r.state = "RUNNING" => InStep(r, d)
  /\ \A h \in Handle : d.entry[h].used => d.entry[h].part # run

-----------------------------------------------------------------------------
(* Lemmas about the flash device.                                          *)

LEMMA OpenedDev ==
  ASSUME NEW d \in Dev, NEW h \in Handle, NEW p \in Part, NEW n \in Nat
  PROVE  Opened(d, h, p, n) \in Dev
<1> DEFINE e == [used |-> TRUE, part |-> p, off |-> 0]
           f == [i \in 1..Cap |-> IF i <= n THEN Blank ELSE d.flash[p][i]]
<1>1. e \in EntryRec BY OtaConstants DEF EntryRec
<1> DEFINE g == d.flash[p]
<1>0. g \in [1..Cap -> Slot] /\ Blank \in Slot BY DEF Dev, Slot
<1> HIDE DEF g
<1>2. [i \in 1..Cap |-> IF i <= n THEN Blank ELSE g[i]] \in [1..Cap -> Slot] BY <1>0
<1>3. [d.entry EXCEPT ![h] = e] \in [Handle -> EntryRec] BY <1>1 DEF Dev
<1>6. f \in [1..Cap -> Slot] BY <1>2 DEF g
<1> HIDE DEF f
<1>4. [d.flash EXCEPT ![p] = f] \in [Part -> [1..Cap -> Slot]] BY <1>6 DEF Dev
<1>5. Opened(d, h, p, n) = [d EXCEPT !.entry = [d.entry EXCEPT ![h] = e],
                                     !.flash = [d.flash EXCEPT ![p] = f]]
  BY DEF Opened, Dev, f
<1> QED BY <1>3, <1>4, <1>5 DEF Dev

LEMMA ClosedDev ==
  ASSUME NEW d \in Dev, NEW h \in Handle
  PROVE  Closed(d, h) \in Dev
  BY DEF Closed, Dev, EntryRec

LEMMA WrittenDev ==
  ASSUME NEW d \in Dev, NEW h \in Handle, NEW ch \in Chunk, d.entry[h].off # Cap
  PROVE  Written(d, h, ch) \in Dev
<1> DEFINE e == d.entry[h]
<1>1. e \in EntryRec BY DEF Dev
<1>2. e.off + 1 \in 1..Cap BY <1>1, OtaConstants DEF EntryRec
<1>3. [e EXCEPT !.off = @ + 1] \in EntryRec BY <1>1, <1>2, OtaConstants DEF EntryRec
<1>4. [d.entry EXCEPT ![h].off = @ + 1] \in [Handle -> EntryRec] BY <1>3 DEF Dev
<1>5. [d.flash EXCEPT ![e.part][e.off + 1] = IF @ \in {Blank, ch} THEN ch ELSE Garbage]
        \in [Part -> [1..Cap -> Slot]]
  BY <1>1, <1>2 DEF Dev, Slot, EntryRec
<1> QED BY <1>4, <1>5 DEF Written, Dev

LEMMA OpenedFrame ==
  ASSUME NEW d \in Dev, NEW h \in Handle, NEW p \in Part, NEW n \in Nat
  PROVE  /\ Opened(d, h, p, n).entry[h] = [used |-> TRUE, part |-> p, off |-> 0]
         /\ \A x \in Handle : x # h => Opened(d, h, p, n).entry[x] = d.entry[x]
         /\ \A q \in Part : q # p => Opened(d, h, p, n).flash[q] = d.flash[q]
  BY DEF Opened, Dev

LEMMA ClosedFrame ==
  ASSUME NEW d \in Dev, NEW h \in Handle
  PROVE  /\ ~Closed(d, h).entry[h].used
         /\ \A x \in Handle : x # h => Closed(d, h).entry[x] = d.entry[x]
         /\ Closed(d, h).flash = d.flash
  BY DEF Closed, Dev, EntryRec

LEMMA WrittenFrame ==
  ASSUME NEW d \in Dev, NEW h \in Handle, NEW ch \in Chunk, d.entry[h].off # Cap
  PROVE  LET w == Written(d, h, ch) IN
         /\ w.entry[h].used = d.entry[h].used
         /\ w.entry[h].part = d.entry[h].part
         /\ w.entry[h].off = d.entry[h].off + 1
         /\ \A x \in Handle : x # h => w.entry[x] = d.entry[x]
         /\ \A q \in Part : q # d.entry[h].part => w.flash[q] = d.flash[q]
  BY DEF Written, Dev, EntryRec

-----------------------------------------------------------------------------
(* Every agent function meets the contract.                                *)

LEMMA InitContract ==
  ASSUME NEW r, NEW d, NEW run, Pre(r, d, run), NEW o \in InitResults(r, d)
  PROVE  Contract(r, d, run, o)
<1>1. r \in CtxRec /\ d \in Dev BY DEF Pre
<1>2. CASE r.state # "IDLE"
  BY <1>2 DEF InitResults, Pre, Contract, Result
<1>3. CASE r.state = "IDLE"
  <2> DEFINE z == [r EXCEPT !.bytes = 0, !.part = NoPart, !.handle = 0]
             y == [z EXCEPT !.sha = "heap", !.state = "READY"]
  <2>5. 0 \in 0..Cap /\ NoPart \in Part \cup {NoPart} /\ 0 \in {0} \cup Handle
    BY OtaConstants
  <2>1. z \in CtxRec
    BY <1>1, <2>5 DEF CtxRec
  <2>2. y \in CtxRec
    BY <2>1 DEF CtxRec, State
  <2>3. z.handle = 0 /\ z.state = "IDLE" /\ y.handle = 0 /\ y.state = "READY"
    BY <1>1, <1>3 DEF CtxRec
  <2> HIDE DEF z, y
  <2>4. o = Result(y, d, "OK") \/ o = Result(z, d, "NO_MEM")
    BY <1>3 DEF InitResults, OneOf, z, y
  <2> QED BY <2>1, <2>2, <2>3, <2>4 DEF Contract, Pre, Result
<1> QED BY <1>2, <1>3

LEMMA StartContract ==
  ASSUME NEW r, NEW d, NEW run, Pre(r, d, run), NEW o \in StartResults(r, d, run)
  PROVE  Contract(r, d, run, o)
<1> DEFINE p  == NextPart(run)
           h  == CHOOSE x \in FreeHandles(d) : TRUE
           at == [r EXCEPT !.part = p]
           n  == Erase(r.fw)
           d1 == Opened(d, h, p, n)
           closed == Failed([at EXCEPT !.handle = 0])
           ok == [at EXCEPT !.handle = h, !.bytes = 0, !.sha = "live",
                            !.state = "RUNNING", !.log = <<>>]
<1>1. r \in CtxRec /\ d \in Dev /\ run \in Part BY DEF Pre
<1>2. CASE r.state # "READY"
  BY <1>2 DEF StartResults, Pre, Contract, Result
<1>3. CASE r.state = "READY"
  <2>1. p \in Part /\ n \in Nat
    BY <1>1, OtaConstants DEF NextPart, Part, Erase, CtxRec
  <2>2. r.handle = 0 BY <1>3 DEF Pre
  <2>3. Failed([r EXCEPT !.part = NoPart]) \in CtxRec /\ Failed(at) \in CtxRec
        /\ closed \in CtxRec
    BY <1>1, <2>1 DEF CtxRec, State, Failed
  <2>4. /\ Failed([r EXCEPT !.part = NoPart]).handle = 0 /\ Failed(at).handle = 0
        /\ closed.handle = 0 /\ closed.state = "ERROR" /\ Failed(at).state = "ERROR"
        /\ Failed([r EXCEPT !.part = NoPart]).state = "ERROR"
    BY <1>1, <2>2 DEF CtxRec, Failed
  <2>5. ASSUME h \in FreeHandles(d)
        PROVE  /\ ok \in CtxRec /\ ok.handle = h /\ ok.bytes = 0 /\ ok.sha = "live"
               /\ ok.state = "RUNNING" /\ ok.log = <<>> /\ ok.part = p
    <3>1. h \in Handle BY <2>5 DEF FreeHandles
    <3>2. 0 \in 0..Cap /\ p \in Part \cup {NoPart} /\ h \in {0} \cup Handle
      BY <2>1, <3>1, OtaConstants
    <3>3. <<>> \in Seq(Chunk) OBVIOUS
    <3> HIDE DEF p, h
    <3> QED BY <1>1, <3>2, <3>3 DEF CtxRec, State
  <2> DEFINE nothing == Failed([r EXCEPT !.part = NoPart])
             same == Failed(at)
  <2>6. \/ o \in {Result(nothing, d, "NOT_FOUND"), Result(same, d, "INVALID_STATE"),
                  Result(closed, d, "BEGIN")}
        \/ /\ h \in FreeHandles(d) /\ p # run
           /\ o \in {Result(closed, Closed(d1, h), "FAIL"), Result(ok, d1, "OK")}
    BY <1>3 DEF StartResults, OneOf
  <2> HIDE DEF closed, ok, at, p, n, h, nothing, same
  <2>7. CASE o \in {Result(nothing, d, "NOT_FOUND"), Result(same, d, "INVALID_STATE"),
                    Result(closed, d, "BEGIN")}
    BY <2>3, <2>4, <2>7 DEF Contract, Pre, Result, nothing, same
  <2>8. CASE h \in FreeHandles(d) /\ p # run
             /\ o \in {Result(closed, Closed(d1, h), "FAIL"), Result(ok, d1, "OK")}
    <3>1. h \in Handle /\ ~d.entry[h].used /\ h # 0 BY <2>8, OtaConstants DEF FreeHandles, Handle
    <3>2. d1 \in Dev BY <1>1, <2>1, <3>1, OpenedDev
    <3>3. /\ d1.entry[h].used /\ d1.entry[h].part = p /\ d1.entry[h].off = 0
          /\ \A x \in Handle : x # h => d1.entry[x] = d.entry[x]
          /\ d1.flash[run] = d.flash[run]
      <4>1. /\ d1.entry[h] = [used |-> TRUE, part |-> p, off |-> 0]
            /\ \A x \in Handle : x # h => d1.entry[x] = d.entry[x]
            /\ \A q \in Part : q # p => d1.flash[q] = d.flash[q]
        BY <1>1, <2>1, <3>1, OpenedFrame
      <4> QED BY <1>1, <2>8, <4>1
    <3> HIDE DEF d1
    <3>4. CASE o = Result(ok, d1, "OK")
      BY <1>1, <2>5, <2>8, <3>1, <3>2, <3>3, <3>4 DEF Contract, Pre, Result, InStep
    <3>5. CASE o = Result(closed, Closed(d1, h), "FAIL")
      <4>1. Closed(d1, h) \in Dev BY <3>1, <3>2, ClosedDev
      <4>2. /\ ~Closed(d1, h).entry[h].used
            /\ \A x \in Handle : x # h => Closed(d1, h).entry[x] = d1.entry[x]
            /\ Closed(d1, h).flash = d1.flash
        BY <3>1, <3>2, ClosedFrame
      <4> QED BY <1>1, <2>3, <2>4, <3>1, <3>3, <3>5, <4>1, <4>2 DEF Contract, Pre, Result
    <3> QED BY <2>8, <3>4, <3>5
  <2> QED BY <2>6, <2>7, <2>8
<1> QED BY <1>2, <1>3

LEMMA WriteContract ==
  ASSUME NEW r, NEW d, NEW run, Pre(r, d, run), NEW ch \in Chunk,
         NEW o \in WriteResults(r, d, ch)
  PROVE  Contract(r, d, run, o)
<1> DEFINE no == Failed(r)
           ok == [r EXCEPT !.bytes = @ + 1, !.log = Append(@, ch)]
           d1 == Written(d, r.handle, ch)
<1>1. r \in CtxRec /\ d \in Dev /\ run \in Part BY DEF Pre
<1>2. CASE r.state # "RUNNING"
  BY <1>2 DEF WriteResults, Pre, Contract, Result
<1>3. CASE r.state = "RUNNING"
  <2>1. InStep(r, d) /\ r.handle \in Handle
    BY <1>1, <1>3 DEF Pre, InStep, CtxRec
  <2>2. /\ no \in CtxRec /\ no.state = "ERROR" /\ no.handle = r.handle /\ no.part = r.part
    BY <1>1 DEF CtxRec, State, Failed
  <2>3. \/ o.ctx = no /\ o.dev = d /\ o.ret # "ENDED"
        \/ d.entry[r.handle].off # Cap /\ o = Result(no, d1, "FAIL")
        \/ d.entry[r.handle].off # Cap /\ o = Result(ok, d1, "OK")
    BY <1>3 DEF WriteResults, OneOf, Result
  <2>4. CASE o.ctx = no /\ o.dev = d /\ o.ret # "ENDED"
    BY <1>1, <2>2, <2>4 DEF Contract, Pre
  <2>5. CASE d.entry[r.handle].off # Cap /\ o \in {Result(no, d1, "FAIL"), Result(ok, d1, "OK")}
    <3> DEFINE h == r.handle
    <3>1. d1 \in Dev BY <1>1, <2>1, <2>5, WrittenDev
    <3>2. /\ d1.entry[h].used = d.entry[h].used /\ d1.entry[h].part = d.entry[h].part
          /\ d1.entry[h].off = d.entry[h].off + 1
          /\ \A x \in Handle : x # h => d1.entry[x] = d.entry[x]
          /\ \A q \in Part : q # d.entry[h].part => d1.flash[q] = d.flash[q]
      BY <1>1, <2>1, <2>5, WrittenFrame
    <3>3. d.entry[h].used /\ d.entry[h].part = r.part /\ d.entry[h].part # run /\ h # 0
      BY <2>1 DEF Pre, InStep
    <3>4. d.entry[h].off \in 0..Cap BY <1>1, <2>1 DEF Dev, EntryRec
    <3>5. ok \in CtxRec
      <4>1. r.bytes + 1 \in 0..Cap BY <2>1, <2>5, <3>4, OtaConstants DEF InStep
      <4>2. r.log \in Seq(Chunk) BY <1>1 DEF CtxRec
      <4>3. Append(r.log, ch) \in Seq(Chunk) BY <4>2
      <4> QED BY <1>1, <4>1, <4>3 DEF CtxRec
    <3>6. /\ ok.handle = h /\ ok.part = r.part /\ ok.state = "RUNNING" /\ ok.sha = r.sha
          /\ ok.bytes = r.bytes + 1 /\ ok.log = Append(r.log, ch)
      BY <1>1, <1>3 DEF CtxRec
    <3>7. Len(ok.log) = Len(r.log) + 1 BY <1>1, <3>6 DEF CtxRec
    <3>8. InStep(ok, d1) BY <2>1, <3>2, <3>3, <3>6, <3>7 DEF InStep
    <3> HIDE DEF no, ok, d1
    <3>9. /\ \A x \in Handle : d1.entry[x].used => d1.entry[x].part # run
          /\ d1.flash[run] = d.flash[run]
      BY <1>1, <3>2, <3>3 DEF Pre
    <3>10. CASE o = Result(no, d1, "FAIL")
      BY <2>2, <3>1, <3>2, <3>3, <3>9, <3>10 DEF Contract, Result
    <3>11. CASE o = Result(ok, d1, "OK")
      BY <3>1, <3>2, <3>3, <3>5, <3>6, <3>8, <3>9, <3>11 DEF Contract, Result
    <3> QED BY <2>5, <3>10, <3>11
  <2> QED BY <2>3, <2>4, <2>5
<1> QED BY <1>2, <1>3

LEMMA EndContract ==
  ASSUME NEW r, NEW d, NEW run, Pre(r, d, run), NEW o \in EndResults(r, d)
  PROVE  Contract(r, d, run, o)
<1> DEFINE gone(s) == Failed([r EXCEPT !.handle = 0, !.part = NoPart, !.sha = s])
           ended == [r EXCEPT !.sha = "heap", !.handle = 0]
           shut == Closed(d, r.handle)
<1>1. r \in CtxRec /\ d \in Dev /\ run \in Part BY DEF Pre
<1>2. CASE r.state # "RUNNING"
  BY <1>2 DEF EndResults, Pre, Contract, Result
<1>3. CASE r.state = "RUNNING"
  <2>1. InStep(r, d) /\ r.handle \in Handle /\ r.part = d.entry[r.handle].part
    BY <1>1, <1>3 DEF Pre, InStep, CtxRec
  <2>2. r.part \in Part BY <1>1, <2>1 DEF Dev, EntryRec
  <2>3. /\ gone("heap") \in CtxRec /\ gone(r.sha) \in CtxRec
        /\ gone("heap").handle = 0 /\ gone(r.sha).handle = 0
        /\ gone("heap").state = "ERROR" /\ gone(r.sha).state = "ERROR"
    BY <1>1 DEF CtxRec, State, Failed
  <2>4. ended \in CtxRec /\ ended.handle = 0 /\ ended.state = "RUNNING" /\ ended.part = r.part
    BY <1>1, <1>3 DEF CtxRec
  <2>5. \/ o.ctx \in {gone("heap"), gone(r.sha)} /\ o.dev = shut /\ o.ret # "ENDED"
        \/ o = Result(ended, shut, "ENDED")
    BY <1>3 DEF EndResults, OneOf, Result
  <2>6. shut \in Dev BY <1>1, <2>1, ClosedDev
  <2>7. /\ ~shut.entry[r.handle].used
        /\ \A x \in Handle : x # r.handle => shut.entry[x] = d.entry[x]
        /\ shut.flash = d.flash
    BY <1>1, <2>1, ClosedFrame
  <2> HIDE DEF gone, ended, shut
  <2>8. \A x \in Handle : shut.entry[x].used => shut.entry[x].part # run
    BY <2>7 DEF Pre
  <2> QED BY <2>2, <2>3, <2>4, <2>5, <2>6, <2>7, <2>8 DEF Contract, Result
<1> QED BY <1>2, <1>3

LEMMA AbortContract ==
  ASSUME NEW r, NEW d, NEW run, Pre(r, d, run)
  PROVE  Contract(r, d, run, Aborted(r, d))
<1> DEFINE o == Aborted(r, d)
           out == [r EXCEPT !.state = "ABORTED", !.handle = 0, !.part = NoPart, !.bytes = 0,
                            !.sha = IF r.state = "RUNNING" THEN "heap" ELSE @]
<1>1. r \in CtxRec /\ d \in Dev /\ run \in Part BY DEF Pre
<1>2. CASE r.state \in {"IDLE", "DONE", "ABORTED"}
  BY <1>2 DEF Aborted, Pre, Contract, Result
<1>3. CASE r.state \notin {"IDLE", "DONE", "ABORTED"}
  <2>0. 0 \in 0..Cap /\ NoPart \in Part \cup {NoPart} /\ 0 \in {0} \cup Handle
    BY OtaConstants
  <2>1. out \in CtxRec /\ out.handle = 0 /\ out.state = "ABORTED"
    BY <1>1, <2>0 DEF CtxRec, State
  <2> HIDE DEF out
  <2>2. o = Result(out, IF r.handle # 0 THEN Closed(d, r.handle) ELSE d, "OK")
    BY <1>3 DEF Aborted, out
  <2>3. CASE r.handle = 0
    BY <1>1, <2>1, <2>2, <2>3 DEF Contract, Pre, Result
  <2>4. CASE r.handle # 0
    <3>1. r.handle \in Handle BY <1>1, <2>4 DEF CtxRec
    <3>2. Closed(d, r.handle) \in Dev BY <1>1, <3>1, ClosedDev
    <3>3. /\ ~Closed(d, r.handle).entry[r.handle].used
          /\ \A x \in Handle : x # r.handle => Closed(d, r.handle).entry[x] = d.entry[x]
          /\ Closed(d, r.handle).flash = d.flash
      BY <1>1, <3>1, ClosedFrame
    <3> QED BY <1>1, <2>1, <2>2, <2>4, <3>2, <3>3 DEF Contract, Pre, Result
  <2> QED BY <2>3, <2>4
<1> QED BY <1>2, <1>3

LEMMA DeinitContract ==
  ASSUME NEW r, NEW d, NEW run, Pre(r, d, run)
  PROVE  Contract(r, d, run, Result(Deinited(r), d, "OK"))
<1>1. r \in CtxRec /\ d \in Dev /\ run \in Part BY DEF Pre
<1>2. CASE r.state = "RUNNING"
  BY <1>2 DEF Deinited, Pre, Contract, Result
<1>3. CASE r.state # "RUNNING"
  <2>1. 0 \in 0..Cap /\ 0 \in 0..MaxFw /\ <<>> \in Seq(Chunk)
    BY OtaConstants
  <2>2. Zeroed \in CtxRec /\ Zeroed.handle = 0 /\ Zeroed.state = "IDLE"
    BY <2>1 DEF Zeroed, CtxRec, State, Check
  <2> QED BY <1>1, <1>3, <2>2 DEF Deinited, Contract, Pre, Result
<1> QED BY <1>2, <1>3

\* The second half of ota_agent_finish runs on a session that has no handle.
LEMMA BootContract ==
  ASSUME NEW r \in CtxRec, NEW d \in Dev, NEW run \in Part,
         r.handle = 0, r.part \in Part, r.state = "RUNNING",
         \A h \in Handle : d.entry[h].used => d.entry[h].part # run,
         NEW o \in BootResults(r, d)
  PROVE  Contract(r, d, run, o)
<1> DEFINE no == Failed([r EXCEPT !.part = NoPart])
           ok == [r EXCEPT !.part = NoPart, !.state = "DONE"]
           d1 == [d EXCEPT !.boot = r.part]
<1>1. /\ no \in CtxRec /\ no.handle = 0 /\ no.state = "ERROR"
      /\ ok \in CtxRec /\ ok.handle = 0 /\ ok.state = "DONE"
  BY DEF CtxRec, State, Failed
<1>2. d1 \in Dev /\ d1.entry = d.entry /\ d1.flash = d.flash BY DEF Dev
<1>3. o \in {Result(no, d, "SET_BOOT"), Result(ok, d1, "OK")}
  BY DEF BootResults, OneOf
<1> HIDE DEF no, ok, d1
<1> QED BY <1>1, <1>2, <1>3 DEF Contract, Result

-----------------------------------------------------------------------------
(* A step that meets the contract preserves the invariant.                 *)

\* A step of session c that meets the contract, from a state of SessionsInv.
LEMMA ContractKeeps ==
  ASSUME SessionsInv, NEW c \in Ctx, NEW o,
         Contract(ctx[c], dev, running, o),
         Become(c, o),
         running' = running,
         leaked' \in BOOLEAN,
         ending' = IF o.ret = "ENDED" THEN ending \cup {c} ELSE ending \ {c}
  PROVE  SessionsInv' /\ dev'.flash[running] = dev.flash[running]
<1> USE DEF SessionsInv, Become
<1>1. /\ ctx' = [ctx EXCEPT ![c] = o.ctx] /\ dev' = o.dev
      /\ ctx'[c] = o.ctx /\ \A x \in Ctx \ {c} : ctx'[x] = ctx[x]
  BY DEF AgentTypeOK
<1>2. AgentTypeOK'
  BY <1>1 DEF AgentTypeOK, Contract
<1>3. \A x \in Ctx \ {c} : ctx[x].handle # 0 =>
         /\ ctx[x].handle \in Handle
         /\ ctx[x].handle # ctx[c].handle /\ ctx[x].handle # o.ctx.handle
         /\ dev'.entry[ctx[x].handle] = dev.entry[ctx[x].handle]
  <2> SUFFICES ASSUME NEW x \in Ctx \ {c}, ctx[x].handle # 0
               PROVE  /\ ctx[x].handle \in Handle
                      /\ ctx[x].handle # ctx[c].handle /\ ctx[x].handle # o.ctx.handle
                      /\ dev'.entry[ctx[x].handle] = dev.entry[ctx[x].handle]
    OBVIOUS
  <2>1. ctx[x].handle \in Handle BY DEF AgentTypeOK, CtxRec
  <2>2. dev.entry[ctx[x].handle].used /\ Owners(ctx[x].handle) = {x} BY DEF HandleOwned
  <2>3. ctx[x].handle # ctx[c].handle BY <2>2 DEF Owners
  <2>4. ctx[x].handle # o.ctx.handle BY <2>2, <2>3 DEF Contract
  <2> QED BY <1>1, <2>1, <2>2, <2>3, <2>4 DEF Contract
<1>4. HandleOwned'
  <2> SUFFICES ASSUME NEW x \in Ctx, ctx'[x].handle # 0
               PROVE  /\ dev'.entry[ctx'[x].handle].used
                      /\ dev'.entry[ctx'[x].handle].part = ctx'[x].part
                      /\ \A y \in Ctx : ctx'[y].handle = ctx'[x].handle => y = x
    BY DEF HandleOwned, Owners
  <2>1. CASE x = c
    BY <1>1, <1>3, <2>1 DEF Contract
  <2>2. CASE x # c
    <3>1. /\ dev.entry[ctx[x].handle].used /\ dev.entry[ctx[x].handle].part = ctx[x].part
          /\ Owners(ctx[x].handle) = {x}
      BY <1>1, <2>2 DEF HandleOwned
    <3> QED BY <1>1, <1>3, <2>2, <3>1 DEF Owners
  <2> QED BY <2>1, <2>2
<1>5. SessionInStep'
  <2> SUFFICES ASSUME NEW x \in Ctx, x \notin ending', ctx'[x].state = "RUNNING"
               PROVE  InStep(ctx'[x], dev')
    BY DEF SessionInStep, InStep
  <2>1. CASE x = c
    BY <1>1, <2>1 DEF Contract
  <2>2. CASE x # c
    <3>1. x \notin ending BY <2>2
    <3>2. InStep(ctx[x], dev) BY <1>1, <2>2, <3>1 DEF SessionInStep, InStep
    <3>3. ctx'[x] = ctx[x] BY <1>1, <2>2
    <3>4. ctx[x].handle # 0 BY <3>2, <3>3 DEF InStep
    <3>5. dev'.entry[ctx[x].handle] = dev.entry[ctx[x].handle] BY <1>3, <2>2, <3>4
    <3> QED BY <3>2, <3>3, <3>5 DEF InStep
  <2> QED BY <2>1, <2>2
<1>6. RunningClosed' /\ dev'.flash[running] = dev.flash[running]
  BY <1>1 DEF RunningClosed, Contract
<1>7. ReadyShape' /\ EndingShape'
  <2>1. ReadyShape' BY <1>1 DEF ReadyShape, Contract
  <2>2. EndingShape' BY <1>1 DEF EndingShape, Contract, AgentTypeOK
  <2> QED BY <2>1, <2>2
<1> QED BY <1>2, <1>4, <1>5, <1>6, <1>7

\* The same, where the image that runs is the factory image.
LEMMA ContractKeepsInv ==
  ASSUME AgentInv, NEW c \in Ctx, NEW o,
         Contract(ctx[c], dev, running, o),
         Become(c, o),
         running' = running,
         leaked' \in BOOLEAN,
         ending' = IF o.ret = "ENDED" THEN ending \cup {c} ELSE ending \ {c}
  PROVE  AgentInv'
<1>1. SessionsInv' /\ dev'.flash[running] = dev.flash[running]
  BY ContractKeeps DEF AgentInv
<1> QED BY <1>1 DEF AgentInv, SessionsInv, RunningUntouched, RunningClosed

\* A session outside ota_agent_finish meets what the functions assume.
LEMMA SessionPre ==
  ASSUME SessionsInv, NEW c \in Ctx \ ending
  PROVE  Pre(ctx[c], dev, running)
  BY DEF SessionsInv, AgentTypeOK, HandleOwned, SessionInStep, RunningClosed,
         ReadyShape, Pre, InStep

-----------------------------------------------------------------------------
(* The theorems.                                                           *)

LEMMA AgentStartsInv == AgentInit => AgentInv
<1> SUFFICES ASSUME AgentInit PROVE AgentInv OBVIOUS
<1>1. 0 \in 0..Cap /\ 0 \in 0..MaxFw /\ <<>> \in Seq(Chunk) /\ 0 \in Part
  BY OtaConstants DEF Part
<1>2. Zeroed \in CtxRec
  BY <1>1 DEF Zeroed, CtxRec, State, Check
<1>3. dev \in Dev
  <2>1. [h \in Handle |-> [used |-> FALSE, part |-> 0, off |-> 0]] \in [Handle -> EntryRec]
    BY <1>1 DEF EntryRec
  <2>2. \A p \in Part : [i \in 1..Cap |-> IF p = 0 /\ i <= ImageLen THEN <<Factory, i>> ELSE Blank]
                        \in [1..Cap -> Slot]
    BY OtaConstants DEF Slot, Chunk
  <2> QED BY <1>1, <2>1, <2>2 DEF AgentInit, Dev
<1>4. AgentTypeOK BY <1>1, <1>2, <1>3 DEF AgentInit, AgentTypeOK
<1>5. \A c \in Ctx : ctx[c] = Zeroed BY DEF AgentInit
<1>6. HandleOwned /\ SessionInStep /\ ReadyShape /\ EndingShape
  BY <1>5 DEF AgentInit, Zeroed, HandleOwned, SessionInStep, ReadyShape, EndingShape
<1>7. RunningUntouched
  <2>1. \A i \in 1..ImageLen : i \in 1..Cap /\ i <= ImageLen BY OtaConstants
  <2> QED BY <1>1, <2>1 DEF AgentInit, RunningUntouched, Holds
<1> QED BY <1>4, <1>6, <1>7 DEF AgentInv, SessionsInv, RunningUntouched, RunningClosed

LEMMA AgentStepInv == AgentInv /\ [AgentNext]_agentVars => AgentInv'
<1> SUFFICES ASSUME AgentInv, [AgentNext]_agentVars PROVE AgentInv' OBVIOUS
<1>1. CASE UNCHANGED agentVars
  BY <1>1 DEF AgentInv, SessionsInv, RunningClosed, agentVars, AgentTypeOK, HandleOwned, Owners, SessionInStep,
              RunningUntouched, ReadyShape, EndingShape
<1>2. CASE AgentNext
  <2>1. PICK c \in Ctx :
          \/ \E fw \in 0..MaxFw, check \in Check : InitSession(c, fw, check)
          \/ Start(c)
          \/ \E ch \in Chunk : Write(c, ch)
          \/ FinishEnd(c) \/ FinishBoot(c)
          \/ Abort(c) \/ Deinit(c)
    BY <1>2 DEF AgentNext
  <2>2. ASSUME c \notin ending PROVE Pre(ctx[c], dev, running)
    BY <2>2, SessionPre DEF AgentInv
  <2>3. leaked \in BOOLEAN BY DEF AgentInv, SessionsInv, AgentTypeOK
  <2>4. CASE FinishBoot(c)
    <3>1. PICK o \in BootResults(ctx[c], dev) : Become(c, o) BY <2>4 DEF FinishBoot
    <3>2. o.ret # "ENDED" BY DEF BootResults, OneOf, Result
    <3>3. Contract(ctx[c], dev, running, o)
      BY <2>4, BootContract DEF FinishBoot, AgentInv, SessionsInv, AgentTypeOK, EndingShape,
                                     RunningClosed
    <3> QED BY <2>3, <2>4, <3>1, <3>2, <3>3, ContractKeepsInv DEF FinishBoot
  <2>5. ASSUME NEW fw \in 0..MaxFw, NEW check \in Check, InitSession(c, fw, check) PROVE AgentInv'
    <3> DEFINE r == [ctx[c] EXCEPT !.fw = IF ctx[c].state = "IDLE" THEN fw ELSE @,
                                   !.check = IF ctx[c].state = "IDLE" THEN check ELSE @]
    <3>1. PICK o \in InitResults(r, dev) : Become(c, o) BY <2>5 DEF InitSession
    <3>2. ctx[c] \in CtxRec BY DEF AgentInv, SessionsInv, AgentTypeOK
    <3>3. r \in CtxRec /\ r.handle = ctx[c].handle /\ r.part = ctx[c].part
          /\ r.state = ctx[c].state /\ r.bytes = ctx[c].bytes /\ r.log = ctx[c].log
          /\ r.sha = ctx[c].sha
      BY <3>2 DEF CtxRec
    <3> HIDE DEF r
    <3>4. Pre(r, dev, running) BY <2>2, <2>5, <3>3 DEF InitSession, Pre, InStep
    <3>5. Contract(r, dev, running, o) BY <3>4, InitContract
    <3>6. Contract(ctx[c], dev, running, o) BY <3>3, <3>5 DEF Contract
    <3>7. o.ret # "ENDED" BY DEF InitResults, OneOf, Result
    <3> QED BY <2>3, <2>5, <3>1, <3>6, <3>7, ContractKeepsInv DEF InitSession
  <2>6. CASE Start(c)
    <3>1. PICK o \in StartResults(ctx[c], dev, running) : Become(c, o) BY <2>6 DEF Start
    <3>2. Contract(ctx[c], dev, running, o) BY <2>2, <2>6, StartContract DEF Start
    <3>3. o.ret # "ENDED" BY DEF StartResults, OneOf, Result
    <3> QED BY <2>3, <2>6, <3>1, <3>2, <3>3, ContractKeepsInv DEF Start
  <2>7. ASSUME NEW ch \in Chunk, Write(c, ch) PROVE AgentInv'
    <3>1. PICK o \in WriteResults(ctx[c], dev, ch) : Become(c, o) BY <2>7 DEF Write
    <3>2. Contract(ctx[c], dev, running, o) BY <2>2, <2>7, WriteContract DEF Write
    <3>3. o.ret # "ENDED" BY DEF WriteResults, OneOf, Result
    <3> QED BY <2>3, <2>7, <3>1, <3>2, <3>3, ContractKeepsInv DEF Write
  <2>8. CASE FinishEnd(c)
    <3>1. PICK o \in EndResults(ctx[c], dev) :
            Become(c, o) /\ ending' = IF o.ret = "ENDED" THEN ending \cup {c} ELSE ending
      BY <2>8 DEF FinishEnd
    <3>2. Contract(ctx[c], dev, running, o) BY <2>2, <2>8, EndContract DEF FinishEnd
    <3> QED BY <2>3, <2>8, <3>1, <3>2, ContractKeepsInv DEF FinishEnd
  <2>9. CASE Abort(c)
    <3> DEFINE o == Aborted(ctx[c], dev)
    <3>1. Contract(ctx[c], dev, running, o) BY <2>2, <2>9, AbortContract DEF Abort
    <3>2. o.ret # "ENDED" BY DEF Aborted, Result
    <3>3. Become(c, o) /\ c \notin ending BY <2>9 DEF Abort
    <3> HIDE DEF o
    <3> QED BY <2>3, <2>9, <3>1, <3>2, <3>3, ContractKeepsInv DEF Abort
  <2>10. CASE Deinit(c)
    <3> DEFINE o == Result(Deinited(ctx[c]), dev, "OK")
    <3>1. Contract(ctx[c], dev, running, o) BY <2>2, <2>10, DeinitContract DEF Deinit
    <3>2. o.ret # "ENDED" BY DEF Result
    <3>3. Become(c, o) /\ c \notin ending BY <2>10 DEF Deinit, Become, Result
    <3>4. leaked' \in BOOLEAN BY <2>3, <2>10 DEF Deinit
    <3> HIDE DEF o
    <3> QED BY <2>10, <3>1, <3>2, <3>3, <3>4, ContractKeepsInv DEF Deinit
  <2> QED BY <2>1, <2>4, <2>5, <2>6, <2>7, <2>8, <2>9, <2>10
<1> QED BY <1>1, <1>2

\* AgentInv is an inductive invariant of the agent.
THEOREM AgentInvariant == AgentSpec => []AgentInv
  BY AgentStartsInv, AgentStepInv, PTL DEF AgentSpec

\* Every field of every session and of the flash device keeps its type.
THEOREM AgentTypeCorrect == AgentSpec => []AgentTypeOK
<1>1. AgentInv => AgentTypeOK BY DEF AgentInv, SessionsInv
<1> QED BY <1>1, AgentInvariant, PTL

\* ota_agent.c:316: write, finish and abort only use a handle that is open,
\* on the session's own partition, and that no other session holds.
THEOREM HandlesAreOwned == AgentSpec => []HandleOwned
<1>1. AgentInv => HandleOwned BY DEF AgentInv, SessionsInv
<1> QED BY <1>1, AgentInvariant, PTL

\* bytes_written of a RUNNING session is what its handle has programmed.
THEOREM SessionsInStep == AgentSpec => []SessionInStep
<1>1. AgentInv => SessionInStep BY DEF AgentInv, SessionsInv
<1> QED BY <1>1, AgentInvariant, PTL

\* However sessions interleave and fail, the running firmware stays whole.
THEOREM RunningFirmwareSafe == AgentSpec => []RunningUntouched
<1>1. AgentInv => RunningUntouched BY DEF AgentInv
<1> QED BY <1>1, AgentInvariant, PTL

-----------------------------------------------------------------------------
(* The service and its HTTP client                                         *)

\* The mutex is held exactly while the passive session is between the two
\* halves of ota_agent_finish.
MutexShape ==
  /\ mutex = "held" <=> Passive \in ending
  /\ mutex = "null" => ~busy

\* What the place of an HTTP task tells of its session.
HttpShape ==
  \A h \in Http :
    /\ http[h] \notin {"reading", "cleanup"} => ctx[h].handle = 0
    /\ http[h] = "open" => ctx[h].state = "IDLE"
    /\ http[h] = "reading" => ctx[h].state = "RUNNING"
    /\ http[h] = "cleanup" => ctx[h].state \in {"RUNNING", "ERROR"}
    /\ h \in ending => http[h] = "reading"

ServiceInv ==
  /\ ServiceTypeOK /\ SessionsInv /\ NoOrphanHandle
  /\ Bootable(dev.flash[running])
  /\ BusyMatchesSession /\ MutexShape /\ HttpShape

\* A step that is not a restart.
KeepsImage == running' = running /\ dev'.flash[running] = dev.flash[running]

\* The handles open after a call: the session's own, and those of others.
Accounts(r, d, o) ==
  \A h \in Handle : o.dev.entry[h].used => h = o.ctx.handle \/ (h # r.handle /\ d.entry[h].used)

IsResult(o) == o = Result(o.ctx, o.dev, o.ret)
TornDown(o) == [o EXCEPT !.ctx = Deinited(@)]

-----------------------------------------------------------------------------
(* Calls in sequence.                                                      *)

\* A call made on the outcome of another starts as the agent assumes.
LEMMA ContractPre ==
  ASSUME NEW r, NEW d, NEW run, NEW o, Pre(r, d, run), Contract(r, d, run, o), o.ret # "ENDED"
  PROVE  Pre(o.ctx, o.dev, run)
  BY DEF Pre, Contract

LEMMA ContractsCompose ==
  ASSUME NEW r, NEW d, NEW run, NEW o1, NEW o2,
         Contract(r, d, run, o1), Contract(o1.ctx, o1.dev, run, o2)
  PROVE  Contract(r, d, run, o2)
<1>1. \A h \in Handle : (h # r.handle /\ d.entry[h].used) => h # o1.ctx.handle
  BY OtaConstants DEF Contract, Handle
<1>2. o2.ctx.handle # 0 => o2.ctx.handle \in Handle
  BY DEF Contract, CtxRec
<1> QED BY <1>1, <1>2 DEF Contract

LEMMA AccountsCompose ==
  ASSUME NEW r, NEW d, NEW o1, NEW o2, Accounts(r, d, o1), Accounts(o1.ctx, o1.dev, o2)
  PROVE  Accounts(r, d, o2)
  BY DEF Accounts

\* Only the handle of the session a call is made for matters to its contract.
LEMMA SameHandle ==
  ASSUME NEW r, NEW s, NEW d, NEW run, NEW o, r.handle = s.handle
  PROVE  /\ Contract(r, d, run, o) => Contract(s, d, run, o)
         /\ Accounts(r, d, o) => Accounts(s, d, o)
  BY DEF Contract, Accounts

-----------------------------------------------------------------------------
(* What the agent's functions return, and the handles they account for.    *)

LEMMA FreshSession ==
  ASSUME NEW fw \in 0..MaxFw
  PROVE  LET z == [Zeroed EXCEPT !.fw = fw, !.check = "skip"] IN
         z \in CtxRec /\ z.state = "IDLE" /\ z.handle = 0 /\ z.sha = "null"
<1>1. 0 \in 0..Cap /\ 0 \in 0..MaxFw /\ <<>> \in Seq(Chunk)
  BY OtaConstants
<1>2. Zeroed \in CtxRec
  BY <1>1 DEF Zeroed, CtxRec, State, Check
<1> QED BY <1>2 DEF Zeroed, CtxRec, Check

LEMMA InitOutcome ==
  ASSUME NEW r \in CtxRec, NEW d, r.state = "IDLE", r.handle = 0, NEW o \in InitResults(r, d)
  PROVE  /\ IsResult(o) /\ Accounts(r, d, o) /\ o.dev = d /\ o.ctx.handle = 0
         /\ \/ o.ret = "OK" /\ o.ctx.state = "READY"
            \/ o.ret = "NO_MEM" /\ o.ctx.state = "IDLE" /\ o.ctx.sha = "null"
<1> DEFINE z == [r EXCEPT !.bytes = 0, !.part = NoPart, !.handle = 0]
           y == [z EXCEPT !.sha = "heap", !.state = "READY"]
<1>1. /\ z.handle = 0 /\ z.state = "IDLE" /\ z.sha = r.sha
      /\ y.handle = 0 /\ y.state = "READY"
  BY DEF CtxRec
<1>2. o = Result(y, d, "OK") \/ (o = Result(z, d, "NO_MEM") /\ r.sha = "null")
  BY DEF InitResults, OneOf
<1> HIDE DEF y, z
<1> QED BY <1>1, <1>2 DEF IsResult, Accounts, Result

LEMMA StartOutcome ==
  ASSUME NEW r, NEW d, NEW run, Pre(r, d, run), r.state = "READY",
         NEW o \in StartResults(r, d, run)
  PROVE  /\ IsResult(o) /\ Accounts(r, d, o) /\ o.ret # "ENDED"
         /\ o.ret = "OK" => o.ctx.state = "RUNNING"
         /\ o.ret # "OK" => o.ctx.state = "ERROR" /\ o.ctx.handle = 0
<1> DEFINE p  == NextPart(run)
           h  == CHOOSE x \in FreeHandles(d) : TRUE
           at == [r EXCEPT !.part = p]
           n  == Erase(r.fw)
           d1 == Opened(d, h, p, n)
           closed == Failed([at EXCEPT !.handle = 0])
           nothing == Failed([r EXCEPT !.part = NoPart])
           same == Failed(at)
           ok == [at EXCEPT !.handle = h, !.bytes = 0, !.sha = "live",
                            !.state = "RUNNING", !.log = <<>>]
<1>1. r \in CtxRec /\ d \in Dev /\ run \in Part /\ r.handle = 0 BY DEF Pre
<1>2. p \in Part /\ n \in Nat
  BY <1>1, OtaConstants DEF NextPart, Part, Erase, CtxRec
<1>3. /\ nothing.handle = 0 /\ nothing.state = "ERROR"
      /\ same.handle = 0 /\ same.state = "ERROR"
      /\ closed.handle = 0 /\ closed.state = "ERROR"
      /\ ok.handle = h /\ ok.state = "RUNNING"
  BY <1>1 DEF CtxRec, Failed
<1>4. \/ o \in {Result(nothing, d, "NOT_FOUND"), Result(same, d, "INVALID_STATE"),
                Result(closed, d, "BEGIN")}
      \/ /\ h \in FreeHandles(d)
         /\ o \in {Result(closed, Closed(d1, h), "FAIL"), Result(ok, d1, "OK")}
  BY DEF StartResults, OneOf
<1> HIDE DEF closed, ok, at, p, n, h, nothing, same
<1>5. CASE o \in {Result(nothing, d, "NOT_FOUND"), Result(same, d, "INVALID_STATE"),
                  Result(closed, d, "BEGIN")}
  BY <1>1, <1>3, <1>5, OtaConstants DEF IsResult, Accounts, Result, Handle
<1>6. CASE h \in FreeHandles(d)
           /\ o \in {Result(closed, Closed(d1, h), "FAIL"), Result(ok, d1, "OK")}
  <2>1. h \in Handle BY <1>6 DEF FreeHandles
  <2>2. d1 \in Dev /\ \A x \in Handle : x # h => d1.entry[x] = d.entry[x]
    <3>1. d \in Dev BY <1>1
    <3>2. d1 \in Dev BY <3>1, <1>2, <2>1, OpenedDev
    <3>3. \A x \in Handle : x # h => d1.entry[x] = d.entry[x]
      BY <3>1, <1>2, <2>1, OpenedFrame
    <3> QED BY <3>2, <3>3
  <2> HIDE DEF d1
  <2>3. /\ ~Closed(d1, h).entry[h].used
        /\ \A x \in Handle : x # h => Closed(d1, h).entry[x] = d1.entry[x]
    BY <2>1, <2>2, ClosedFrame
  <2> QED BY <1>1, <1>3, <1>6, <2>1, <2>2, <2>3, OtaConstants
          DEF IsResult, Accounts, Result, Handle
<1> QED BY <1>4, <1>5, <1>6

LEMMA WriteOutcome ==
  ASSUME NEW r, NEW d, NEW run, Pre(r, d, run), r.state = "RUNNING", NEW ch \in Chunk,
         NEW o \in WriteResults(r, d, ch)
  PROVE  /\ IsResult(o) /\ Accounts(r, d, o) /\ o.ret # "ENDED"
         /\ o.ret = "OK" => o.ctx.state = "RUNNING"
         /\ o.ret # "OK" => o.ctx.state = "ERROR"
<1> DEFINE no == Failed(r)
           ok == [r EXCEPT !.bytes = @ + 1, !.log = Append(@, ch)]
           d1 == Written(d, r.handle, ch)
<1>1. r \in CtxRec /\ d \in Dev /\ r.handle \in Handle
  BY DEF Pre, InStep, CtxRec
<1>2. /\ no.state = "ERROR" /\ no.handle = r.handle
      /\ ok.state = "RUNNING" /\ ok.handle = r.handle
  BY <1>1 DEF CtxRec, Failed
<1>3. \/ o \in {Result(no, d, "INVALID_SIZE"), Result(no, d, "WRITE")}
      \/ d.entry[r.handle].off # Cap /\ o \in {Result(no, d1, "FAIL"), Result(ok, d1, "OK")}
  BY DEF WriteResults, OneOf
<1> HIDE DEF no, ok
<1>4. CASE o \in {Result(no, d, "INVALID_SIZE"), Result(no, d, "WRITE")}
  BY <1>2, <1>4 DEF IsResult, Accounts, Result
<1>5. CASE d.entry[r.handle].off # Cap /\ o \in {Result(no, d1, "FAIL"), Result(ok, d1, "OK")}
  <2>1. \A x \in Handle : x # r.handle => d1.entry[x] = d.entry[x]
    BY <1>1, <1>5, WrittenFrame
  <2> HIDE DEF d1
  <2> QED BY <1>2, <1>5, <2>1 DEF IsResult, Accounts, Result
<1> QED BY <1>3, <1>4, <1>5

LEMMA EndOutcome ==
  ASSUME NEW r, NEW d, NEW run, Pre(r, d, run), r.state = "RUNNING",
         NEW o \in EndResults(r, d)
  PROVE  /\ IsResult(o) /\ Accounts(r, d, o) /\ o.ctx.handle = 0
         /\ o.ret = "ENDED" => o.ctx.state = "RUNNING"
         /\ o.ret # "ENDED" => o.ctx.state = "ERROR"
<1> DEFINE gone(s) == Failed([r EXCEPT !.handle = 0, !.part = NoPart, !.sha = s])
           ended == [r EXCEPT !.sha = "heap", !.handle = 0]
           shut == Closed(d, r.handle)
<1>1. r \in CtxRec /\ d \in Dev /\ r.handle \in Handle
  BY DEF Pre, InStep, CtxRec
<1>2. /\ gone("heap").handle = 0 /\ gone("heap").state = "ERROR"
      /\ gone(r.sha).handle = 0 /\ gone(r.sha).state = "ERROR"
      /\ ended.handle = 0 /\ ended.state = "RUNNING"
  BY <1>1 DEF CtxRec, Failed
<1>3. \/ o \in {Result(gone(r.sha), shut, "INVALID_SIZE"), Result(gone("heap"), shut, "INVALID_CRC"),
                Result(gone("heap"), shut, "FAIL"), Result(gone("heap"), shut, "END")}
      \/ o = Result(ended, shut, "ENDED")
  BY DEF EndResults, OneOf
<1>4. ~shut.entry[r.handle].used /\ \A x \in Handle : x # r.handle => shut.entry[x] = d.entry[x]
  BY <1>1, ClosedFrame
<1> HIDE DEF gone, ended, shut
<1>5. o.dev = shut /\ IsResult(o) /\ o.ctx.handle = 0
  BY <1>2, <1>3 DEF Result, IsResult
<1>6. (o.ret = "ENDED" => o.ctx.state = "RUNNING") /\ (o.ret # "ENDED" => o.ctx.state = "ERROR")
  BY <1>2, <1>3 DEF Result
<1> QED BY <1>4, <1>5, <1>6 DEF Accounts

LEMMA BootOutcome ==
  ASSUME NEW r \in CtxRec, NEW d \in Dev, r.handle = 0, NEW o \in BootResults(r, d)
  PROVE  /\ IsResult(o) /\ Accounts(r, d, o) /\ o.ctx.handle = 0
         /\ o.ctx.state \in {"DONE", "ERROR"} /\ o.ret # "ENDED"
         /\ o.ret # "OK" => o.ctx.state = "ERROR"
<1> DEFINE no == Failed([r EXCEPT !.part = NoPart])
           ok == [r EXCEPT !.part = NoPart, !.state = "DONE"]
           d1 == [d EXCEPT !.boot = r.part]
<1>1. no.handle = 0 /\ no.state = "ERROR" /\ ok.handle = 0 /\ ok.state = "DONE"
  BY DEF CtxRec, Failed
<1>2. d1.entry = d.entry BY DEF Dev
<1>3. o \in {Result(no, d, "SET_BOOT"), Result(ok, d1, "OK")}
  BY DEF BootResults, OneOf
<1> HIDE DEF no, ok, d1
<1> QED BY <1>1, <1>2, <1>3, OtaConstants DEF IsResult, Accounts, Result, Handle

\* Abort leaves no handle open, except on a session that has none to close.
LEMMA AbortOutcome ==
  ASSUME NEW r, NEW d, NEW run, Pre(r, d, run),
         r.state \in {"RUNNING", "ERROR", "READY"} \/ r.handle = 0
  PROVE  LET o == Aborted(r, d) IN
         /\ IsResult(o) /\ Accounts(r, d, o) /\ o.ctx.handle = 0
         /\ o.ctx.state # "RUNNING" /\ o.ret # "ENDED"
<1> DEFINE out == [r EXCEPT !.state = "ABORTED", !.handle = 0, !.part = NoPart, !.bytes = 0,
                            !.sha = IF r.state = "RUNNING" THEN "heap" ELSE @]
           d1 == IF r.handle # 0 THEN Closed(d, r.handle) ELSE d
           o == Aborted(r, d)
<1>1. r \in CtxRec /\ d \in Dev BY DEF Pre
<1>2. CASE r.state \in {"IDLE", "DONE", "ABORTED"}
  <2>1. r.handle = 0 BY <1>2
  <2>2. o = Result(r, d, "OK") BY <1>2 DEF Aborted
  <2> QED BY <1>2, <2>1, <2>2, OtaConstants DEF IsResult, Accounts, Result, Handle
<1>3. CASE r.state \notin {"IDLE", "DONE", "ABORTED"}
  <2>1. out.handle = 0 /\ out.state = "ABORTED" BY <1>1 DEF CtxRec
  <2>2. o = Result(out, d1, "OK") BY <1>3 DEF Aborted
  <2>3. \A x \in Handle : d1.entry[x].used => x # r.handle /\ d.entry[x].used
    <3>1. CASE r.handle = 0 BY <3>1, OtaConstants DEF Handle
    <3>2. CASE r.handle # 0
      <4>1. r.handle \in Handle BY <1>1, <3>2 DEF CtxRec
      <4> QED BY <1>1, <3>2, <4>1, ClosedFrame
    <3> QED BY <3>1, <3>2
  <2> HIDE DEF out, d1
  <2> QED BY <2>1, <2>2, <2>3 DEF IsResult, Accounts, Result
<1> QED BY <1>2, <1>3

\* ota_agent_deinit on the outcome of a call that left no handle open.
LEMMA TornDownOutcome ==
  ASSUME NEW o, NEW run, IsResult(o), Pre(o.ctx, o.dev, run),
         o.ctx.state # "RUNNING", o.ctx.handle = 0
  PROVE  /\ Contract(o.ctx, o.dev, run, TornDown(o)) \/ o.ret = "ENDED"
         /\ Accounts(o.ctx, o.dev, TornDown(o))
         /\ TornDown(o).ctx = Zeroed /\ TornDown(o).ret = o.ret
<1>1. TornDown(o) = Result(Zeroed, o.dev, o.ret)
  BY DEF TornDown, IsResult, Result, Deinited
<1>2. Contract(o.ctx, o.dev, run, Result(Zeroed, o.dev, "OK"))
  BY DeinitContract DEF Deinited
<1>3. Zeroed.handle = 0 BY DEF Zeroed
<1> QED BY <1>1, <1>2, <1>3, OtaConstants DEF Contract, Accounts, Result, Handle

-----------------------------------------------------------------------------
(* Steps that meet the contracts keep the invariant.                       *)

\* What every step of one session c with outcome o leaves behind.
LEMMA AnyStep ==
  ASSUME ServiceInv, NEW c \in Ctx, NEW o,
         Contract(ctx[c], dev, running, o), Accounts(ctx[c], dev, o), Become(c, o),
         running' = running, leaked' \in BOOLEAN,
         ending' = IF o.ret = "ENDED" THEN ending \cup {c} ELSE ending \ {c}
  PROVE  /\ SessionsInv' /\ NoOrphanHandle' /\ Bootable(dev'.flash[running']) /\ KeepsImage
         /\ ctx'[c] = o.ctx /\ \A x \in Ctx \ {c} : ctx'[x] = ctx[x]
<1>1. SessionsInv' /\ dev'.flash[running] = dev.flash[running]
  BY ContractKeeps DEF ServiceInv
<1>2. ctx'[c] = o.ctx /\ dev' = o.dev /\ \A x \in Ctx \ {c} : ctx'[x] = ctx[x]
  BY DEF Become, ServiceInv, SessionsInv, AgentTypeOK
<1>3. NoOrphanHandle'
  <2> SUFFICES ASSUME NEW h \in Handle, dev'.entry[h].used
               PROVE  \E x \in Ctx : ctx'[x].handle = h
    BY DEF NoOrphanHandle, Owners
  <2>1. CASE h = o.ctx.handle BY <1>2, <2>1
  <2>2. CASE h # ctx[c].handle /\ dev.entry[h].used
    <3>1. PICK x \in Ctx : ctx[x].handle = h
      BY <2>2 DEF ServiceInv, NoOrphanHandle, Owners
    <3> QED BY <1>2, <2>2, <3>1
  <2> QED BY <1>2, <2>1, <2>2 DEF Accounts
<1> QED BY <1>1, <1>2, <1>3 DEF KeepsImage, ServiceInv

LEMMA PassiveStep ==
  ASSUME ServiceInv, NEW o,
         Contract(ctx[Passive], dev, running, o), Accounts(ctx[Passive], dev, o),
         Become(Passive, o), running' = running, leaked' \in BOOLEAN,
         ending' = (IF o.ret = "ENDED" THEN ending \cup {Passive} ELSE ending \ {Passive}),
         UNCHANGED http,
         mutex' = (IF o.ret = "ENDED" THEN "held" ELSE "free"),
         busy' \in BOOLEAN, ret' \in {"none", "OK", "ERR"},
         o.ret # "ENDED" =>
           IF busy' THEN o.ctx.state \in {"RUNNING", "ERROR"}
           ELSE o.ctx.state = "IDLE" /\ o.ctx.handle = 0 /\ o.ctx.sha = "null"
  PROVE  ServiceInv' /\ KeepsImage
<1>0. Passive \in Ctx BY ServiceConstants
<1>1. /\ SessionsInv' /\ NoOrphanHandle' /\ Bootable(dev'.flash[running']) /\ KeepsImage
      /\ ctx'[Passive] = o.ctx /\ \A x \in Ctx \ {Passive} : ctx'[x] = ctx[x]
  BY <1>0, AnyStep
<1>2. ServiceTypeOK' BY <1>1 DEF ServiceInv, ServiceTypeOK, SessionsInv
<1>3. BusyMatchesSession' BY <1>1 DEF BusyMatchesSession
<1>4. MutexShape' BY DEF MutexShape
<1>5. HttpShape' BY <1>1, ServiceConstants DEF ServiceInv, HttpShape
<1> QED BY <1>1, <1>2, <1>3, <1>4, <1>5 DEF ServiceInv

LEMMA DownloadStep ==
  ASSUME ServiceInv, NEW h \in Http, NEW o, NEW pc \in HttpPc,
         Contract(ctx[h], dev, running, o), Accounts(ctx[h], dev, o),
         Become(h, o), running' = running, leaked' \in BOOLEAN,
         ending' = (IF o.ret = "ENDED" THEN ending \cup {h} ELSE ending \ {h}),
         UNCHANGED <<mutex, busy, ret>>, Goto(h, pc),
         pc \notin {"reading", "cleanup"} => o.ctx.handle = 0,
         pc = "open" => o.ctx.state = "IDLE",
         pc = "reading" => o.ctx.state = "RUNNING",
         pc = "cleanup" => o.ctx.state \in {"RUNNING", "ERROR"},
         o.ret = "ENDED" => pc = "reading"
  PROVE  ServiceInv' /\ KeepsImage
<1>0. h \in Ctx /\ h # Passive /\ Passive \in Ctx /\ Http \subseteq Ctx BY ServiceConstants
<1>1. /\ SessionsInv' /\ NoOrphanHandle' /\ Bootable(dev'.flash[running']) /\ KeepsImage
      /\ ctx'[h] = o.ctx /\ \A x \in Ctx \ {h} : ctx'[x] = ctx[x]
  BY <1>0, AnyStep
<1>2. http' \in [Http -> HttpPc] /\ http'[h] = pc /\ \A x \in Http \ {h} : http'[x] = http[x]
  BY DEF Goto, ServiceInv, ServiceTypeOK
<1>3. ServiceTypeOK' BY <1>1, <1>2 DEF ServiceInv, ServiceTypeOK, SessionsInv
<1>4. BusyMatchesSession' BY <1>0, <1>1 DEF ServiceInv, BusyMatchesSession
<1>5. MutexShape' BY <1>0 DEF ServiceInv, MutexShape
<1>6. HttpShape'
  <2> SUFFICES ASSUME NEW x \in Http
               PROVE  /\ http'[x] \notin {"reading", "cleanup"} => ctx'[x].handle = 0
                      /\ http'[x] = "open" => ctx'[x].state = "IDLE"
                      /\ http'[x] = "reading" => ctx'[x].state = "RUNNING"
                      /\ http'[x] = "cleanup" => ctx'[x].state \in {"RUNNING", "ERROR"}
                      /\ x \in ending' => http'[x] = "reading"
    BY DEF HttpShape
  <2>1. CASE x = h BY <1>1, <1>2, <2>1
  <2>2. CASE x # h BY <1>0, <1>1, <1>2, <2>2 DEF ServiceInv, HttpShape
  <2> QED BY <2>1, <2>2
<1> QED BY <1>1, <1>3, <1>4, <1>5, <1>6 DEF ServiceInv

\* A step that only moves the service's own variables.
LEMMA QuietStep ==
  ASSUME ServiceInv, UNCHANGED agentVars, ServiceTypeOK',
         (BusyMatchesSession /\ MutexShape /\ HttpShape)'
  PROVE  ServiceInv' /\ KeepsImage
  BY DEF ServiceInv, KeepsImage, agentVars, SessionsInv, AgentTypeOK, HandleOwned, Owners,
         SessionInStep, RunningClosed, ReadyShape, EndingShape, NoOrphanHandle

LEMMA RefuseStep ==
  ASSUME ServiceInv, UNCHANGED <<agentVars, mutex, busy, http>>, ret' \in {"none", "OK", "ERR"}
  PROVE  ServiceInv' /\ KeepsImage
<1>1. ServiceTypeOK' BY DEF ServiceInv, ServiceTypeOK, agentVars, AgentTypeOK
<1>2. (BusyMatchesSession /\ MutexShape /\ HttpShape)'
  BY DEF ServiceInv, BusyMatchesSession, MutexShape, HttpShape, agentVars
<1> QED BY <1>1, <1>2, QuietStep

-----------------------------------------------------------------------------
(* The calls of the service.                                               *)

\* With the mutex free the passive session is outside ota_agent_finish.
LEMMA PassiveReady ==
  ASSUME ServiceInv, mutex # "held"
  PROVE  /\ Passive \in Ctx \ ending /\ Pre(ctx[Passive], dev, running)
         /\ ending \ {Passive} = ending /\ leaked \in BOOLEAN
         /\ mutex \in {"null", "free"}
<1>1. Passive \in Ctx \ ending BY ServiceConstants DEF ServiceInv, MutexShape
<1> QED BY <1>1, SessionPre DEF ServiceInv, SessionsInv, AgentTypeOK, ServiceTypeOK

LEMMA ServiceInitStep ==
  ASSUME ServiceInv, mutex = "null", ServiceInit
  PROVE  ServiceInv' /\ KeepsImage
<1> USE DEF ServiceInit, NoHttp, agentVars
<1>1. ServiceTypeOK' BY DEF ServiceInv, ServiceTypeOK, AgentTypeOK
<1>2. (BusyMatchesSession /\ MutexShape /\ HttpShape)'
  BY DEF ServiceInv, BusyMatchesSession, MutexShape, HttpShape
<1> QED BY <1>1, <1>2, QuietStep

\* ota_agent_init and ota_agent_start, and ota_agent_deinit if start fails.
LEMMA BeginOutcome ==
  ASSUME ServiceInv, mutex = "free", ~busy, NEW fw \in 0..MaxFw, NEW o \in BeginResults(fw)
  PROVE  /\ Contract(ctx[Passive], dev, running, o) /\ Accounts(ctx[Passive], dev, o)
         /\ o.ret # "ENDED"
         /\ IF o.ret = "OK" THEN o.ctx.state = "RUNNING"
            ELSE o.ctx.state = "IDLE" /\ o.ctx.handle = 0 /\ o.ctx.sha = "null"
<1> DEFINE z == [Zeroed EXCEPT !.fw = fw, !.check = "skip"]
<1>1. z \in CtxRec /\ z.state = "IDLE" /\ z.handle = 0 /\ z.sha = "null" BY FreshSession
<1> HIDE DEF z
<1>2. Pre(ctx[Passive], dev, running) /\ ctx[Passive].handle = 0
  BY PassiveReady DEF ServiceInv, BusyMatchesSession
<1>3. Pre(z, dev, running) BY <1>1, <1>2 DEF Pre
<1>4. SUFFICES /\ Contract(z, dev, running, o) /\ Accounts(z, dev, o) /\ o.ret # "ENDED"
               /\ IF o.ret = "OK" THEN o.ctx.state = "RUNNING"
                  ELSE o.ctx.state = "IDLE" /\ o.ctx.handle = 0 /\ o.ctx.sha = "null"
  BY <1>1, <1>2, SameHandle
<1>5. PICK i \in InitResults(z, dev) :
        IF i.ret = "OK"
        THEN \E s \in StartResults(i.ctx, i.dev, running) : o = IF s.ret = "OK" THEN s ELSE TornDown(s)
        ELSE o = i
  BY DEF BeginResults, z, TornDown
<1>6. /\ Contract(z, dev, running, i) /\ Accounts(z, dev, i) /\ i.ctx.handle = 0
      /\ \/ i.ret = "OK" /\ i.ctx.state = "READY"
         \/ i.ret = "NO_MEM" /\ i.ctx.state = "IDLE" /\ i.ctx.sha = "null"
  BY <1>1, <1>3, InitContract, InitOutcome
<1>7. CASE i.ret # "OK" BY <1>5, <1>6, <1>7
<1>8. CASE i.ret = "OK"
  <2>1. Pre(i.ctx, i.dev, running) BY <1>3, <1>6, ContractPre
  <2>2. PICK s \in StartResults(i.ctx, i.dev, running) : o = IF s.ret = "OK" THEN s ELSE TornDown(s)
    BY <1>5, <1>8
  <2>3. Contract(i.ctx, i.dev, running, s) BY <2>1, StartContract
  <2>4. /\ IsResult(s) /\ Accounts(i.ctx, i.dev, s) /\ s.ret # "ENDED"
        /\ s.ret = "OK" => s.ctx.state = "RUNNING"
        /\ s.ret # "OK" => s.ctx.state = "ERROR" /\ s.ctx.handle = 0
    BY <1>6, <1>8, <2>1, StartOutcome
  <2>5. Contract(z, dev, running, s) /\ Accounts(z, dev, s)
    BY <1>3, <1>6, <2>3, <2>4, ContractsCompose, AccountsCompose
  <2>6. CASE s.ret = "OK" BY <2>2, <2>4, <2>5, <2>6
  <2>7. CASE s.ret # "OK"
    <3>1. Pre(s.ctx, s.dev, running) BY <2>1, <2>3, <2>4, ContractPre
    <3>2. /\ Contract(s.ctx, s.dev, running, o) /\ Accounts(s.ctx, s.dev, o)
          /\ o.ctx = Zeroed /\ o.ret = s.ret
      BY <2>2, <2>4, <2>7, <3>1, TornDownOutcome
    <3>3. Contract(z, dev, running, o) /\ Accounts(z, dev, o)
      BY <1>3, <2>5, <3>2, ContractsCompose, AccountsCompose
    <3> QED BY <2>4, <2>7, <3>2, <3>3 DEF Zeroed
  <2> QED BY <2>6, <2>7
<1> QED BY <1>7, <1>8

LEMMA BeginStep ==
  ASSUME ServiceInv, NEW fw \in 0..MaxFw, Begin(fw)
  PROVE  ServiceInv' /\ KeepsImage
<1>1. CASE Refuse BY <1>1, RefuseStep DEF Begin, Refuse, NoHttp
<1>2. CASE mutex = "free" /\ ~busy /\ ~Refuse
  <2>1. PICK o \in BeginResults(fw) : Become(Passive, o) /\ busy' = (o.ret = "OK") /\ ret' = Ret(o.ret)
    BY <1>2 DEF Begin
  <2>2. UNCHANGED <<running, ending, leaked, mutex, http>>
    BY <1>2 DEF Begin, NoHttp
  <2>3. /\ Contract(ctx[Passive], dev, running, o) /\ Accounts(ctx[Passive], dev, o)
        /\ o.ret # "ENDED"
        /\ IF o.ret = "OK" THEN o.ctx.state = "RUNNING"
           ELSE o.ctx.state = "IDLE" /\ o.ctx.handle = 0 /\ o.ctx.sha = "null"
    BY <1>2, BeginOutcome
  <2>4. ending \ {Passive} = ending /\ leaked \in BOOLEAN BY <1>2, PassiveReady
  <2> QED BY <1>2, <2>1, <2>2, <2>3, <2>4, PassiveStep DEF Ret
<1> QED BY <1>1, <1>2 DEF Begin

LEMMA WriteStep ==
  ASSUME ServiceInv, NEW ch \in Chunk, ServiceWrite(ch)
  PROVE  ServiceInv' /\ KeepsImage
<1>1. CASE Refuse BY <1>1, RefuseStep DEF ServiceWrite, Refuse, NoHttp
<1>2. CASE mutex = "free" /\ ~NotRunning /\ ~Refuse
  <2>1. PICK o \in WriteResults(ctx[Passive], dev, ch) : Become(Passive, o) /\ ret' = Ret(o.ret)
    BY <1>2 DEF ServiceWrite
  <2>2. UNCHANGED <<running, ending, leaked, mutex, busy, http>>
    BY <1>2 DEF ServiceWrite, NoHttp
  <2>3. busy /\ ctx[Passive].state = "RUNNING" BY <1>2 DEF NotRunning
  <2>4. /\ Pre(ctx[Passive], dev, running) /\ ending \ {Passive} = ending /\ leaked \in BOOLEAN
    BY <1>2, PassiveReady
  <2>5. Contract(ctx[Passive], dev, running, o) BY <2>4, WriteContract
  <2>6. /\ Accounts(ctx[Passive], dev, o) /\ o.ret # "ENDED"
        /\ o.ctx.state \in {"RUNNING", "ERROR"}
    BY <2>3, <2>4, WriteOutcome
  <2>7. busy' = TRUE BY <2>2, <2>3 DEF ServiceInv, ServiceTypeOK
  <2> QED BY <1>2, <2>1, <2>2, <2>4, <2>5, <2>6, <2>7, PassiveStep DEF Ret
<1> QED BY <1>1, <1>2 DEF ServiceWrite

\* A call that fails, or that ends the session, and ota_agent_deinit after it.
LEMMA PassiveTornDown ==
  ASSUME ServiceInv, NEW o, IsResult(o), Contract(ctx[Passive], dev, running, o),
         Accounts(ctx[Passive], dev, o), Pre(o.ctx, o.dev, running), o.ret # "ENDED",
         o.ctx.state # "RUNNING", o.ctx.handle = 0,
         Become(Passive, TornDown(o)), leaked' = (leaked \/ LeaksMd(o.ctx)),
         UNCHANGED <<running, http>>, ending' = ending \ {Passive},
         mutex' = "free", busy' = FALSE, ret' \in {"OK", "ERR"}
  PROVE  ServiceInv' /\ KeepsImage
<1> DEFINE t == TornDown(o)
<1>1. /\ Contract(o.ctx, o.dev, running, t) /\ Accounts(o.ctx, o.dev, t)
      /\ t.ctx = Zeroed /\ t.ret = o.ret
  BY TornDownOutcome
<1>2. Become(Passive, t) OBVIOUS
<1> HIDE DEF t
<1>3. Contract(ctx[Passive], dev, running, t) /\ Accounts(ctx[Passive], dev, t)
  BY <1>1, ContractsCompose, AccountsCompose
<1>4. leaked' \in BOOLEAN /\ busy' \in BOOLEAN /\ ~busy' BY DEF LeaksMd
<1>5. t.ctx.state = "IDLE" /\ t.ctx.handle = 0 /\ t.ctx.sha = "null" BY <1>1 DEF Zeroed
<1> QED BY <1>1, <1>2, <1>3, <1>4, <1>5, PassiveStep

LEMMA FinishStep ==
  ASSUME ServiceInv, ServiceFinish
  PROVE  ServiceInv' /\ KeepsImage
<1>1. CASE Refuse BY <1>1, RefuseStep DEF ServiceFinish, Refuse, NoHttp
<1>2. CASE mutex = "free" /\ ~NotRunning /\ ~Refuse
  <2>1. PICK o \in EndResults(ctx[Passive], dev) :
             IF o.ret = "ENDED"
             THEN /\ Become(Passive, o)
                  /\ ending' = ending \cup {Passive} /\ mutex' = "held"
                  /\ UNCHANGED <<running, leaked, busy, ret>>
             ELSE /\ Become(Passive, TornDown(o))
                  /\ leaked' = (leaked \/ LeaksMd(o.ctx))
                  /\ busy' = FALSE /\ ret' = "ERR"
                  /\ UNCHANGED <<running, ending, mutex>>
    BY <1>2 DEF ServiceFinish, TornDown
  <2>2. UNCHANGED http BY DEF ServiceFinish, NoHttp
  <2>3. ctx[Passive].state = "RUNNING" BY <1>2 DEF NotRunning
  <2>4. /\ Pre(ctx[Passive], dev, running) /\ ending \ {Passive} = ending /\ leaked \in BOOLEAN
    BY <1>2, PassiveReady
  <2>5. Contract(ctx[Passive], dev, running, o) BY <2>4, EndContract
  <2>6. /\ IsResult(o) /\ Accounts(ctx[Passive], dev, o) /\ o.ctx.handle = 0
        /\ o.ret # "ENDED" => o.ctx.state = "ERROR"
    BY <2>3, <2>4, EndOutcome
  <2>7. CASE o.ret = "ENDED"
    BY <2>1, <2>2, <2>4, <2>5, <2>6, <2>7, PassiveStep DEF ServiceInv, ServiceTypeOK
  <2>8. CASE o.ret # "ENDED"
    <3>1. Pre(o.ctx, o.dev, running) BY <2>4, <2>5, <2>8, ContractPre
    <3> QED BY <1>2, <2>1, <2>2, <2>4, <2>5, <2>6, <2>8, <3>1, PassiveTornDown
  <2> QED BY <2>7, <2>8
<1> QED BY <1>1, <1>2 DEF ServiceFinish

LEMMA FinishBootStep ==
  ASSUME ServiceInv, ServiceFinishBoot
  PROVE  ServiceInv' /\ KeepsImage
<1>1. PICK o \in BootResults(ctx[Passive], dev) :
        /\ Become(Passive, TornDown(o)) /\ leaked' = (leaked \/ LeaksMd(o.ctx)) /\ ret' = Ret(o.ret)
  BY DEF ServiceFinishBoot, TornDown
<1>2. /\ Passive \in ending /\ ending' = ending \ {Passive} /\ busy' = FALSE /\ mutex' = "free"
      /\ UNCHANGED <<running, http>>
  BY DEF ServiceFinishBoot, NoHttp
<1>3. /\ ctx[Passive] \in CtxRec /\ dev \in Dev /\ running \in Part
      /\ ctx[Passive].handle = 0 /\ ctx[Passive].part \in Part /\ ctx[Passive].state = "RUNNING"
      /\ \A h \in Handle : dev.entry[h].used => dev.entry[h].part # running
  BY <1>2, ServiceConstants DEF ServiceInv, SessionsInv, AgentTypeOK, EndingShape, RunningClosed
<1>4. Contract(ctx[Passive], dev, running, o) BY <1>3, BootContract
<1>5. /\ IsResult(o) /\ Accounts(ctx[Passive], dev, o) /\ o.ctx.handle = 0
      /\ o.ctx.state \in {"DONE", "ERROR"} /\ o.ret # "ENDED"
  BY <1>3, BootOutcome
<1>6. Pre(o.ctx, o.dev, running) BY <1>3, <1>4, <1>5 DEF Contract, Pre
<1> QED BY <1>1, <1>2, <1>4, <1>5, <1>6, PassiveTornDown DEF Ret

LEMMA AbortStep ==
  ASSUME ServiceInv, ServiceAbort
  PROVE  ServiceInv' /\ KeepsImage
<1>1. CASE UNCHANGED <<agentVars, mutex, busy>> /\ ret' \in {"OK", "ERR"}
  BY <1>1, RefuseStep DEF ServiceAbort, NoHttp
<1>2. CASE mutex = "free" /\ busy /\ ~UNCHANGED <<agentVars, mutex, busy>>
  <2> DEFINE o == Aborted(ctx[Passive], dev)
  <2>1. /\ Become(Passive, TornDown(o)) /\ leaked' = (leaked \/ LeaksMd(o.ctx))
        /\ busy' = FALSE /\ ret' = "OK" /\ UNCHANGED <<running, ending, mutex, http>>
    BY <1>2 DEF ServiceAbort, TornDown, NoHttp, Refuse
  <2>2. ctx[Passive].state \in {"RUNNING", "ERROR"}
    BY <1>2 DEF ServiceInv, BusyMatchesSession
  <2>3. /\ Pre(ctx[Passive], dev, running) /\ ending \ {Passive} = ending
    BY <1>2, PassiveReady
  <2>4. Contract(ctx[Passive], dev, running, o) BY <2>3, AbortContract
  <2>5. /\ IsResult(o) /\ Accounts(ctx[Passive], dev, o) /\ o.ctx.handle = 0
        /\ o.ctx.state # "RUNNING" /\ o.ret # "ENDED"
    BY <2>2, <2>3, AbortOutcome
  <2>6. Pre(o.ctx, o.dev, running) BY <2>3, <2>4, <2>5, ContractPre
  <2> HIDE DEF o
  <2> QED BY <1>2, <2>1, <2>3, <2>4, <2>5, <2>6, PassiveTornDown
<1> QED BY <1>1, <1>2 DEF ServiceAbort, Refuse

-----------------------------------------------------------------------------
(* The steps of a download.                                                *)

LEMMA MoveStep ==
  ASSUME ServiceInv, NEW h \in Http, NEW pc \in {"none", "checked", "new"}, Goto(h, pc),
         http[h] \in {"none", "checked", "new"}, UNCHANGED <<agentVars, mutex, busy, ret>>
  PROVE  ServiceInv' /\ KeepsImage
<1>1. http' \in [Http -> HttpPc] /\ http'[h] = pc /\ \A x \in Http \ {h} : http'[x] = http[x]
  BY DEF Goto, ServiceInv, ServiceTypeOK, HttpPc
<1>2. ServiceTypeOK' BY <1>1 DEF ServiceInv, ServiceTypeOK, agentVars, AgentTypeOK
<1>3. (BusyMatchesSession /\ MutexShape)'
  BY DEF ServiceInv, BusyMatchesSession, MutexShape, agentVars
<1>4. HttpShape' BY <1>1 DEF ServiceInv, HttpShape, agentVars
<1> QED BY <1>2, <1>3, <1>4, QuietStep

\* Outside ota_agent_finish the session of a task is ready for any call.
LEMMA DownloadReady ==
  ASSUME ServiceInv, NEW h \in Http, h \notin ending
  PROVE  /\ h \in Ctx \ ending /\ Pre(ctx[h], dev, running)
         /\ ending \ {h} = ending /\ leaked \in BOOLEAN
<1>1. h \in Ctx \ ending BY ServiceConstants
<1> QED BY <1>1, SessionPre DEF ServiceInv, SessionsInv, AgentTypeOK, ServiceTypeOK

LEMMA OpenStep ==
  ASSUME ServiceInv, NEW h \in Http, HttpOpen(h)
  PROVE  ServiceInv' /\ KeepsImage
<1>0. http[h] = "new" /\ h \notin ending BY DEF HttpOpen, ServiceInv, HttpShape
<1>1. CASE Goto(h, "none") /\ UNCHANGED <<ctx>>
  BY <1>0, <1>1, MoveStep DEF HttpOpen, agentVars
<1>2. ASSUME NEW fw \in HttpSizes, Goto(h, "open"),
             ctx' = [ctx EXCEPT ![h] = [Zeroed EXCEPT !.fw = fw, !.check = "skip"]]
      PROVE  ServiceInv' /\ KeepsImage
  <2> DEFINE z == [Zeroed EXCEPT !.fw = fw, !.check = "skip"]
             o == Result(z, dev, "OK")
  <2>1. UNCHANGED <<dev, running, ending, leaked, mutex, busy, ret>> BY DEF HttpOpen
  <2>2. z \in CtxRec /\ z.state = "IDLE" /\ z.handle = 0
    <3>1. fw \in 0..MaxFw BY ServiceConstants
    <3> QED BY <3>1, FreshSession
  <2>3. Become(h, o) BY <1>2, <2>1 DEF Become, Result
  <2>4. /\ Pre(ctx[h], dev, running) /\ ending \ {h} = ending /\ leaked \in BOOLEAN
    BY <1>0, DownloadReady
  <2>5. ctx[h].handle = 0 BY <1>0 DEF ServiceInv, HttpShape
  <2> HIDE DEF z
  <2>6. Contract(ctx[h], dev, running, o) /\ Accounts(ctx[h], dev, o)
    BY <2>2, <2>4, <2>5, OtaConstants DEF Pre, Contract, Accounts, Result, Handle
  <2>7. o.ctx = z /\ o.ret = "OK" BY DEF Result
  <2>9. "open" \in HttpPc BY DEF HttpPc
  <2> HIDE DEF o
  <2> QED BY <1>2, <2>1, <2>2, <2>3, <2>4, <2>6, <2>7, <2>9, DownloadStep
<1> QED BY <1>1, <1>2 DEF HttpOpen

\* A call of a task after which it tears its session down.
LEMMA DownloadTornDown ==
  ASSUME ServiceInv, NEW h \in Http, NEW o, NEW pc \in {"none", "restart"}, IsResult(o),
         Contract(ctx[h], dev, running, o), Accounts(ctx[h], dev, o),
         Pre(o.ctx, o.dev, running), o.ret # "ENDED", o.ctx.state # "RUNNING", o.ctx.handle = 0,
         Become(h, TornDown(o)), leaked' \in BOOLEAN, running' = running,
         ending' = ending \ {h}, UNCHANGED <<mutex, busy, ret>>, Goto(h, pc)
  PROVE  ServiceInv' /\ KeepsImage
<1> DEFINE t == TornDown(o)
<1>1. /\ Contract(o.ctx, o.dev, running, t) /\ Accounts(o.ctx, o.dev, t)
      /\ t.ctx = Zeroed /\ t.ret = o.ret
  BY TornDownOutcome
<1>2. Become(h, t) OBVIOUS
<1> HIDE DEF t
<1>3. Contract(ctx[h], dev, running, t) /\ Accounts(ctx[h], dev, t)
  BY <1>1, ContractsCompose, AccountsCompose
<1>5. t.ctx.handle = 0 /\ pc \in HttpPc BY <1>1 DEF Zeroed, HttpPc
<1> QED BY <1>1, <1>2, <1>3, <1>5, DownloadStep

LEMMA DownloadBeginStep ==
  ASSUME ServiceInv, NEW h \in Http, HttpBegin(h)
  PROVE  ServiceInv' /\ KeepsImage
<1>0. /\ http[h] = "open" /\ h \notin ending /\ ctx[h].state = "IDLE" /\ ctx[h].handle = 0
      /\ UNCHANGED <<running, ending, leaked, mutex, busy, ret>>
  BY DEF HttpBegin, ServiceInv, HttpShape
<1>1. /\ Pre(ctx[h], dev, running) /\ ending \ {h} = ending /\ leaked \in BOOLEAN
  BY <1>0, DownloadReady
<1>2. PICK i \in InitResults(ctx[h], dev) :
       IF i.ret # "OK"
       THEN Become(h, TornDown(i)) /\ Goto(h, "none")
       ELSE \E o \in StartResults(i.ctx, i.dev, running) :
              IF o.ret # "OK"
              THEN Become(h, TornDown(o)) /\ Goto(h, "none")
              ELSE Become(h, o) /\ \E pc \in {"reading", "cleanup"} : Goto(h, pc)
  BY DEF HttpBegin, TornDown
<1>3. /\ Contract(ctx[h], dev, running, i) /\ IsResult(i) /\ Accounts(ctx[h], dev, i)
      /\ i.ctx.handle = 0
      /\ \/ i.ret = "OK" /\ i.ctx.state = "READY"
         \/ i.ret = "NO_MEM" /\ i.ctx.state = "IDLE"
  BY <1>0, <1>1, InitContract, InitOutcome DEF Pre
<1>4. Pre(i.ctx, i.dev, running) BY <1>1, <1>3, ContractPre
<1>5. CASE i.ret # "OK"
  BY <1>0, <1>1, <1>2, <1>3, <1>4, <1>5, DownloadTornDown
<1>6. CASE i.ret = "OK"
  <2>1. PICK o \in StartResults(i.ctx, i.dev, running) :
              IF o.ret # "OK"
              THEN Become(h, TornDown(o)) /\ Goto(h, "none")
              ELSE Become(h, o) /\ \E pc \in {"reading", "cleanup"} : Goto(h, pc)
    BY <1>2, <1>6
  <2>2. Contract(i.ctx, i.dev, running, o) BY <1>4, StartContract
  <2>3. /\ IsResult(o) /\ Accounts(i.ctx, i.dev, o) /\ o.ret # "ENDED"
        /\ o.ret = "OK" => o.ctx.state = "RUNNING"
        /\ o.ret # "OK" => o.ctx.state = "ERROR" /\ o.ctx.handle = 0
    BY <1>3, <1>4, <1>6, StartOutcome
  <2>4. Contract(ctx[h], dev, running, o) /\ Accounts(ctx[h], dev, o)
    BY <1>3, <2>2, <2>3, ContractsCompose, AccountsCompose
  <2>5. CASE o.ret # "OK"
    <3>1. Pre(o.ctx, o.dev, running) BY <1>4, <2>2, <2>3, ContractPre
    <3> QED BY <1>0, <1>1, <2>1, <2>3, <2>4, <2>5, <3>1, DownloadTornDown
  <2>6. CASE o.ret = "OK"
    <3>1. PICK pc \in {"reading", "cleanup"} : Goto(h, pc) BY <2>1, <2>6
    <3>2. pc \in HttpPc BY DEF HttpPc
    <3> QED BY <1>0, <1>1, <2>1, <2>3, <2>4, <2>6, <3>1, <3>2, DownloadStep
  <2> QED BY <2>5, <2>6
<1> QED BY <1>5, <1>6

LEMMA ReadStep ==
  ASSUME ServiceInv, NEW h \in Http, HttpRead(h)
  PROVE  ServiceInv' /\ KeepsImage
<1>0. /\ h \notin ending /\ ctx[h].state = "RUNNING"
      /\ UNCHANGED <<running, ending, leaked, mutex, busy, ret>>
  BY DEF HttpRead, ServiceInv, HttpShape
<1>1. /\ Pre(ctx[h], dev, running) /\ ending \ {h} = ending /\ leaked \in BOOLEAN
  BY <1>0, DownloadReady
<1>2. CASE Goto(h, "cleanup") /\ UNCHANGED <<ctx, dev>>
  <2> DEFINE o == Result(ctx[h], dev, "OK")
  <2>1. Contract(ctx[h], dev, running, o) /\ Accounts(ctx[h], dev, o)
    BY <1>1 DEF Contract, Accounts, Result, Pre, CtxRec
  <2>2. Become(h, o)
    BY <1>2, ServiceConstants DEF Become, Result, ServiceInv, SessionsInv, AgentTypeOK
  <2>3. o.ret = "OK" /\ o.ctx = ctx[h] /\ "cleanup" \in HttpPc BY DEF Result, HttpPc
  <2> HIDE DEF o
  <2> QED BY <1>0, <1>1, <1>2, <2>1, <2>2, <2>3, DownloadStep
<1>3. ASSUME NEW im \in HttpImage, NEW i \in 1..ImageLen,
             \E o \in WriteResults(ctx[h], dev, <<im, i>>) :
               Become(h, o) /\ Goto(h, IF o.ret = "OK" THEN "reading" ELSE "cleanup")
      PROVE  ServiceInv' /\ KeepsImage
  <2> DEFINE ch == <<im, i>>
  <2>1. ch \in Chunk BY ServiceConstants DEF Chunk
  <2> HIDE DEF ch
  <2>2. PICK o \in WriteResults(ctx[h], dev, ch) :
             Become(h, o) /\ Goto(h, IF o.ret = "OK" THEN "reading" ELSE "cleanup")
    BY <1>3 DEF ch
  <2>3. Contract(ctx[h], dev, running, o) BY <1>1, <2>1, WriteContract
  <2>4. /\ Accounts(ctx[h], dev, o) /\ o.ret # "ENDED"
        /\ o.ret = "OK" => o.ctx.state = "RUNNING"
        /\ o.ret # "OK" => o.ctx.state = "ERROR"
    BY <1>0, <1>1, <2>1, WriteOutcome
  <2>5. {"reading", "cleanup"} \subseteq HttpPc BY DEF HttpPc
  <2> QED BY <1>0, <1>1, <2>2, <2>3, <2>4, <2>5, DownloadStep
<1> QED BY <1>2, <1>3 DEF HttpRead

LEMMA EofStep ==
  ASSUME ServiceInv, NEW h \in Http, HttpEof(h)
  PROVE  ServiceInv' /\ KeepsImage
<1>0. /\ http[h] = "reading" /\ h \notin ending /\ ctx[h].state = "RUNNING"
      /\ UNCHANGED <<running, leaked, mutex, busy, ret>>
  BY DEF HttpEof, ServiceInv, HttpShape
<1>1. /\ Pre(ctx[h], dev, running) /\ ending \ {h} = ending /\ leaked \in BOOLEAN
      /\ http \in [Http -> HttpPc]
  BY <1>0, DownloadReady DEF ServiceInv, ServiceTypeOK
<1>2. PICK o \in EndResults(ctx[h], dev) :
       /\ Become(h, o)
       /\ IF o.ret = "ENDED" THEN ending' = ending \cup {h} /\ UNCHANGED http
                             ELSE Goto(h, "cleanup") /\ UNCHANGED ending
  BY DEF HttpEof
<1>3. Contract(ctx[h], dev, running, o) BY <1>1, EndContract
<1>4. /\ Accounts(ctx[h], dev, o) /\ o.ctx.handle = 0
      /\ o.ret = "ENDED" => o.ctx.state = "RUNNING"
      /\ o.ret # "ENDED" => o.ctx.state = "ERROR"
  BY <1>0, <1>1, EndOutcome
<1>5. Goto(h, IF o.ret = "ENDED" THEN "reading" ELSE "cleanup") BY <1>0, <1>1, <1>2 DEF Goto
<1>6. {"reading", "cleanup"} \subseteq HttpPc BY DEF HttpPc
<1> QED BY <1>0, <1>1, <1>2, <1>3, <1>4, <1>5, <1>6, DownloadStep

LEMMA DownloadBootStep ==
  ASSUME ServiceInv, NEW h \in Http, HttpFinishBoot(h)
  PROVE  ServiceInv' /\ KeepsImage
<1>0. /\ h \in ending /\ ending' = ending \ {h} /\ UNCHANGED <<running, mutex, busy, ret>>
  BY DEF HttpFinishBoot
<1>1. PICK o \in BootResults(ctx[h], dev) :
       IF o.ret = "OK"
       THEN /\ Become(h, TornDown(o))
            /\ leaked' = (leaked \/ LeaksMd(o.ctx)) /\ Goto(h, "restart")
       ELSE Become(h, o) /\ Goto(h, "cleanup") /\ UNCHANGED leaked
  BY DEF HttpFinishBoot, TornDown
<1>2. /\ ctx[h] \in CtxRec /\ dev \in Dev /\ running \in Part
      /\ ctx[h].handle = 0 /\ ctx[h].part \in Part /\ ctx[h].state = "RUNNING"
      /\ \A x \in Handle : dev.entry[x].used => dev.entry[x].part # running
      /\ leaked' \in BOOLEAN
  BY <1>0, <1>1, ServiceConstants
     DEF ServiceInv, ServiceTypeOK, SessionsInv, AgentTypeOK, EndingShape, RunningClosed, LeaksMd
<1>3. Contract(ctx[h], dev, running, o) BY <1>2, BootContract
<1>4. /\ IsResult(o) /\ Accounts(ctx[h], dev, o) /\ o.ctx.handle = 0
      /\ o.ctx.state \in {"DONE", "ERROR"} /\ o.ret # "ENDED"
      /\ o.ret # "OK" => o.ctx.state = "ERROR"
  BY <1>2, BootOutcome
<1>5. Pre(o.ctx, o.dev, running) BY <1>2, <1>3, <1>4 DEF Contract, Pre
<1>6. CASE o.ret = "OK" BY <1>0, <1>1, <1>2, <1>3, <1>4, <1>5, <1>6, DownloadTornDown
<1>7. CASE o.ret # "OK"
  <2>1. "cleanup" \in HttpPc BY DEF HttpPc
  <2> QED BY <1>0, <1>1, <1>2, <1>3, <1>4, <1>7, <2>1, DownloadStep
<1> QED BY <1>6, <1>7

\* abort_ota and exit: ota_agent_abort closes what is open before the session goes.
LEMMA CleanupStep ==
  ASSUME ServiceInv, NEW h \in Http, HttpCleanup(h)
  PROVE  ServiceInv' /\ KeepsImage
<1> DEFINE o == Aborted(ctx[h], dev)
<1>0. /\ h \notin ending /\ ctx[h].state \in {"RUNNING", "ERROR"}
      /\ UNCHANGED <<running, ending, mutex, busy, ret>> /\ Goto(h, "none")
      /\ Become(h, TornDown(o)) /\ leaked' = (leaked \/ LeaksMd(o.ctx))
  BY DEF HttpCleanup, ServiceInv, HttpShape, TornDown
<1>1. Pre(ctx[h], dev, running) /\ ending \ {h} = ending
  BY <1>0, DownloadReady
<1>2. Contract(ctx[h], dev, running, o) BY <1>1, AbortContract
<1>3. /\ IsResult(o) /\ Accounts(ctx[h], dev, o) /\ o.ctx.handle = 0
      /\ o.ctx.state # "RUNNING" /\ o.ret # "ENDED"
  BY <1>0, <1>1, AbortOutcome
<1>4. Pre(o.ctx, o.dev, running) BY <1>1, <1>2, <1>3, ContractPre
<1> HIDE DEF o
<1>5. leaked' \in BOOLEAN BY <1>0 DEF LeaksMd
<1> QED BY <1>0, <1>1, <1>2, <1>3, <1>4, <1>5, DownloadTornDown

-----------------------------------------------------------------------------
(* Restart, and the whole next-state relation.                              *)

\* Whatever otadata says, the bootloader finds a whole image.
LEMMA BootChoiceWhole ==
  ASSUME ServiceInv
  PROVE  BootChoice \in Part /\ Bootable(dev.flash[BootChoice])
<1>1. running \in Part /\ dev.boot \in Part /\ Bootable(dev.flash[running])
  BY DEF ServiceInv, SessionsInv, AgentTypeOK, Dev
<1>2. \E p \in Part : Bootable(dev.flash[p]) BY <1>1
<1>3. (CHOOSE p \in Part : Bootable(dev.flash[p])) \in Part
      /\ Bootable(dev.flash[CHOOSE p \in Part : Bootable(dev.flash[p])])
  BY <1>2
<1> QED BY <1>1, <1>3 DEF BootChoice

\* A device that has just started: no session, no open handle, no download.
Started ==
  /\ ctx \in [Ctx -> {Zeroed}] /\ dev \in Dev /\ running \in Part
  /\ \A h \in Handle : ~dev.entry[h].used
  /\ ending = {} /\ leaked = FALSE
  /\ Bootable(dev.flash[running]) /\ ServiceStart

LEMMA StartedInv == Started => ServiceInv
<1> SUFFICES ASSUME Started PROVE ServiceInv OBVIOUS
<1> USE DEF Started
<1>1. 0 \in 0..Cap /\ 0 \in 0..MaxFw /\ <<>> \in Seq(Chunk) BY OtaConstants
<1>2. Zeroed \in CtxRec BY <1>1 DEF Zeroed, CtxRec, State, Check
<1>3. /\ Zeroed.state = "IDLE" /\ Zeroed.handle = 0 /\ Zeroed.sha = "null"
      /\ \A c \in Ctx : ctx[c] = Zeroed
  BY DEF Zeroed
<1>4. AgentTypeOK BY <1>2 DEF AgentTypeOK
<1>5. SessionsInv
  BY <1>3, <1>4 DEF SessionsInv, HandleOwned, SessionInStep, RunningClosed, ReadyShape, EndingShape
<1>6. ServiceTypeOK BY <1>4, OtaConstants DEF ServiceStart, ServiceTypeOK, HttpPc
<1>7. BusyMatchesSession /\ MutexShape /\ HttpShape
  BY <1>3, ServiceConstants DEF ServiceStart, BusyMatchesSession, MutexShape, HttpShape
<1> QED BY <1>5, <1>6, <1>7 DEF ServiceInv, NoOrphanHandle

LEMMA StartedInvNext == Started' => ServiceInv'
  BY StartedInv, PTL

LEMMA RestartStep ==
  ASSUME ServiceInv, Restart
  PROVE  ServiceInv'
<1> DEFINE closed == [h \in Handle |-> [used |-> FALSE, part |-> 0, off |-> 0]]
<1>1. running' \in Part /\ Bootable(dev.flash[running']) BY BootChoiceWhole DEF Restart
<1>2. closed \in [Handle -> EntryRec]
  BY OtaConstants DEF EntryRec, Part
<1>3. dev \in Dev BY DEF ServiceInv, SessionsInv, AgentTypeOK
<1>4. dev' = [dev EXCEPT !.entry = closed] BY DEF Restart
<1>5. \A h \in Handle : ~closed[h].used OBVIOUS
<1> HIDE DEF closed
<1>6. dev' \in Dev /\ dev'.flash = dev.flash /\ dev'.entry = closed BY <1>2, <1>3, <1>4 DEF Dev
<1>7. ctx' \in [Ctx -> {Zeroed}] /\ ending' = {} /\ leaked' = FALSE /\ ServiceStart'
  BY DEF Restart, ServiceStart
<1> QED BY <1>1, <1>5, <1>6, <1>7, StartedInvNext DEF Started

LEMMA ServiceInvInit == OtaInit => ServiceInv
<1> SUFFICES ASSUME OtaInit PROVE ServiceInv OBVIOUS
<1>1. AgentInv BY AgentStartsInv DEF OtaInit
<1>2. ctx \in [Ctx -> {Zeroed}] /\ ending = {} /\ leaked = FALSE /\ ServiceStart
  BY DEF OtaInit, AgentInit
<1>3. \A h \in Handle : ~dev.entry[h].used BY DEF OtaInit, AgentInit
<1>4. Bootable(dev.flash[running])
  BY <1>1, OtaConstants DEF AgentInv, RunningUntouched, Bootable
<1>5. dev \in Dev /\ running \in Part BY <1>1 DEF AgentInv, SessionsInv, AgentTypeOK
<1> QED BY <1>2, <1>3, <1>4, <1>5, StartedInv DEF Started

\* Every step keeps the invariant, and leaves the image that runs alone
\* unless it is a restart.
LEMMA ServiceStep ==
  ASSUME ServiceInv, OtaNext
  PROVE  ServiceInv' /\ (Restart \/ KeepsImage)
<1>1. CASE Call
  <2>1. BeginSizes \subseteq 0..MaxFw /\ \A i \in 1..ImageLen : <<BleImage, i>> \in Chunk
    BY ServiceConstants DEF Chunk
  <2>2. CASE mutex = "null" /\ ServiceInit BY <2>2, ServiceInitStep
  <2>3. ASSUME NEW fw \in BeginSizes, Begin(fw) PROVE ServiceInv' /\ KeepsImage
    <3>1. fw \in 0..MaxFw BY <2>1
    <3> QED BY <2>3, <3>1, BeginStep
  <2>4. ASSUME NEW i \in 1..ImageLen, ServiceWrite(<<BleImage, i>>) PROVE ServiceInv' /\ KeepsImage
    <3> DEFINE ch == <<BleImage, i>>
    <3>1. ch \in Chunk /\ ServiceWrite(ch) BY <2>1, <2>4
    <3> HIDE DEF ch
    <3> QED BY <3>1, WriteStep
  <2>5. CASE ServiceFinish BY <2>5, FinishStep
  <2>6. CASE ServiceAbort BY <2>6, AbortStep
  <2> QED BY <1>1, <2>2, <2>3, <2>4, <2>5, <2>6 DEF Call
<1>2. CASE ServiceFinishBoot BY <1>2, FinishBootStep
<1>3. ASSUME NEW h \in Http, TriggerCheck(h) \/ HttpStep(h)
      PROVE  ServiceInv' /\ (Restart \/ KeepsImage)
  <2>1. CASE TriggerCheck(h) BY <2>1, MoveStep DEF TriggerCheck
  <2>2. CASE TriggerCreate(h) BY <2>2, MoveStep DEF TriggerCreate
  <2>3. CASE HttpOpen(h) BY <2>3, OpenStep
  <2>4. CASE HttpBegin(h) BY <2>4, DownloadBeginStep
  <2>5. CASE HttpRead(h) BY <2>5, ReadStep
  <2>6. CASE HttpEof(h) BY <2>6, EofStep
  <2>7. CASE HttpFinishBoot(h) BY <2>7, DownloadBootStep
  <2>8. CASE HttpCleanup(h) BY <2>8, CleanupStep
  <2>9. CASE HttpRestart(h) BY <2>9, RestartStep DEF HttpRestart
  <2> QED BY <1>3, <2>1, <2>2, <2>3, <2>4, <2>5, <2>6, <2>7, <2>8, <2>9 DEF HttpStep
<1>4. CASE PowerCycle BY <1>4, RestartStep DEF PowerCycle
<1> QED BY <1>1, <1>2, <1>3, <1>4 DEF OtaNext

LEMMA ServiceStutter ==
  ASSUME ServiceInv, UNCHANGED otaVars
  PROVE  ServiceInv' /\ KeepsImage
  BY RefuseStep DEF otaVars, serviceVars, ServiceInv, ServiceTypeOK

\* ServiceInv is an inductive invariant of the service.
THEOREM ServiceInvariant == OtaSpec => []ServiceInv
<1>1. ServiceInv /\ [OtaNext]_otaVars => ServiceInv' BY ServiceStep, ServiceStutter
<1> QED BY <1>1, ServiceInvInit, PTL DEF OtaSpec

\* Every variable of the service and its downloads keeps its type.
THEOREM ServiceTypeCorrect == OtaSpec => []ServiceTypeOK
<1>1. ServiceInv => ServiceTypeOK BY DEF ServiceInv
<1> QED BY <1>1, ServiceInvariant, PTL

\* ota_agent.c:316 for the passive session and any number of downloads,
\* restarts included: a session only uses a handle that is open on its own
\* partition and that no other session holds.
THEOREM ServiceHandlesOwned == OtaSpec => []HandleOwned
<1>1. ServiceInv => HandleOwned BY DEF ServiceInv, SessionsInv
<1> QED BY <1>1, ServiceInvariant, PTL

\* s_ota_busy and the state of s_passive_ota_ctx agree whenever the mutex is
\* free: no failure path of ota_service.c leaves one without the other.
THEOREM BusyIsTruthful == OtaSpec => []BusyMatchesSession
<1>1. ServiceInv => BusyMatchesSession BY DEF ServiceInv
<1> QED BY <1>1, ServiceInvariant, PTL

\* No path through the service or the HTTP client loses an open esp_ota handle.
THEOREM HandlesNeverOrphaned == OtaSpec => []NoOrphanHandle
<1>1. ServiceInv => NoOrphanHandle BY DEF ServiceInv
<1> QED BY <1>1, ServiceInvariant, PTL

\* The partition the device runs from holds a whole image and nobody writes
\* it, whatever is downloaded, aborted or cut.
THEOREM RunningAlwaysWhole == OtaSpec => []RunningWhole
<1>1. ServiceInv => RunningWhole BY DEF ServiceInv, SessionsInv, RunningClosed, RunningWhole
<1> QED BY <1>1, ServiceInvariant, PTL

-----------------------------------------------------------------------------
(* The service implements OtaUpdate.                                        *)

\* What partition p holds, as OtaUpdate sees it.
LEMMA ImageInType ==
  ASSUME NEW p \in Part
  PROVE  /\ Bootable(dev.flash[p]) => ImageIn(p) \in Image
         /\ ~Bootable(dev.flash[p]) => ImageIn(p) = NoPart
  BY DEF ImageIn, Bootable

LEMMA SameImage ==
  ASSUME NEW p, dev'.flash[p] = dev.flash[p]
  PROVE  ImageIn(p)' = ImageIn(p)
  BY DEF ImageIn, Bootable, Holds

LEMMA FactoryFirst ==
  ASSUME OtaInit
  PROVE  Update!Init
<1>1. running = 0 /\ dev.boot = 0 BY DEF OtaInit, AgentInit
<1>2. Holds(dev.flash[0], Factory) BY <1>1, AgentStartsInv DEF OtaInit, AgentInv, RunningUntouched
<1>3. \A im \in Image : Holds(dev.flash[0], im) => im = Factory
  <2> SUFFICES ASSUME NEW im \in Image, Holds(dev.flash[0], im) PROVE im = Factory OBVIOUS
  <2>1. 1 \in 1..ImageLen BY OtaConstants
  <2>2. dev.flash[0][1] = <<im, 1>> /\ dev.flash[0][1] = <<Factory, 1>> BY <1>2, <2>1 DEF Holds
  <2> QED BY <2>2
<1>4. ImageIn(0) = Factory
  BY <1>2, <1>3, OtaConstants DEF ImageIn, Bootable
<1> QED BY <1>1, <1>4 DEF Update!Init

\* A restart runs the staged image if there is one that is whole, and
\* otherwise the one that ran before: with two partitions, there is no third.
LEMMA RestartImplements ==
  ASSUME ServiceInv, Restart, NumPart <= 2
  PROVE  Update!Restart
<1>1. running \in Part /\ dev.boot \in Part /\ Bootable(dev.flash[running])
  BY DEF ServiceInv, SessionsInv, AgentTypeOK, Dev
<1>2. running' = BootChoice /\ dev'.flash = dev.flash /\ dev'.boot = dev.boot
  BY DEF Restart, ServiceInv, SessionsInv, AgentTypeOK, Dev
<1>3. \A p \in Part : ImageIn(p)' = ImageIn(p) BY <1>2, SameImage
<1>4. CASE Bootable(dev.flash[dev.boot])
  <2>1. running' = dev.boot BY <1>2, <1>4 DEF BootChoice
  <2>2. ImageIn(dev.boot) # NoPart BY <1>1, <1>4, ImageInType, ServiceConstants
  <2>3. ImageIn(running)' = ImageIn(dev.boot) BY <1>1, <1>2, <1>3, <2>1
  <2> QED BY <1>2, <2>1, <2>2, <2>3 DEF Update!Restart
<1>5. CASE ~Bootable(dev.flash[dev.boot])
  <2>1. dev.boot # running BY <1>1, <1>5
  <2>2. \A p \in Part : p # dev.boot => p = running BY <1>1, <2>1, OtaConstants DEF Part
  <2>3. BootChoice \in Part /\ BootChoice # dev.boot BY <1>5, BootChoiceWhole
  <2>4. running' = running BY <1>2, <2>2, <2>3
  <2>5. ImageIn(dev.boot) = NoPart BY <1>1, <1>5, ImageInType
  <2>6. ImageIn(running)' = ImageIn(running) /\ ImageIn(dev.boot)' = NoPart
    BY <1>1, <1>2, <1>3, <2>4, <2>5
  <2> QED BY <2>1, <2>5, <2>6 DEF Update!Restart
<1> QED BY <1>4, <1>5

\* Every other step stages an image or gives one up.
LEMMA StageImplements ==
  ASSUME ServiceInv, ServiceInv', KeepsImage
  PROVE  Update!Next
<1> DEFINE st == IF dev.boot = running THEN NoPart ELSE ImageIn(dev.boot)
<1>1. running \in Part /\ dev'.boot \in Part
  BY DEF ServiceInv, SessionsInv, AgentTypeOK, Dev
<1>2. ImageIn(running)' = ImageIn(running) BY SameImage DEF KeepsImage
<1>3. st' \in Image \cup {NoPart}
  <2>1. CASE dev'.boot = running' BY <2>1
  <2>2. CASE dev'.boot # running'
    <3>1. ImageIn(dev.boot)' \in Image \cup {NoPart}
      BY DEF ImageIn, Bootable
    <3> QED BY <2>2, <3>1
  <2> QED BY <2>1, <2>2
<1>4. CASE st' = NoPart
  BY <1>2, <1>4 DEF Update!Next, Update!Unstage
<1>5. CASE st' \in Image
  BY <1>2, <1>5 DEF Update!Next, Update!Stage
<1> QED BY <1>3, <1>4, <1>5

\* With the two partitions of partitions.csv the service implements OtaUpdate:
\* the device always runs one whole image and changes it only by restarting
\* into the one that is staged.
THEOREM ServiceImplementsUpdate ==
  ASSUME NumPart <= 2
  PROVE  OtaSpec => ImplementsUpdate
<1>1. ServiceInv /\ ServiceInv' /\ [OtaNext]_otaVars => Update!Next
  <2> SUFFICES ASSUME ServiceInv, ServiceInv', [OtaNext]_otaVars PROVE Update!Next OBVIOUS
  <2>1. CASE Restart BY <2>1, RestartImplements DEF Update!Next
  <2>2. CASE KeepsImage BY <2>2, StageImplements
  <2> QED BY <2>1, <2>2, ServiceStep, ServiceStutter
<1>2. OtaInit => Update!Init BY FactoryFirst
<1> QED BY <1>1, <1>2, ServiceInvariant, PTL DEF OtaSpec, ImplementsUpdate, Update!Spec
=============================================================================
