------------------------------- MODULE Ethercat -------------------------------
(***************************************************************************)
(* The EtherCAT slave (kernel/net/ethercat.c): its application-layer (AL)  *)
(* state machine, the sync managers, the process data exchange and the     *)
(* datagrams of a master.  The slave's functions are called one at a time. *)
(* Of the 64 KB of registers the model keeps the AL status, its code and    *)
(* the area of the outputs' sync manager, which does not overlap them.     *)
(* AL_CONTROL is left out: nothing reads it, and only ecat_slave_set_state *)
(* makes a request of what it writes there.                                *)
(* The values of the inputs, copied from the application to the registers, *)
(* are left out too: nothing here depends on them.  The mailbox, the clock *)
(* and the watchdog are stubs, and nothing reads the FMMUs.                *)
(***************************************************************************)
EXTENDS Naturals, Sequences

CONSTANTS Configs,   \* configurations: the sync managers with data of size above 0
          EcatData,
          Written    \* states a master may write over AL_STATUS (bound)

MboxSms == {"mbox_out", "mbox_in"}
ProcSms == {"proc_out", "proc_in"}
Sms     == MboxSms \cup ProcSms

States    == {"INIT", "PREOP", "BOOT", "SAFEOP", "OP"}
Requested == States \cup {"none"}   \* "none": a nibble that is no state

ASSUME EcatAssumption ==
  Configs \subseteq SUBSET Sms /\ "zero" \in EcatData /\ Written \subseteq Requested

VARIABLES config,
          al_state,        \* the state and its error flag
          requested_state, al_status_code, active,
          sm,              \* the sync managers
          registers,       \* [al_status, al_status_code, proc_out]
          output_data

ecat_vars == <<config, al_state, requested_state, al_status_code, active, sm, registers,
               output_data>>

Codes     == {"ok", "invalid_setup", "invalid_sync"}
AlState   == [state : States, error : BOOLEAN]
AlStatus  == [state : Requested, error : BOOLEAN]   \* of the register
\* Length and start of a sync manager: length 0, below the size of the data,
\* large enough, or large enough and beyond the registers.
Areas       == {"none", "short", "room", "outside"}
SyncManager == [area : Areas, activate : BOOLEAN]
Registers   == [al_status : AlStatus, al_status_code : Codes, proc_out : EcatData]

EcatTypeOK ==
  /\ config \in Configs
  /\ al_state \in AlState /\ requested_state \in Requested /\ al_status_code \in Codes
  /\ active \in BOOLEAN /\ sm \in [Sms -> SyncManager]
  /\ registers \in Registers
  /\ output_data \in EcatData

Cleared == [al_status |-> [state |-> "none", error |-> FALSE], al_status_code |-> "ok", proc_out |-> "zero"]

\* ecat_slave_create.
EcatInit ==
  /\ config \in Configs
  /\ al_state = [state |-> "INIT", error |-> FALSE]
  /\ requested_state = "INIT" /\ al_status_code = "ok" /\ active = FALSE
  /\ sm = [m \in Sms |-> [area |-> "none", activate |-> FALSE]]
  /\ registers = Cleared
  /\ output_data = "zero"

-----------------------------------------------------------------------------
(* The state machine.                                                      *)

\* The registers r once the AL state and its code have been published.
Published(r, state, code) == [r EXCEPT !.al_status = state, !.al_status_code = code]

Deactivated(s) == [m \in Sms |-> [s[m] EXCEPT !.activate = FALSE]]

\* The machine is back in INIT, and says so in the registers r.
Restart(r) ==
  /\ al_state' = [state |-> "INIT", error |-> FALSE]
  /\ requested_state' = "INIT" /\ al_status_code' = "ok"
  /\ registers' = Published(r, al_state', al_status_code')

ecat_slave_init ==
  /\ Restart(Cleared)
  /\ active' = TRUE
  /\ UNCHANGED <<config, sm, output_data>>

ecat_slave_reset ==
  /\ Restart(registers)
  /\ sm' = Deactivated(sm)
  /\ UNCHANGED <<config, active, output_data>>

ecat_slave_set_state(s) ==
  /\ requested_state' = s
  /\ UNCHANGED <<config, al_state, al_status_code, active, sm, registers, output_data>>

is_valid_state_transition(from, to) ==
  to \in CASE from = "INIT"   -> States
           [] from = "PREOP"  -> {"INIT", "PREOP", "BOOT", "SAFEOP"}
           [] from = "BOOT"   -> {"INIT", "BOOT"}
           [] from = "SAFEOP" -> {"INIT", "PREOP", "SAFEOP", "OP"}
           [] from = "OP"     -> {"INIT", "SAFEOP", "OP"}

Step(op, sms) == [op |-> op, on |-> sms]

\* Mutant: the inputs are activated before the outputs are looked at.
SafeopHalfway == <<Step("check", {"proc_in"}), Step("activate", {"proc_in"}),
                   Step("check", {"proc_out"}), Step("activate", {"proc_out"}),
                   Step("clear", {"proc_out"})>>

state_enter_safeop == <<Step("check", {"proc_in"}), Step("check", {"proc_out"}),
                        Step("activate", {"proc_in"}), Step("activate", {"proc_out"}),
                        Step("clear", {"proc_out"})>>

\* What entering a state does, in its order, to the sync managers that have data.
Steps(s) ==
  CASE s = "INIT"   -> <<Step("deactivate", Sms)>>
    [] s = "PREOP"  -> <<Step("activate", MboxSms)>>
    [] s = "SAFEOP" -> state_enter_safeop
    [] OTHER        -> <<>>

\* The sync manager of process data has been given no length.
Fails(step) == step.op = "check" /\ \E m \in step.on \cap config : sm[m].area = "none"

\* The steps done, up to the first that fails.
Done(steps)    == {i \in DOMAIN steps : \A j \in 1..i : ~Fails(steps[j])}
Entered(steps) == Done(steps) = DOMAIN steps
Does(steps, op, m) == \E i \in Done(steps) : steps[i].op = op /\ m \in steps[i].on

Enter(steps) ==
  /\ sm' = [m \in Sms |->
       [sm[m] EXCEPT !.activate =
          ~Does(steps, "deactivate", m) /\ (@ \/ (m \in config /\ Does(steps, "activate", m)))]]
  /\ output_data' = IF "proc_out" \in config /\ Does(steps, "clear", "proc_out")
                    THEN "zero" ELSE output_data

\* The state is kept, with the error flag.
Refuse(code) ==
  /\ al_state' = [al_state EXCEPT !.error = TRUE] /\ al_status_code' = code
  /\ registers' = Published(registers, al_state', code)

\* Mutant: the code of an earlier refusal stays.
AcceptKeepsCode(s) ==
  /\ al_state' = [state |-> s, error |-> FALSE]
  /\ registers' = Published(registers, al_state', al_status_code)
  /\ UNCHANGED al_status_code

Accept(s) ==
  /\ al_state' = [state |-> s, error |-> FALSE] /\ al_status_code' = "ok"
  /\ registers' = Published(registers, al_state', "ok")

\* A request for the state the slave is in changes nothing, the error flag included.
ecat_slave_transition ==
  /\ requested_state # al_state.state
  /\ IF is_valid_state_transition(al_state.state, requested_state)
     THEN LET steps == Steps(requested_state) IN
          /\ Enter(steps)
          /\ IF Entered(steps) THEN Accept(requested_state) ELSE Refuse("invalid_sync")
     ELSE Refuse("invalid_setup") /\ UNCHANGED <<sm, output_data>>
  /\ UNCHANGED <<config, requested_state, active>>

-----------------------------------------------------------------------------
(* Sync managers, process data and datagrams.                              *)

SmOnly == UNCHANGED <<config, al_state, requested_state, al_status_code, active, registers, output_data>>

\* The caller's structure replaces all of the sync manager (of a mailbox's only
\* the activation matters).
ecat_sm_config(m, s) == sm' = [sm EXCEPT ![m] = s] /\ SmOnly

ecat_sm_activate(m)   == sm' = [sm EXCEPT ![m].activate = TRUE] /\ SmOnly
ecat_sm_deactivate(m) == sm' = [sm EXCEPT ![m].activate = FALSE] /\ SmOnly

\* The outputs are to be exchanged.
Exchanges == "proc_out" \in config /\ sm["proc_out"].activate

\* The outputs are copied, also when the inputs then turn out to have no room.
ecat_pdo_exchange ==
  /\ al_state.state \in {"SAFEOP", "OP"}
  /\ Exchanges => sm["proc_out"].area \notin {"none", "short"}
  /\ output_data' = IF Exchanges /\ sm["proc_out"].area = "room"
                    THEN registers.proc_out ELSE output_data
  /\ UNCHANGED <<config, al_state, requested_state, al_status_code, active, sm, registers>>

ecat_pdo_write(d) ==
  /\ "proc_out" \in config
  /\ output_data' = d
  /\ UNCHANGED <<config, al_state, requested_state, al_status_code, active, sm, registers>>

\* A master writes by address: any bytes of the registers, the status included,
\* and nothing else, so a write of AL_CONTROL requests no state.  (A command that
\* reads and writes reads into the frame first and writes back what it has read.)
ecat_process_datagram(r) ==
  /\ registers' = r
  /\ UNCHANGED <<config, al_state, requested_state, al_status_code, active, sm, output_data>>

\* What a write may leave in the registers (bound: of codes, "ok" only).
Overwritten ==
  [al_status : {registers.al_status} \cup [state : Written, error : {FALSE}],
   al_status_code : {registers.al_status_code, "ok"}, proc_out : EcatData]

\* Bounds: only sync managers that have data are configured and activated; of the
\* area of the inputs only whether it has a length matters.
EcatNext ==
  \/ ecat_slave_init \/ ecat_slave_reset \/ ecat_slave_transition \/ ecat_pdo_exchange
  \/ \E s \in Requested : ecat_slave_set_state(s)
  \/ \E m \in config : ecat_sm_activate(m) \/ ecat_sm_deactivate(m)
  \/ \E m \in config \cap ProcSms, s \in SyncManager :
       (m = "proc_in" => s.area \in {"none", "room"}) /\ ecat_sm_config(m, s)
  \/ \E d \in EcatData : ecat_pdo_write(d)
  \/ \E r \in Overwritten : ecat_process_datagram(r)

EcatSpec == EcatInit /\ [][EcatNext]_ecat_vars

-----------------------------------------------------------------------------
(* Properties.                                                             *)

\* What a master reads is the state and the code of the machine.
Told == registers.al_status = al_state /\ registers.al_status_code = al_status_code

\* A master is told the truth until it writes over the status registers itself,
\* and is told it again, over what was written, by every step that changes the
\* state or its code; an error is flagged exactly when there is an error code, so
\* no transition gets past an error without clearing it (ethercat.c:797, 838, 858).
AlStatusTrue ==
  [][/\ al_state'.error <=> al_status_code' # "ok"
     /\ active' => \/ Told'
                   \/ ~Told /\ UNCHANGED <<al_state, al_status_code>>
                   \/ \E r \in Overwritten : ecat_process_datagram(r)
    ]_ecat_vars

\* A refused transition keeps the state, the sync managers and the outputs: all
\* of the validation comes before the first effect (ethercat.c:720).
RefusalHarmless ==
  [][ecat_slave_transition /\ al_state'.error =>
       al_state'.state = al_state.state /\ UNCHANGED <<sm, output_data>>]_ecat_vars
=============================================================================
