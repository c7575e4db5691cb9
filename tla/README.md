# A model of the SMS forwarding firmware

The firmware runs on an ESP32 with an ML307R modem. It receives SMS, keeps them
in an inbox in RAM, and forwards them over push channels and email. It is
configured through a web interface, controls an eSIM, and updates itself over
the air. This directory holds TLA+ modules of its concurrent and stateful parts,
the TLC instances that check them, and proofs for the proof system TLAPS.

Paths such as `idf_push.cpp:1428` are below `components/`.

## The system

| Component | State | Operations | Talks to |
|---|---|---|---|
| SMS reception, `idf_sms` (`sms_task`) | +CMTI index queue, multipart slots, fingerprints of finished messages, ring of seen texts, RAM fallback | direct PDU, fetch by index, listing of the SIM, time-out of slots, retry | modem (AT), inbox, push queues |
| SMS sending, call notification, `idf_sms` | queue of three outgoing messages, call number wait | enqueue, send, RING/CLIP | modem, push queues, web |
| Push worker, `idf_push` (`push_task`) | queues of forwards, push and email jobs, completion records, channel cool-downs, test jobs | fan-out, send, retry, purge, test | inbox, configuration, WiFi, modem HTTPS |
| Inbox, `idf_inbox` | ring of received messages with a forwarded mark | add, mark, delete | `idf_sms`, `idf_push`, web |
| Modem, `idf_modem` (owner task) | slots of owner commands, URC buffers, readiness, recovery | AT command, SMS session, PDP, restart | UART, every task |
| Modem HTTPS, `idf_modem_https` | one session, its undo list, its stream | open, exchange, close | modem, `idf_push`, keepalive |
| Configuration, `idf_config` | current settings, two slots of a partition, certificate slots, migration state | load, save, import, views | every task |
| WiFi, `idf_wifi` | networks, candidate being tried, access point mode | connect, try, confirm, recover | configuration, web |
| Web, `idf_web` (HTTP server and `scheduler_task`) | job slots, admissions, restart owner, scheduled tasks | handlers, jobs, maintenance, restart | all components |
| OTA, `idf_web_ota` | update session, trial image | begin, chunk, finish, cancel, confirm | web |
| eSIM and LPA, `idf_esim`, `idf_lpa` | channel session, pending switch, download | list, enable, delete, download, notify | modem, web |
| Log, `idf_log` | ring of lines, ring of bytes kept over a reset, saved log | append, page, restore | every task, web |
| Start-up and USB recovery, `main` | start order, console session | start, read and write configuration | configuration, WiFi |

Tasks interact through bounded arrays under one mutex per component
(`s_mutex` of the queues, `s_out_mutex` of the outgoing messages), through
semaphores that only wake, and through atomic flags (`s_busy`,
`s_device_restart_pending`). `sms_task` calls `idf_push_enqueue_forward`, which
copies the message into a slot or refuses it; `push_task` reports back only
through the inbox. Everything but the SIM and the flash partitions is lost on a
restart.

### What is hard here

* **One SMS, many owners.** It is on the SIM, in a slot, in the RAM fallback,
  in the forward queue, in the worker's hand, in up to five push slots and an
  email slot. Each hand-over may fail for want of room. It must never be in
  none of them before it is delivered, and not be sent twice.
* **Unreliable edges.** Direct segments are acknowledged with a command that
  may fail, deletions may fail or happen without an answer, responses are cut at
  8 KB, notifications of stored messages get lost, an answer arrives when its
  command was given up.
* **One modem, many users.** Each changes it (a PDP context, a channel of the
  card, a message format, the enabled profile) and must put it back whatever fails.
* **Time-outs.** An incomplete message is forwarded after 15 minutes and
  completed later; a leg is retried with back-off; owner commands are abandoned.
* **Copies.** A handler, a job or a worker decides on a copy of the settings, of
  a list or of a status that another task has changed since.
* **Restarts**: planned (memory low, daily, OTA, configuration) and unplanned.
* **Flash**: power cuts between the writes of a slot, a certificate, an update.

PROJECT.json lists each hazard at its line, with the properties that would
catch it.

### What makes each component correct

* Reception: an SMS is deleted from the SIM, or acknowledged, only once it is
  retained elsewhere; it is forwarded once; the SIM drains.
* Sending: no part is sent twice, the sent list tells what happened, a
  concatenation reference is used by one message.
* Push worker: the completion record is exact; the mark in the inbox is
  earned; a delivered leg is never repeated; queues drain.
* Restart: nothing in flight is discarded by a restart that found the system idle.
* Owner commands: a caller gets the answer to its own command or a time-out,
  never another's; a slot is reused only when nobody looks at it.
* Modem: a wrong PIN is not given again and again; resets are limited; a modem
  that hangs is reset; what an HTTPS session changed is put back.
* Configuration storage: a load after a power cut finds the last saved or the
  previous settings, never a mixture, and never older ones after newer ones were seen.
* Settings: a form that leaves a secret out keeps the secret of that very network
  or channel; the administrator is not locked out.
* WiFi: an offline device opens its access point; a network that was submitted is
  tried to its end.
* Web jobs: exclusive jobs exclude each other; one owner restarts.
* OTA: an image that starts is always there; only a trial that passed its health
  check is confirmed.
* eSIM: SMS commands do not enter a channel session; a switch is finished or
  undone; a profile is installed only after consent to what is then downloaded.

## Modules

A module models one component; the tables give the code of its state and
actions. Where a component's module is also an instance in one of the
composites below, the name of that instance is given with it.

### PushQueue: queues, fan-out, completion

One action is one critical section of the worker or one call of another task.

| Model | Code |
|---|---|
| `inbox` | what `idf_inbox` shows of each id |
| `fwd`, `legs`, `comps`, `lastComp` | `s_forward_jobs`; `s_push_jobs` and `s_email_jobs`; `s_forward_completions`; `s_next_completion_id` |
| `handFwd`, `handLeg` | the local `job` of `process_forward_one`, `process_push_one`, `process_email_one`; `s_busy` is "not both empty" |
| `PopForward`, `DropByRule`, `NoDestination`, `FanOut`, `RequeueForward` | the pop and the ways out of `process_forward_one` |
| `PopPush`, `PopEmail`, `LegSucceeds`, `LegFails`, `LegDiscarded`, `LegRetries` | the pop and the ways out of `process_push_one` and `process_email_one` |
| `PurgePush`, `PurgeEmail` | `purge_push_jobs_disabled`, the purge in `process_email_one` |
| `Receive`, `EnqueueForward`, `Delete`, `EnqueueNotify`, `EnqueueEmail` | calls of other tasks |

Left open at every step: what rules and configuration say, whether a send
succeeds, back-off and cool-down times. A deletion from the inbox stands for the
ring's overwriting too. `fan` and `dropped` are history variables: per
completion the destinations wanted and reached, and the items a rule discarded.
Notices with more channels than slots are the smaller set of channels that
found a slot. The attempt counter of forward jobs is left out: no caller counts
attempts (`requeue_forward_later(..., false)`). Completion ids do not wrap
(2^32 fan-outs), and items have an inbox id (`idf_inbox_add` gives 0 only without
a mutex). The heartbeat's clock is not modelled; the test jobs are in `TestPush`.

### MaintenanceRestart: the idle check over the queues

Extends PushQueue with `scheduler_task`: `Ask`, one `Read` per queue in the code's
order, `Claim`, the second pass, `Decide`. Any other clause of
`system_idle_for_maintenance` may say busy at any time (`GiveUp`). `WebJobs` has
the other half of that check: who may start work while a restart is considered.

### SmsReceive: reception

One action is one line, record, slot or retry that `sms_task` handles; a listing
is handled record by record because the modem and the network go on meanwhile.

| Model | Code |
|---|---|
| `net` | segments the network offers until they are stored or acknowledged |
| `sim`, `index` | the SIM's records, `s_index_queue` |
| `open` | active entries of `s_concat`, least recently touched first (`lastUs`) |
| `done`, `seen`, `pending` | `s_concat_done`, `s_seen`, `s_pending_forwards` |
| `idle`, `abandoned` | history: listings in a row that brought no deletion (counted up to `StallMax`), and what was removed as corrupt |
| `pass`, `stall` | the locals and statics of `backfill_stored_sms`; the listing is the set of records it has still to handle, lowest index first |
| `Process`, `Retain`, `Handle` | `process_sms_content`, `retain_concat_before_clear`, `handle_decoded_pdu` |
| `ReceiveDirect` | `process_urc_line` with a PDU, and +CNMA |
| `Fetch` | `fetch_stored_sms_by_index` |
| `StartPass`, `PassUnreadable`, `PassRecord`, `EndPass` | `backfill_stored_sms` |
| `Expire`, `RetryPending` | `expire_concat_slots`, `retry_pending_forward` |
| `Store`, `AgeDone`, `Restart` | modem, clock, power |

Abstractions. A text is the set of its segments with the first one, whose
timestamp the text carries; equal sets with another first segment are different
texts to `was_seen`, as in the code. A verdict says what blacklist and forwarding
queue answer. Time-outs may fire at any moment. A pass may start at any moment,
so `s_backfill_pending`, the polling intervals, the +CMT window and the periodic
+CNMI reassertion need no state. A corrupt PDU never decodes. `Window` is how
many records of a listing fit in the response; the next one is cut. Left out: the
codec's lock, cut indices, the supplement label, the inbox item that is added
and deleted again when admission fails, outgoing messages and calls.

### SmsSend: outgoing messages ("send")

| Model | Code |
|---|---|
| `queue`, `looked` | `s_out_queue`; the status `sms_task` read earlier in its turn |
| `job` | the `OutgoingSmsJob` or scheduled text each task is sending, and how far it is |
| `csmsRef`, `mode`, `ready`, `reset` | `s_csms_ref`, the modem's CMGF mode, `modemReady`, a requested hard reset |
| `up`, `sent` | parts given to the modem; the sent list, whose ring forgets |
| `Enqueue`, `Look`, `Pop`, `Entry` | `idf_sms_enqueue_outgoing`, the turn of `sms_task`, `pop_outgoing_sms`, `idf_sent_add` |
| `Check` ... `Final` | `idf_sms_send_text`, one action per command |

`sms_task` and a task of the scheduler run `idf_sms_send_text` at the same time.
CMGF is asserted once per message, as in the code; a reset of the modem may put
it back to text mode in between.

### CallNotify: incoming calls ("call")

| Model | Code |
|---|---|
| `lines`, `call` | lines waiting for `sms_task`; `s_call_active` and its companions |
| `phase`, `asked`, `recovered` | the loop of `sms_task` around `flush_pending_call_notify`; the session AT+CLCC was sent for, and its number |
| `Take`, `Flush`, `Answer`, `Recover` | `process_urc_text`, `flush_pending_call_notify`, `query_clcc_number` |

Two calls within `CALL_GAP_US` are one session, for the code and for the model.

### TestPush: the test of a channel ("test")

| Model | Code |
|---|---|
| `job` | `s_test_jobs`, a slot per channel |
| `web`, `worker` | what `handle_test_push` and `process_test_one` have copied and checked |
| `Ask`, `Admit`, `Queue`, `Status` | `idf_push_enqueue_test`, `idf_push_test_status_json` |
| `Begin` ... `Complete` | `process_test_one` with `send_to_channel`, `idf_push_complete_test_job` |

A test may expire while it waits, settings and network may change between the
copy and the send, and the result is that of the settings that were copied. The
second look at the slots in `idf_push_enqueue_test` protects against another
caller only; that a running test expires is noticed by the worker or a page that asks.

### Smtp: one email ("mail")

| Model | Code |
|---|---|
| `implicit`, `phase`, `step` | `smtpPort`, the place in `send_smtp_email`, the command of its script |
| `line`, `lines`, `asked`, `judged` | `SmtpConn`, what has arrived unread, the command that is answered, and the one the last final line answered |
| `attempts`, `mails`, `heard` | `EmailJob.attempts`; what the server accepted, and what the client heard of it |
| `Connect`, `Upgrade`, `Write`, `Read`, `Fail`, `Quit`, `Ended` | `smtp_tcp_connect`, `smtp_starttls_upgrade`, `smtp_conn_write_all`, `smtp_read_response`, the ways out, `process_email_one` |

### AtomicConfig and ConfigStore: the configuration partition

`ConfigStore` has one action per write that reaches flash. Any of them may fail
(`Fail`), and the power may be cut between any two (`CutPower`).

| Model | Code |
|---|---|
| `blob`, `mark`, `state` | keys cfgA and cfgB, markA and markB, state of the partition appcfg |
| `config`, `inUse` | `s_config`; `s_activeSlot` and `s_activeGeneration` |
| `step`, `next`, `target`, `fresh`, `current` | the locals of the load, save or update under way; not idle means that `s_persist_mutex` is held |
| `ReadSlot`, `SelectSlots`, `ResumableInitialMigration` | `readSlot`, `selectSlots`, `resumableInitialMigration` |
| `Boot`, `Load`, `WriteState` | `idf_config_load`, `idf_config_storage_load`, `saveState` |
| `BeginUpdate`, `SelectTarget`, `EraseMarker`, `WriteBlob`, `WriteMarker`, `WriteReady`, `FinishSave` | `begin_config_update`, the writes of `idf_config_storage_save` in order, `finish_config_update` |
| `image`, `Confirm` | the OTA state that `allowFirstV7Write` asks for |

A configuration is the set of changes made to it, and a change either fits
schema 6 or needs schema 7. A marker carries generation, length and CRC of its
blob, so it is modelled as the blob it was made for. A write may store rubbish
and report success (`Garbling`): the code reads blobs and markers back. A slot
may be unreadable for one load or save (`Unreadable`): NVS errors and failed
allocations. `PreviousSchema` is what the image before an update can read; an
image on trial that restarts is rolled back, and the model ends there. Left out:
the codec, the portable encoding, factory reset (a save of another value),
the overlay of legacy connectivity settings, and `merge_runtime_markers`, which
changes nothing because every writer of those markers holds the mutex.

`AtomicConfig` is what the store promises: one value, replaced as a whole. It
says openly that a save whose caller was told of a failure may have happened:
the code can fail after the marker is in place.

### Settings: what a save makes of the settings ("settings")

| Model | Code |
|---|---|
| `cfg`, `lock` | `s_config`, `s_persist_mutex` |
| `task` | a save job: its form, the copy it read, the value it stores |
| `backup` | an exported configuration |
| `Read`, `Keep`, `Drop` | the copy taken in `run_save_job`; `finish_config_update`; `cancel_config_update` |
| `WifiForms`, `PushForms`, `AccountForms`, `Others` | the forms of `handle_modern_save` and the device's own saves |

A password or key is the network or channel type it was given for, so that
"the secret stays" can be said. `ConfigStore` says how a value reaches flash.

### Wifi: getting on a network ("wifi")

| Model | Code |
|---|---|
| `driver`, `events`, `lock` | the driver with its AP interface, STA configuration and link; events not yet handled; `s_wifi_driver_mutex` |
| `ap`, `sta`, `scan` | `s_ap_mode`, `s_ap_manual_mode`; `s_has_sta_credentials`, `_configured`, `_connected`; `s_scan_running` |
| `target`, `val` | `s_provisioning_target`, `s_provisioning_validation_generation` |
| `rec`, `closing` | the outage and the claim on the recovery AP; `s_ap_close_timer` |
| `Disconnected`, `GotIp`, `GotIpAp` | `wifi_event_handler` |
| `Watchdog`, `StartRecovery`, `CloseTimer` | `reconnect_watchdog_cb`, `ap_close_timer_cb` |
| `Select*` | `wifi_select_task` |
| `Press`, `ButtonMarks`, `First*` | `provision_button_task`, `sta_wait_first_connect` |
| `Web*`, `Submit*`, `Reconnect*`, `PageScan*` | `idf_wifi_provision_connect`, `idf_wifi_reconnect`, `idf_wifi_scan_request` |

Generations are compared for equality only and so are "fresh" or "current".

### UsbRecovery: the channel over USB ("usb")

| Model | Code |
|---|---|
| `run`, `port`, `heard` | each run of `tools/usb_recovery.py`, its lock on the port, its parser |
| `down`, `up` | pieces of frames under way |
| `parser`, `job` | `buffer_` of `FrameParser`; `s_provision_nonce`, `_state` and the worker |
| `Read`, `Handle`, `Fed`, `ForgetRest` | `usb_recovery_task`, `handle_frame`, `FrameParser::feed`, `reset_if_idle` |
| `Save`, `Connect`, `Reset` | `usb_wifi_provision_task`, a reset |
| `Send`, `Hear`, `Answered`, `TimeOut`, `GiveUp` | `Device.transact`, `_wait_for_provision`, `run_transaction` |

### CaProvision: authorities of the cellular targets ("ca")

| Model | Code |
|---|---|
| `target`, `generation` | origin of each channel, `idf_config_generation` |
| `cert`, `bind` | the certificate and binding slots in NVS |
| `session`, `nonces` | the probe kept for each channel, its nonce |
| `job` | `run_push_ca_probe_job` or `run_push_ca_install_job` |
| `StartProbe`, `Probe`, `Keep`, `Submit`, `Check` | `handle_push_ca_probe`, `tls_chain_probe`, `idf_push_ca_probe`, `idf_push_ca_install` |
| `StageCert`, `Bind`, `Collect`, `Done` | the writes of `idf_config_ca_install`, `gcUnreferenced`, the check after the install |

Which authority issued a server's certificate is data; that a certificate is in
the chain the server showed is what `candidate_valid` establishes.

### OwnerCommands: the modem's command slots

One task owns the UART. Any other task copies its AT command into one of four
slots, queues the slot's number and waits for the slot's semaphore. One action is
one hold of `s_command_mutex` or one access without it.

| Model | Code |
|---|---|
| `state`, `gone`, `signal`, `cmd`, `result` | a slot: `state`, `caller_abandoned`, `completed`, `request`, `result` with `response` |
| `urgentQ`, `commonQ` | `s_priority_command_queue`, `s_command_queue` |
| `session` | who holds `s_session_mutex`, which is recursive |
| `ready`, `resetReq`, `reinit` | `s_runtime_queue_ready`, `s_reset_request`, `s_reinit_pending` |
| `at`, `mine`, `ticket`, `woken` | where a caller is in `submit_owner_command`, its request, `slot_index`, `completed` |
| `CallCommon`, `CallGated`, `CallUrgent`, `TakeSession`, `GiveUpEarly`, `SlotsFull`, `Enqueue`, `Wake`, `Expire`, `LeaveDone`, `LeaveUndone`, `LeaveUnlocked` | `submit_owner_command` from the gate to its return |
| `Reclaim`, `PopUrgent`, `PopCommon`, `DropCommand`, `RefuseCommand`, `StartCommand`, `FinishCommand`, `GiveCompleted` | `owner_process_one_command` |
| `MoveOn`, `StartReset`, `FinishReset`, `Reinitialise` | the loop of `modem_task` |
| `EsimBegin`, `EsimTake`, `EsimEnd` | `idf_modem_begin_esim_operation` and its end |
| `SmsSend`, `SmsReset`, `WebReset` | sending by `sms_task`, and who requests resets |

`Reclaim` is an action of its own because the code skips it when the mutex is
taken. A deadline may pass wherever a caller waits; only the owner waits for the
mutex without one. `got` is a history variable: the command whose answer a
caller was last given. `esim` says how far an eSIM operation is, and is "cut"
when a command of it is turned away after another was answered. Nested
operations of one task are one. Commands differ only in who sent them and
whether they are urgent, which only AT+CNMA is, and only `sms_task` sends it.
Left out: the owner's own commands and housekeeping (but for the places where
it drains urgent commands), the start-up before the gate first opens, the size checks,
the HTTPS deadlines, and resets requested by health checks.

### AtChannel: the lines of the UART ("answers")

| Model | Code |
|---|---|
| `wire`, `todo` | lines received and lines the modem has still to send |
| `carry`, `waitPdu`, `urcs` | `s_uart_line_carry`, `s_uart_wait_cmt_pdu`, `s_urc_buffer` |
| `phase`, `cmd`, `resp`, `outcome` | the owner in `owner_send_at_deadline`, `owner_send_pdu` and the others, and their locals |
| `Drain`, `Write`, `Read`, `TimeOut` | `capture_pending_uart_locked`, the write, `preserve_uart_urcs` with the way of reading, the deadline |
| `Filter` | `IdfModemQueryResponseFilter::feed` |

A read may end in the middle of a line. The expiry of `s_uart_wait_cmt_pdu`
after 3 s, the cap of a line at 768 bytes and `URC_BUFFER_MAX` are left out.

### ModemHealth: bring-up and health ("health"; "hang", "settings")

| Model | Code |
|---|---|
| `modem` | the modem and its card as they are: power, registration, PIN state, settings, PDP |
| `status`, `owner`, `at` | `s_status`, the locals of `modem_task`, its stage |
| `resetReq`, `reinit`, `unlockReq`, `retryData`, `storage` | the flags other tasks set or the task leaves for later |
| `tried`, `failed`, `goodPin` | `s_last_pin_attempt_key`, `pinFailedAttempts`, whether the saved PIN is the card's |
| `StartUp`, `FirstUnlock`, `Wait`, `Top`, `Unlock`, `RetryData`, `Probe`, `Check` | the stages of a pass |
| `BeginReset`, `EndReset` | `handle_reset_request_if_any` |
| `Daily*` | `idf_modem_sms_health_check` of the scheduler |

An action is a stage of a pass; what the modem answers, whether an interval has
elapsed and whether the AT channel is idle is chosen in it.

### ModemHttps, MipStream, MipWire: HTTPS over AT ("https", "stream")

| Model | Code |
|---|---|
| `modem`, `flight` | sockets, settings, profile and PDP of the modem; answers not yet read |
| `s` in `ModemHttps` | `MipPostSession`: its step and what it must undo |
| `AskState` ... `Exchange`, then `ConfirmClosed` ... `CheckRestoredProfile` | `ensure_initial_state` to `run`; `cleanup` with each of its undo steps |
| `peer`, `modem`, `s` in `MipStream` | what the peer has still to send; bytes not fetched; `MipTlsSession` with `HttpResponse` |
| operators of `MipWire` | the judgement of an answer's lines, `idf_modem_https_wire.cpp` |

An answer may arrive after its command was given up and then be read as the next
one's. `MipWire` is a module without state that `MipStream` extends.

### EsimApdu: one request to the card ("apdu")

| Model | Code |
|---|---|
| `taken`, `got`, `answer` | the card: open channels, blocks it has, segments it owes |
| `s`, `request` | `EsimApduSession`, the request with its policy |
| `Begin`, `Declare`, `Open`, `Swept`, `Store`, `Collect`, `Close` | `invoke_es10_raw`, `declare_terminal_capability`, `open`, `close_known_channels`, `exchange_store_data`, `collect_response`, `close` |

### WebJobs: who may do what ("jobs")

| Model | Code |
|---|---|
| `admission`, `testing`, `owner`, `doom` | `s_shared_admission_active`, `s_push_test_admission_active`, `s_device_restart_pending`, a scheduled restart |
| `slot`, `backup`, `ota`, `restore`, `cell`, `test` | `s_api_jobs`, `s_backup_transfer`, the OTA session, `s_restore_restart_pending`, cellular jobs, the push test |
| `web`, `sched` | the place of the one HTTP handler and of `scheduler_task` |
| `Request`, `Admit`, `Check`, `Start*`, `Take*`, `CheckJob`, `Insert` | the handlers, step by step |
| `Consider`, `Read`, `Claim`, `Decide`, `Restart` | the unattended restart, `claim_restart_owner`, `restart_task` |

### EsimSwitch: profiles and jobs on them ("switch")

| Model | Code |
|---|---|
| `installed`, `enabled`, `iccids`, `modem`, `live` | the card and the modem's session with it |
| `job`, `kaLast`, `day` | the one cellular job, `kaLastTime`, days |
| `cache`, `web`, `shown` | `s_esim_cache` with its generation, the user's operation, what was ever shown |
| `Prepare`, `Enable*`, `Retry`, `Registered`, `Act`, `Restore`, `Record` | `esim_prepare_profile`, `profile_operation`, `wait_registered_for`, the action, `esim_restore_profile`, the record |
| `Web*`, `Listed`, `Reread` | `handle_api_esim`, `esim_task`, `read_profiles` |

### Lpa, Bpp, Es9, Rsp: the installation of a profile ("install", "package", "exchange", "message")

| Module | Model | Code |
|---|---|---|
| `Lpa` | `job`, `wait`, `at`, `left`, `session`, `card` | `s_esim_job`, `s_esim_confirmation_*`, `esim_task` in `idf_lpa_install_profile`, pending notifications, the server's session, the card |
| `Bpp` | `json`, `der`, `card`, `outcome` | the parser of the answer, `BppDerStreamParser`, `BppSegmentWriter`, the result |
| `Es9` | `answer`, `at`, `capture`, `fed`, `result` | one exchange of `idf_lpa_es9_transport.cpp`; the HTTP client of ESP-IDF is external |
| `Rsp` | `step`, `last` | which message the installer waits for; the readers of `idf_lpa_rsp.cpp` |

`Rsp` runs the readers on every message with up to one defect and compares their
verdict with what the message should look like.

### Log: the log ("log")

| Model | Code |
|---|---|
| `lines`, `count`, `next`, `seq` | `s_lines` and its indices |
| `ring`, `w` | `s_prev_ring`, the append under way, store by store |
| `prev`, `deferred`, `loadTried`, `saved` | `s_prev_log`, the deferred save, the log in flash |
| `page` | the web page with its cursor |
| `Say`, `Copy`, `MoveHead`, `CountUsed`, `Seal` | `idf_log_line`, `prev_ring_append` with each store that may be the last before a reset |
| `Start`, `Trim`, `Restart`, `Save` | `prev_log_capture`, `prev_log_deferred_task` |
| `ReadPrev`, `Snapshot`, `Page` | `idf_log_prev_dump`, `idf_log_json_since`, the pagination |

### Ota: the update over the web ("update")

| Model | Code |
|---|---|
| `app`, `img`, `boot` | the two app slots, the bootloader's record of them |
| `accepted`, `pending`, `paddr` | the three numbers in NVS |
| `session`, `restart`, `step`, `health`, `late` | `IdfWebOtaSession`, `restart_pending`, the next write of `finish` or of the health check, the health task and its minute |
| `Start`, `Append`, `PrepareFinish`, `CancelFinish`, `WritePending`, `SetBoot`, `Undo` | the session |
| `HealthCheck`, `Bind`, `Confirm`, `Persist`, `Clear`, `Rollback`, `Boot` | `idf_web_ota_health_check`, its writes, the bootloader |

The power may be cut between any two writes and a write may fail; signature and
hash of an image are data.

### The composites

Each run costs a search of its own, and most components are small. `MCMessages`,
`MCModem`, `MCDevice` and `MCDrains` therefore put the instances of
several components in one run: a behaviour is about one component, which `which`
names from the start, and the components take turns in the same variables
`s1`, `s2` and so on (one of them keeps its own names). The constants of the
components about which something is proved are constants of the composite, which
its `.cfg` gives values and its `ASSUME`s restrict. A property reads `which = "wifi" => W!...`. No
component moves in another's behaviours, so nothing is lost or gained over
separate runs; interactions are inside the modules.

| Composite | Components |
|---|---|
| `MCMessages` | SmsReceive ("receive", and with shared references "shared", with blocked senders "blocked"), SmsSend, CallNotify, TestPush, Smtp |
| `MCModem` | OwnerCommands, AtChannel, ModemHealth, ModemHttps, MipStream, EsimApdu, WebJobs |
| `MCDevice` | ConfigStore, Settings, Wifi, UsbRecovery, CaProvision, Log, EsimSwitch, Lpa, Bpp, Es9, Rsp |
| `MCDrains` | Ota, PushQueue, SmsReceive, CallNotify, TestPush, OwnerCommands, ModemHealth (twice), Wifi, Lpa, EsimSwitch, WebJobs |

## Runs

Five runs pass, each over the state space of its instances to the end:

| Run | Instance | Shows |
|---|---|---|
| `push_queue` | 2 items, 2 channels and email, 1 forward, 2 push, 1 email slot, 3 completion records, 2 forwards, 1 notice, symmetric | `CompletionAccounting`, `ForwardedMeansDelivered`, `NoSecondSend`: records are exact, the forwarded mark is earned, no destination is sent to twice |
| `messages` | `MCMessages` | `ReceptionTrue`, `DeletedOnceAdmitted`, `AdmittedOnce`: nothing received is lost or admitted twice, and what can be read is deleted only once it was admitted, or at the cut of a listing, after listings without progress. `SmsSent`: no part is sent twice and reports are true. `CallTold`: a call is told once, with its number. `PushTrue`: a test and a mail are reported as what they were |
| `modem` | `MCModem` | `QueuesExact`, `OrdinaryAnswerIsOwn`, `StartsInSession`: slots and queues agree, a caller gets its own answer, a command starts in its caller's session. `AnswersTrue`: unsolicited lines are neither lost nor invented, an HTTPS body is whole. `HealthTrue`: PIN attempts and resets are limited. `HttpsTrue`, `ProfileKept`: what a session set is put back. `ApduTrue`: the card gets whole requests. `JobsApart`: exclusive work is alone |
| `device` | `MCDevice` | `AcknowledgedDurable`, `Recoverable`, `SavesAtomically`: the store. `SettingsTrue`, `WifiTrue`, `UsbTrue`, `CaTrue` and the action properties in `StepsTrue`: saves, WiFi, the recovery channel, certificates. `LogTrue`: the log. `SwitchTrue`, `InstallTrue` and the action properties in `EsimStepsTrue`: switching and installing profiles |
| `drains` | `MCDrains` | `UpdateTrue`, `ConfirmedOnTrial`: the update. `RecordsSuffice`: a fan-out that fits has a record. `QueuesDrain`, `ModemServes`, `Recovers`, `JobsEnd`: what must happen in the end |

Seven runs find a violation of what a comment or a text of the code says; they are
described under "Disagreements": `maintenance_restart`, `sms_replay`, `sms_cut`,
`owner_esim`, `config_unread`, `roaming_data`, `sms_told`.

## Bounds

Bounds that the code does not have are the `Max...` constants: restarts, faults,
commands, submissions, probes. The code's own capacities are made small.

* **Push.** Two items and two channels make resends of one item, fan-outs of
  different sizes and competition for slots; `RetryMax` 2 (the code has 6) makes
  the last attempt differ from the first. With one forward slot a requeue meets a
  refilled queue. In `drains` one item goes round three times over one slot per
  queue, which needs each record to come back.
* **Reception.** One slot makes every second reference evict; two segments are
  the least that can be incomplete; one entry per ring makes it overflow. The
  first instance has a message of two segments, a corrupt one and one restart, on
  a SIM of two records of which a listing holds one whole, so that a valid record
  may stand at the cut;
  "shared" and "blocked" have three messages of two segments, two of them with one
  reference, and let second segments never come. The stall rounds and the batch
  are at most 2, and 1, instead of 3 and 5; `sms_cut` has the code's capacities. Runs use a VIEW that drops what no action or
  property can tell apart there (the comment at `Apart`).
* **Sending, calls, tests, mail.** Two messages, of one and of several parts, two
  tasks, three references, one fault; two callers of which one is blocked; two
  channels to test with two tests pending; three attempts of a mail with one
  additional line per answer.
* **Owner commands.** Three tasks; two slots are the least that let a caller, the
  owner and a third task use different ones; with one slot (`drains`) every
  command meets the last one's remains. Callers that are gated are not counted,
  so the model never stops.
* **Modem.** Two commands with two unsolicited lines and three lines on the wire;
  two failures of a kind before a limit of two; two answers in flight; bodies of
  three bytes fetched two at a time; three blocks, two segments, three sessions,
  two faults.
* **Configuration.** Three saves in a row write each slot again, generations
  modulo 4 wrap within them, three cuts allow a cut in the save, in the save after
  it, and in the migration at boot. Nine initial partitions: empty, legacy, cut off in
  the first migration, about to wrap, with a slot of no use.
  A garbled first save may leave a slot that no load accepts, so `Bootable` and
  `RollbackReads` speak of partitions that hold no garbled slot.
* **Settings, WiFi, USB, certificates.** Two tasks, three networks in two places; one
  network event, one submission and one press at a time, which is enough for
  every pair of tasks to meet; two runs of the tool with three sends and one
  reset; two origins, three authorities, two slots of each kind.
* **Jobs, profiles, log.** Two job slots, both active; two profiles, a keepalive interval of two
  days, two lists shown; two hosts with three notifications, two jobs, one
  restart; packages of the smallest sizes and one element more; a log ring of
  three lines and six cells that wraps.
* **Update.** Three releases, one chunk, one cut and one failing write.

Deadlock is not checked where the model stops: every segment is delivered, every
command bound is used up, an image on trial is rolled back.

## Fairness

`MCDrains` states for each component the fairness that its scheduling gives, and
each property assumes only its own component's. A step of an endless loop, or a
wait with a deadline, is weakly fair; FreeRTOS schedules every task.

| | Component | Beyond weak fairness |
|---|---|---|
| `PFair` | PushQueue | A leg is picked although others compete: strong fairness of each slot's pop, for the pop scans from slot 0 and what was retried waits at least its back-off. Email needs WiFi: it comes back for good in the end |
| `RFair` | SmsReceive | A deletion that is tried again and again succeeds; a slot that may expire again and again does; the forwarding queue has room again and again, which `QueuesDrain` shows |
| `CFair`, `TFair` | CallNotify, TestPush | none: the loop and the clock |
| `OFair` | OwnerCommands | none: waits of callers have deadlines, an eSIM operation is a finite list, the owner polls twice a second |
| `HFair`, `KFair` | ModemHealth | `SF` of `Unlock`, `Probe` and `Check`: due in some pass in which the channel is idle |
| `WFair` | Wifi | `SF` of the steps that need the driver mutex, which is free again and again |
| `UFair` | Ota | `SF` of the health check: it is repeated within its minute |
| `LFair`, `SFair` | Lpa, EsimSwitch | none: tasks with deadlines |
| `JFair` | WebJobs | `SF` of the scheduler's look at a restored configuration, every round of an endless loop |

Nothing is assumed of the network, a card, a server or a user. Reception drains
although the network may repeat a segment whose acknowledgment failed; with
fewer fingerprints than messages that are repeated in turn it would not.
`Recovers` excepts a device that goes on trying a network that was submitted,
and `ModemServes` a hung modem with no reset left.

## Disagreements between code and comments

* `owner_esim`. The comment at `idf_modem.cpp:3022` says that a reset waits for
  the APDU session to close. The reset does, but `idf_modem_request_reset` closes
  the gate at once, so the session's next command is refused. It takes a caller
  that looked for an eSIM operation before it began: `sms_task`, whose send then
  waits for the session until it times out.
* `config_unread`. The comment at `idf_config_storage.cpp:1631` speaks of the
  inactive slot and the still-valid active one, and a test of keeping the old or
  the new slot. `readSlot` needs memory for each slot; if there is none for the
  newer, the older wins and the save erases the newer one's marker.
  `s_activeSlot`, which knows better, is asked only if no slot wins.
* `maintenance_restart`. `process_forward_one` says that `s_busy` covers the window
  between dequeue and enqueue so that a maintenance restart cannot lose an SMS.
  The check reads `s_busy` first and the depths afterwards, so the worker may
  take a waiting forward between two reads, in both passes.
* `sms_replay`. Four fingerprints do not cover the five completions of a pass.
  The trace starts with ten records; the first pass admits five messages and
  deletes their last segments, and overwrites the first fingerprint. The next
  pass opens a slot for the first message's remaining record. It ends as a
  second notification with a missing segment.

* `sms_cut`. "Later polling recovers omitted SMS" (`idf_modem.cpp:851`), of a response
  that was cut off at 8 KB. It does while listings make progress. But "Three passes
  without progress indicate a corrupt record" (`idf_sms.cpp:1155`) also counts the
  record at the cut, which has no PDU line or half of one. In the trace the SIM
  holds 24 segments, eight each of three messages of nine, and a listing shows 22.
  All wait for the missing segments, so nothing is deleted; after three listings,
  which such segments make follow one another every few seconds, the record at
  the cut is deleted although it can be decoded and no slot has it. Run `messages`
  has such listings as well; `DeletedOnceAdmitted` says there that
  nothing else that can be decoded is deleted early.
* `roaming_data`. `idf_config.h:131` says of `roamingEnabled` "Disable cellular
  data while roaming when false." The probe applies the policy only after a new
  registration; +CEREG going from 1 to 5 without an unregistered probe in
  between leaves the data context active.
* `sms_told`. The web page is told "Check the sent list for the result"
  (`idf_sms.cpp:1569`). A message is popped on a status read earlier in the turn;
  if the modem has left the network meanwhile, `idf_sms_send_text` returns
  before it makes an entry, and the message is in no list.

### Observations

What the modelling met besides; no run checks these. The first two show up when
the named property is added to a run.

* `AnswerIsOwn` in `modem`. A caller whose wait expires marks its slot without the mutex.
  The owner may drop the slot at once, `sms_task` may allocate it for AT+CNMA,
  and the owner may finish that before the first caller gets the mutex. The caller
  finds the slot done, takes the acknowledgment's OK as its own answer and frees
  the slot, so that the acknowledgment times out although it was sent. Ordinary
  commands cannot do this to one another: `OrdinaryAnswerIsOwn`.
* `SignalMeansAnswer` in `modem`. The owner publishes "done" under the mutex and gives the
  semaphore afterwards (`idf_modem.cpp:2635`). A caller that expires in between takes its answer, but
  has no signal to drain yet. If the slot is allocated again before the owner gives
  it, the next caller wakes up at once and reports a time-out that did not happen;
  its command is abandoned.
* Update. If the store of a second update's numbers fails, the numbers of a
  confirmed update that is not yet accepted are erased with it, and older
  releases are accepted again. The attempt to prove `ConfirmedOnTrial` found this;
  `overwrote` marks such behaviours, and the property excepts them.
* Configuration. A first save whose blob or marker is garbled leaves a
  partition that every later load refuses.
* Settings. The form of one push channel carries the other channels from the copy
  it started from, and undoes a save of theirs made meanwhile. `handle_modern_save`
  stores a submitted network over slot 0 before its connection succeeded
  (`idf_web.cpp:3721`). `idf_config_save_wifi` drops the last network although there is a free place.
* WiFi. `sta_wait_first_connect` clears `s_ap_mode` without the driver, and at its
  time-out may start the AP after the connection came up. If `idf_wifi_reconnect`
  fails while a submitted network is tried, the watchdog does nothing.
  A scan's ownership is released twice (`idf_wifi.cpp:853`, `824`). The AP is
  closed when a network submitted over the recovery AP is up, although `idf_wifi.cpp:2208` says
  "Keep APSTA so the page remains connected".
* USB. A frame that was cut, followed by a shorter retry, is wiped with it. A late
  answer for another process with the same command and sequence number is
  accepted; only the success of a provisioning is protected, by its nonce.
* Owner's reads. An answer that arrives after the next command was written is taken for that
  command's; the drain that prevents most of it is bounded at 250 ms. A prompt
  after 5 s leaves the modem waiting for text. `flush_pending` can cut an
  unsolicited line (`idf_modem.cpp:902`).
* Health. "ready" stays after a failed CPIN query. A hung modem makes the SIM
  unknown and starts the count of failures over (`idf_modem.cpp:3411`), so that only the daily check,
  which is off at first, resets it. Attempts whose record in flash failed are not counted.
  One slot holds the PUK requests, and a second one overwrites the first.
* Scheduler (`idf_web.cpp:5449`). That a job is still due is checked before it is
  claimed. The result of `idf_config_set_sched_last` is ignored. A day of the health check
  that lies in the future blocks it.
* HTTPS. "Never rewrite a live PDP", but the undoing restores the profile even
  if the context could not be deactivated; that deactivation is the only undo step that is not
  read back. A notice of disconnection said between commands is drained and lost; one in an
  answer without +MIPRD drops what the modem still held, and without
  Content-Length a truncated body then counts as complete.
* Card. An unsolicited line in an answer fails a strict exchange. A channel above
  3 that a lost answer opened stays open; `close_known_channels` closes 1 to 3,
  whoever owns them.
* Profiles. A crash in the middle of a job that switched profiles loses the
  original one. A lost answer to enable leaves card and modem on different
  profiles. An alias takes its first match although `resolve_identifier` refuses
  ambiguity. If the task does not get the lock at its start, its job stays "queued".
* Installation. More than 16 pending notifications block every installation
  (`idf_lpa_install.cpp:267`). A session whose first answer was lost is not
  cancelled at the server. A consent that arrives between the two deadlines is answered
  "202" and discarded. The hash of the confirmation code in the prepare response is not compared; a list
  of more than 32 elements in a status is refused without an error.
* Jobs. Job ids start again after a reboot; the CSRF token is new with each boot.
* Mail. A whole message whose final answer was lost, or whose limit was noticed
  after its last piece (`idf_push.cpp:776`), is sent again.
* Calls. A task that is blocked for more than 30 s loses a call or tells it twice.
* Certificates. A binding is never removed, and there are five places for six
  targets. One corrupt record makes every lookup and install fail.
* Log. The check word is stored last, so a reset between two stores drops the
  whole log of the last run, although `idf_log.cpp:81` says that a line is lost at most. A
  lock time-out in `idf_log_prev_dump` can replace the log in RAM by the older one in flash, which is
  then saved. A page that is continued over a restart repeats lines.

Hazards that the models leave out: a late failure of an older fan-out clears the
mark a newer one earned (`idf_push.cpp:1693`; the mark may be too low, never too
high); a forward is dropped when its queue was refilled meanwhile (`1412`); the
codec's lock is busy for 6 s; a seen text leaves its ring of 32.

## Proofs

`TLAPS` proves what follows for every value of the constants. Each module has
an inductive invariant, a lemma per action that it is kept, and the theorems.

**`DeviceProofs`**, on the store: `AcknowledgedDurable` and the refinement of
`AtomicConfig` for any changes, number of power cuts, initial partition and
modulus of at least 4, garbled writes included. Both assume `AllReadable`; the run
`config_unread` shows that they need it. The inductive invariant `Durable` says
that a save writes a slot whose sibling either holds all acknowledged changes one
generation before, or is of no use because nothing is acknowledged; that the
marker of the slot is absent while its blob is written; and that whoever starts a
save starts from a value with all acknowledged changes. `NextIsNewer` is the
arithmetic of the wrap; `LoneSlot`, `NewestSlot` and `NoWholeSlot` say what is
loaded and are used of the state before and after a step.
`StoredStep` sums up what any step may do, from which each step is one of
`AtomicConfig` or none. No assumption on the initial partition is needed: the
written slot never depends on what it held.

Its second part is about start-up: `RecoverableAlways` says that a
partition that could be loaded at the first boot can be loaded after a power cut
at any point, by this image and by the one it may be rolled back to, and that
one of two valid slots is newer. It assumes `AllReadable`, and `PreviousStores`:
that other image knows schema 6 or 7, those that are stored in two slots.
`Sound(s)` is what firmware of schema `s` finds: a valid slot that beats every one it
cannot read, or a first save that got as far as its blob. `Boots` asks it of this
schema, and of the previous one until the image is confirmed; `Saving` says what the
save under way may not have touched, `Ordered` that of two valid slots one is
newer.

Its third part is about other components of run `device`:

* `SettingsTrueHolds` and `RemembersHolds`, of `Settings`, for any slots, tasks and
  numbers of saves. `Sound(c)` says of one configuration that each secret in it was given
  for what it stands next to; every form keeps it (`MadeSound`), from whichever copy
  it starts, so the copies and the backup in the invariant are sound, too. `LastWins` and
  `NotLockedOut` are kept because a job makes the value to store under the lock that it
  holds until it stores. To prove about the forms, the CASE of the
  model over the slots of one had to be restated: two of its guards overlapped.
* `WifiTrueHolds`, for any number of events, submissions and presses. `TargetKept` alone is
  not inductive: while `idf_wifi_provision_connect` holds the driver, the target is
  withdrawn and may be put back. `Goal` is the target that counts meanwhile;
  `Aimed` says that the driver is configured for it, and that a validation is only pending
  for one. `ApShown` says what the driver and `s_ap_mode` are between the start of an AP and its
  mark, `Closers` who closes an AP nobody waits on, without the excuse that the
  mutex is taken.
* `CaTrueHolds` cites what `CaProvisionProofs` proves.
* `UsbTrueHolds`, for any runs of the tool, any number of requests and of resets. It
  assumes `UsbAssumption`: a run is not called "none", its kind is one of the six, and the
  sequence numbers and requests are at least one. `SentOnce` says that the request by which
  a run has its network stored is on the line once at most, and that nothing is done for the
  run before it is read. `JobTrue` follows the worker's stages to the outcome that the job
  shows; `AnswersTrue` of `UsbRecovery` says that an outcome on its way to the tool is
  final (`Over`: the request is sent and read and no worker has it), which is why a late answer
  does no harm; `ToolTrue` says it of what a run has reported. A parser that resynchronises only
  drops the front of what it holds (`FedLine`), up to the first header, which exists because the
  order of the numbers is well-founded.
* `StepsHold` (`StepsTrue`): a target is given up only when reached, connecting forgets no
  network, a worker's request is not replaced under it, an installation that is told to be done
  is found.
* `SwitchTrueHolds` carries what `EsimSwitchProofs` proves to the instance that run `device`
  checks, whatever values its constants have.
* `InstallationsTrue` (the part of `InstallTrue` about `Lpa`: a reported installation is on
  the card, had this job's consent, and its session is used, cancelled, or said not to
  be) and `EsimStepsHold` (`EsimStepsTrue`, with what `EsimSwitchProofs` says of the switching steps)
  hold for any servers and notifications; `LpaAssumption` says that servers are
  numbers and bounds are natural. Of `Lpa`'s invariant `Untouched` says up to which step the card has nothing of the
  job and its session is not open, `Concluded` what is true of a job that is about to
  report, `Agreed` that a consent on its way was given to this very job, and
  `Accounted` which notifications are neither delivered nor still to be sent: those of a
  server that was put off, and past the recovery none of this job's server, so that the
  job's own notification comes after all of them. That there is a first of those left
  follows from the well-foundedness of the order of numbers.

**`OwnerCommandsProofs`**: `TypeCorrect`, `EntriesHold` and `QueueNeverFullHolds` (together
`QueuesExactHold`), and `StartsInSessionHolds`,
for any tasks, slots and bounds, and `OrdinaryAnswersAreOwn`. The inductive
invariant adds two parts to the types and `QueueEntries`. `CallerInv` says where
a caller may be while it holds the session or an eSIM operation. `Owned` says
that a queued command which nobody has given up belongs to a caller that still waits
for it at this slot and, if it is ordinary, holds the session; without it
`StartsInSession` is not inductive, since the session says nothing of a command that
was queued before. `QueueNeverFull` needs counting: a queue without repetitions
that misses a slot is shorter than the slots. `OrdinaryAnswersAreOwn`
needs `OrdinaryInv`: the slot that a caller looks at is free again or still holds its own
command, because the session keeps every other caller from allocating it.

The same module proves more of run `modem`, of other components:

* `HealthTrueHolds` (the PIN is spared, resets are spaced), for any limits, faults and
  events. `PinCounted`: until the saved PIN turns out to be right, every wrong attempt
  is in `failed` or was one whose record was lost; from then on there are no more, though
  `failed` may start over. `ResetsCounted` ties the history `asked` to the two
  counters, of `modem_task` and of the daily check: neither is behind it, and a
  claim of the daily check is ahead of it.
* `ApduTrueHolds`, for any card, blocks, segments and sessions. `Sending` says that
  the card has the blocks sent so far in their order, `Collecting` that what was collected and what
  the card still owes are its answer; a lost answer ends the session, so no
  block is sent again. `Opening` gives the second half: after a sweep
  that no fault struck a channel is free, so that a session without one was struck. The
  sequences are functions counted up from a number, so that no induction over
  them is needed; the lowest free channel exists because < on the naturals is
  well-founded.
* `HttpsTrueHolds` and `ProfileKeptHolds`, of `ModemHttps`, for any numbers of polls
  (`MaxPolls`, at least one) and of answers on their way (`MaxFlight`). `SettingsRestored` says nothing
  before the end; the invariant follows the session there. `Forward`: until the undoing begins the
  session has had every answer, so that none is on its way, and its flags are those of its step.
  `Marked`: what it has not marked is as it was, since every step marks before it writes. `Backward`:
  each step of `UndoOrder` before the present one is `Undone`, or `clean` or `reset` tells that
  it is not. What makes this fail without more is an answer that comes late and is read as
  the confirmation of another step. `LateTrue` says that one on its way which says that a thing is
  as it was tells the truth: by then only undoing touches it. The deactivation of the context
  is not read back, and `PdpPutDown` is therefore proved only unless an answer was taken for
  another (`mixed`).

**`PushQueueProofs`**: the safety invariants of `PushQueue` for all sets of
items, channels and slots and all bounds. It assumes what the constants'
assumptions in `PushQueue` say: distinct values, finite sets, and as many completion
records as leg slots (`s_forward_completions` has `PUSH_QUEUE_MAX + EMAIL_QUEUE_MAX`
entries).

* `TypeCorrect`: one step per action.
* `IndInv` strengthens the three accounting invariants. `CompletionAccounting`
  alone is not inductive: a success of a leg must find its destination among
  those left, or the counter and the set drift apart, which is `NoSecondSend`;
  and that in turn needs every leg's completion id to be one that was given out.
  Records must have different ids, so that a success counts in one record only.
  Actions fall into groups that move legs (`MoveKeeps`), cancel completions
  (`CancelKeeps`), add notices (`NoticeKeeps`), count a success
  (`SuccessKeeps`) and fan out (`FanOutKeeps`).
* `AvailableHolds` (`RecordsSuffice` of run `drains`): each record has a leg, and different records have different
  legs; so the records in use are fewer than the slots in use while the worker's hand is
  busy with a forward.

**`WebJobsProofs`**: `JobsAreApart` and, as a part of it, `RestartsSpare`, for any
number of job slots; `JobsApartHolds` (in `OwnerCommandsProofs`) carries it to the
instance that run `modem` checks.
`JobsApart` looks at flags and slots; whether it is kept depends on where the
handler and the scheduler are. `Places` says where each may be, `OneHolder` that
the handler, the cellular jobs or the scheduler has the admission, but no two of
them, `OneOwner` the same of the restart, `Found8` what the scheduler's looks have
established by the time it decides, and `Checked` the same of a handler.
`OneClaim` gives each claim at most one job, `Served` at least one, unless a
handler is on its way to start it or it was refused.

**`OtaProofs`**: `UpdateIsTrue` (there is always an image that starts; the
numbers name the one on trial; only confirmed releases are accepted) and the
action property `ConfirmedIsOnTrial`, for any releases, chunks, cuts and failing
writes. Power may be cut between the writes of `finish` and of the health check, so the
invariant says for each step of these programs what is in flash
(`Session`, `Steps`, `Timely`), which slot runs and is selected (`Running`,
`Selected`), and what the numbers mean then (`Trial`, `Waiting`, `Counted`).
`RecordsSufficeHolds` carries `AvailableHolds` of `PushQueueProofs` to the instance
that run `drains` checks.

**`SmsReceiveProofs`**: `ReceptionHolds` (nothing is lost) and the action
property `DeletesOnceAdmitted`, for any messages, segments, slots, rings and
records, whether or not a listing holds the whole SIM. What can be decoded may be
removed as corrupt only at the cut (`Spared`, `Listed`), after `StallMax` listings without a
deletion: `Counted` says that no kind of unreadable record has stalled for longer than
the listings have. `Backed` says that each
segment is still offered, on the SIM, covered by an admission or the text of a blocked
sender, or was acknowledged and is in a slot (a restart loses the slots, not the SIM);
`Grounds` that what makes `sms_task` drop a segment is true: a slot that
counts it as delivered, a fingerprint, a seen text;
`Listed` that a pass holds whole records that are still on the SIM.
Most of the work is in the handling of one segment, which all three ways of
reading share: its lemmas are stated over the operator `Handle`, and each action
cites them.

`PushTrueHolds`, in the same module, is about the tests of channels and the dialogue of
an email. `WorkerSound` says that while the worker sends, the slot runs the very test
it took up, so that what it writes back is the result of the test last asked for. For the
mail `Places` says where an attempt may be, and `Answering` that unread lines answer the
command under way and end with its one final line; `InStep` follows.
`Bare` bounds the script without TLS by its handshake, which is `Veiled`; `Accounts`
gives each attempt at most one message that the server has, may have, or had.

**`CaProvisionProofs`**: `CaTrueAlways` (an origin has one binding, every
binding finds its certificate, none is stored twice, every authority bound was in the
origin's chain; `DeviceProofs` cites it of the instance in run `device`) and `InstallsAlways` (an
installation that is told to be done found the certificate sent). It assumes `CaAssumption`: slots are finite sets of positive
numbers, and "not found" and "invalid" are no certificates. `Timely` says that what a job
read at a generation that is still current is the channel's target; `Working`
says, for each write under way, that the certificate goes only where nothing is bound to what
it replaces, and that no other slot binds the origin. `LowestExists` derives the
lowest slot from the well-foundedness of the strict subset order, for induction
over numbers takes an operator as a parameter, which the provers cannot
instantiate.

**`EsimSwitchProofs`**: `ActsRightly` (`SwitchTrue` of `EsimSwitch`: the modem
runs on the profile that the card enables, a job acts on its target, a user's operation
on the profile he was shown), and the action properties `SwitchesBack` and
`PutsOffADay`, for any profiles, published lists, operations and intervals.
`DeviceProofs` cites them of the instance in run `device`. `ProfilesAssumption` there is
`EsimAssumption`: the card holds finitely many profiles, and an interval is at least a day.
`Places` says which steps a scheduled job and a user's take, `OnTarget` and
`Follows` that a confirmed switch leaves card and modem on the target (unless an
answer was lost). `WayBack` goes through a sound job step by step: from its list on it
knows the profile it found, until it switches the card is on it, and
from the undone switch on it is again; that is all `SwitchesBack` needs at the
last step. `Handled` ties each handle of the current list to the profile it was
shown with, `Rests` the day of a failure on record to a baseline that is not due.
`ListedType` derives that the card's list is a sequence from the finiteness
of the set of profiles.

**What is only model-checked.** Liveness (`QueuesDrain`, `ModemServes`,
`Recovers`, `JobsEnd`), which is out of the prover's reach. `AdmittedOnce`: no
fingerprint or seen text that justifies it survives unlimited messages, so it
holds of the instances only; `sms_replay` shows what more messages do. `SmsSent`
and `CallTold`: a text is split, and lines are taken in batches, by folds over
sequences, and what a fold computes for every sequence takes induction over data.
`AnswersTrue` (histories of lines on the wire), `LogTrue` (a ring of cells) and of
`InstallTrue` what `Rsp` and `Bpp` say (the fields of a message, the bytes of a package)
are of the same kind, and so is the part of `AnswersTrue` about pieces of a stream (`MipStream`). What
`InstallTrue` says of `Es9` could be proved, and has not been.

## Plan

1. Proofs of `Es9` (a request is sent once, a success is a whole answer).
2. The split of a text and the batch of lines as recursive functions, with which
   `SmsSend` and `CallNotify` could be proved about by the well-foundedness of their lengths.
3. Of `MaintenanceRestart` what its check does guarantee.
4. `ReliableForward`, an abstract specification of reception and forwarding that
   both implement.

Not planned: PDU coding, cryptography, the format of payloads and backups,
certificate parsing, the browser's code, the mock server and the build tools.
They compute on data and hold no state that others race for.
