-------------------------------- MODULE Device --------------------------------
(***************************************************************************)
(* Settings, boot and network: what is kept in flash, how app_main starts  *)
(* the network from it and falls back to its own access point, and the     *)
(* requests that change it (main.c, storage.c, network_mngr.c,             *)
(* set_credentials_handler, reset_to_factory_handler).                     *)
(*                                                                         *)
(* A key of the flash holds its value or "none".  Keys are written one by  *)
(* one, and the power may fail between any two.  app_main and the web      *)
(* server are two tasks; a request can come as soon as the web server runs *)
(* and the station has joined its network, whether app_main knows or not.  *)
(***************************************************************************)
EXTENDS Naturals, Sequences

CONSTANTS
  MaxRetry,       \* ADAPTER_MAX_RETRY_CNT
  Limits          \* bounds: the requests sent, power losses, lost connections

MaxRetryAssumption == MaxRetry \in Nat \ {0}

Keys  == {"ports", "mode", "ssid", "pass", "ap_ssid", "ap_pass", "rest"}
Names == {"default", "home", "own"}
Words == {"default", "right", "wrong", "short"}

\* What the page sends: mode "none" is the form of the UART settings, which
\* leaves the others out; an empty name or password is "none".
Request == [mode : {"AP", "SM", "none"}, ssid : Names \cup {"none"},
            pass : Words \cup {"none"}, ports : {"default", "own"}]

LimitsAssumption ==
  Limits \subseteq [requests : SUBSET Request, saves : Nat, losses : Nat, leaves : Nat]

VARIABLES
  nvs,       \* the settings in flash
  ram,       \* g_app_params and gbl_p*_cfg
  main,      \* where app_main stands
  try,       \* the attempt of network_mngr_connect_sta
  bits,      \* WIFI_STARTED, WIFI_CONNECTED, WIFI_DISCONNECTED in s_event_group
  wifi,      \* the radio: off, ap, idle, joining, joined
  http,      \* the web server: off, idle, saving, restarting
  todo,      \* the writes its handler still has to make
  restart,   \* reboot_required
  asked,     \* observation: the settings that were last asked for
  left,      \* what is left of the bounds on requests, losses and lost connections
  limit      \* the bounds of this behaviour

vars == <<nvs, ram, main, try, bits, wifi, http, todo, restart, asked, left, limit>>

Off == [mode |-> "none", ssid |-> "none", pass |-> "none", ports |-> "none"]

Defaults == [mode |-> "AP", ssid |-> "default", pass |-> "default", ports |-> "default",
             ap_ssid |-> "default", ap_pass |-> "default"]

Init ==
  /\ limit \in Limits
  /\ nvs = [k \in Keys |-> "none"] /\ ram = Off
  /\ main = "settings" /\ try = 1 /\ bits = {} /\ wifi = "off"
  /\ http = "off" /\ todo = <<>> /\ restart = FALSE
  /\ asked = Defaults
  /\ left = [saves |-> limit.saves, losses |-> limit.losses, leaves |-> limit.leaves]

-----------------------------------------------------------------------------
(* Restarts.                                                               *)

\* A handler still has to write this key.
Pending(k) == \E i \in 1 .. Len(todo) : todo[i].key = k

\* Everything but the flash starts over.  Writes that a handler still had to
\* make are lost: nobody can say what was asked of those keys.
Restarted ==
  /\ ram' = Off /\ main' = "settings" /\ try' = 1 /\ bits' = {} /\ wifi' = "off"
  /\ http' = "off" /\ todo' = <<>> /\ restart' = FALSE
  /\ asked' = [k \in DOMAIN asked |-> IF Pending(k) THEN "unknown" ELSE asked[k]]

PowerLoss ==
  /\ left.losses > 0 /\ left' = [left EXCEPT !.losses = @ - 1]
  /\ Restarted
  /\ UNCHANGED <<nvs, limit>>

-----------------------------------------------------------------------------
(* app_main: storage_init_nvs, load_network_params, load_port_configurations. *)

DefaultOf(k) == IF k = "rest" THEN "default" ELSE Defaults[k]

\* The order in which missing keys are given their defaults; those of the
\* access point only when it is going to be used.
BootOrder == <<"ssid", "pass", "ports", "mode", "ap_ssid", "ap_pass", "rest">>
Wanted(k) == (k \in {"ap_ssid", "ap_pass"} => nvs.mode # "SM")
Missing == {i \in 1 .. Len(BootOrder) : Wanted(BootOrder[i]) /\ nvs[BootOrder[i]] = "none"}

WriteDefault ==
  /\ main = "settings" /\ Missing # {}
  /\ \E i \in Missing :
       /\ \A j \in Missing : i <= j
       /\ nvs' = [nvs EXCEPT ![BootOrder[i]] = DefaultOf(BootOrder[i])]
  /\ UNCHANGED <<ram, main, try, bits, wifi, http, todo, restart, asked, left, limit>>

\* The settings are read and the web server is started.
LoadSettings ==
  /\ main = "settings" /\ Missing = {}
  /\ ram' = IF nvs.mode = "SM"
            THEN [mode |-> "SM", ssid |-> nvs.ssid, pass |-> nvs.pass, ports |-> nvs.ports]
            ELSE [mode |-> "AP", ssid |-> nvs.ap_ssid, pass |-> nvs.ap_pass,
                  ports |-> nvs.ports]
  /\ main' = "start" /\ http' = "idle"
  /\ UNCHANGED <<nvs, try, bits, wifi, todo, restart, asked, left, limit>>

-----------------------------------------------------------------------------
(* app_main: network_start.                                                *)

\* network_mngr_init_ap: the driver refuses a password that is too short for
\* WPA.  Otherwise the access point is up, which an event says.
InitAp ==
  /\ main = "start" /\ ram.mode = "AP"
  /\ IF ram.pass = "short"
     THEN main' = "failed" /\ UNCHANGED <<wifi, bits>>
     ELSE main' = "started" /\ wifi' = "ap" /\ bits' = bits \cup {"started"}
  /\ UNCHANGED <<nvs, ram, try, http, todo, restart, asked, left, limit>>

InitSta ==
  /\ main = "start" /\ ram.mode = "SM"
  /\ main' = "started" /\ wifi' = "idle" /\ bits' = bits \cup {"started"}
  /\ UNCHANGED <<nvs, ram, try, http, todo, restart, asked, left, limit>>

Started ==
  /\ main = "started" /\ "started" \in bits
  /\ bits' = bits \ {"started"}
  /\ main' = IF ram.mode = "AP" THEN "run" ELSE "clear"
  /\ UNCHANGED <<nvs, ram, try, wifi, http, todo, restart, asked, left, limit>>

\* network_mngr_connect_sta: the bits of earlier attempts are cleared ...
ClearBits ==
  /\ main = "clear" /\ main' = "connect"
  /\ bits' = bits \ {"connected", "disconnected"}
  /\ UNCHANGED <<nvs, ram, try, wifi, http, todo, restart, asked, left, limit>>

\* ... esp_wifi_connect, which has no effect while an earlier attempt is under
\* way or has succeeded, and may then say so ...
Connect ==
  /\ main = "connect"
  /\ wifi' = IF wifi = "idle" THEN "joining" ELSE wifi
  /\ \/ main' = "wait"
     \/ wifi # "idle" /\ main' = "again"
  /\ UNCHANGED <<nvs, ram, try, bits, http, todo, restart, asked, left, limit>>

\* ... and a wait of ten seconds for either event.
Await ==
  /\ main = "wait"
  /\ main' = IF "connected" \in bits THEN "run" ELSE "again"
  /\ bits' = bits \ {"connected", "disconnected"}
  /\ UNCHANGED <<nvs, ram, try, wifi, http, todo, restart, asked, left, limit>>

Again ==
  /\ main = "again"
  /\ IF try < MaxRetry THEN main' = "clear" /\ try' = try + 1
                       ELSE main' = "failed" /\ UNCHANGED try
  /\ UNCHANGED <<nvs, ram, bits, wifi, http, todo, restart, asked, left, limit>>

\* Mutant: the fall-back is not saved.
FallbackNotSaved ==
  /\ main = "failed" /\ main' = "restart"
  /\ UNCHANGED <<nvs, ram, try, bits, wifi, http, todo, restart, asked, left, limit>>

\* network_start failed: a station will be an access point after the restart.
\* While a handler is about to write the mode, who writes last wins.
Fallback ==
  /\ main = "failed" /\ main' = "restart"
  /\ IF ram.mode = "SM"
     THEN /\ nvs' = [nvs EXCEPT !.mode = "AP"]
          /\ asked' = [asked EXCEPT !.mode = IF Pending("mode") THEN "unknown" ELSE "AP"]
     ELSE UNCHANGED <<nvs, asked>>
  /\ UNCHANGED <<ram, try, bits, wifi, http, todo, restart, left, limit>>

MainRestart ==
  /\ main = "restart"
  /\ Restarted
  /\ UNCHANGED <<nvs, left, limit>>

-----------------------------------------------------------------------------
(* The radio and the events it posts.                                      *)

Right == ram.ssid = "home" /\ ram.pass = "right"

Join ==
  /\ wifi = "joining" /\ Right
  /\ wifi' = "joined" /\ bits' = bits \cup {"connected"}
  /\ UNCHANGED <<nvs, ram, main, try, http, todo, restart, asked, left, limit>>

Refuse ==
  /\ wifi = "joining"
  /\ wifi' = "idle" /\ bits' = bits \cup {"disconnected"}
  /\ UNCHANGED <<nvs, ram, main, try, http, todo, restart, asked, left, limit>>

\* The network goes away.
Leave ==
  /\ wifi = "joined" /\ left.leaves > 0
  /\ wifi' = "idle" /\ bits' = bits \cup {"disconnected"}
  /\ left' = [left EXCEPT !.leaves = @ - 1]
  /\ UNCHANGED <<nvs, ram, main, try, http, todo, restart, asked, limit>>

-----------------------------------------------------------------------------
(* Requests.                                                               *)

Reachable == http # "off" /\ wifi \in {"ap", "joined"}

Write(k, v) == [key |-> k, value |-> v]
If(cond, writes) == IF cond THEN writes ELSE <<>>

SsidKey(r) == IF r.mode = "AP" THEN "ap_ssid" ELSE "ssid"
PassKey(r) == IF r.mode = "AP" THEN "ap_pass" ELSE "pass"

\* Mutant: the password is not compared.
WifiChangedNotPass(r) ==
  r.mode # "none" /\
    \/ nvs.mode # r.mode \/ ram.mode # r.mode
    \/ nvs[SsidKey(r)] # r.ssid

\* wifi_changed: against what is stored and, for the mode, what is running.
WifiChanged(r) ==
  r.mode # "none" /\
    \/ nvs.mode # r.mode \/ ram.mode # r.mode
    \/ nvs[SsidKey(r)] # r.ssid
    \/ r.pass # "none" /\ nvs[PassKey(r)] # r.pass

\* set_credentials_handler: the comparisons, the writes in their order, and
\* whether a restart is needed.
Writes(r) ==
  If(r.mode # "none", <<Write("ports", r.ports)>>)
    \o If(WifiChanged(r), <<Write("mode", r.mode), Write(SsidKey(r), r.ssid)>>
                            \o If(r.pass # "none", <<Write(PassKey(r), r.pass)>>))
    \o <<Write("rest", "default")>>

Save(r) ==
  /\ http = "idle" /\ Reachable /\ left.saves > 0
  /\ r \in limit.requests
  /\ http' = "saving" /\ todo' = Writes(r)
  /\ restart' = (r.mode = "none" \/ WifiChanged(r) \/ r.ports # ram.ports \/ nvs.rest = "none")
  /\ asked' = IF r.mode = "none" THEN asked
              ELSE [asked EXCEPT !.mode = r.mode, !.ports = r.ports,
                     ![SsidKey(r)] = IF r.ssid = "none" THEN Defaults[SsidKey(r)] ELSE r.ssid,
                     ![PassKey(r)] = IF r.pass = "none" THEN @ ELSE r.pass]
  /\ left' = [left EXCEPT !.saves = @ - 1]
  /\ UNCHANGED <<nvs, ram, main, try, bits, wifi, limit>>

\* reset_to_factory_handler: the keys are erased one by one.
ResetOrder == <<"ports", "mode", "ssid", "pass", "ap_ssid", "ap_pass", "rest">>

FactoryReset ==
  /\ http = "idle" /\ Reachable /\ left.saves > 0
  /\ http' = "saving" /\ restart' = TRUE
  /\ todo' = [i \in 1 .. Len(ResetOrder) |-> Write(ResetOrder[i], "none")]
  /\ asked' = Defaults
  /\ left' = [left EXCEPT !.saves = @ - 1]
  /\ UNCHANGED <<nvs, ram, main, try, bits, wifi, limit>>

WriteKey ==
  /\ http = "saving" /\ todo # <<>>
  /\ nvs' = [nvs EXCEPT ![Head(todo).key] = Head(todo).value]
  /\ todo' = Tail(todo)
  /\ UNCHANGED <<ram, main, try, bits, wifi, http, restart, asked, left, limit>>

\* The answer: saved, or rebooting after two or three seconds.
Answer ==
  /\ http = "saving" /\ todo = <<>>
  /\ http' = IF restart THEN "restarting" ELSE "idle"
  /\ UNCHANGED <<nvs, ram, main, try, bits, wifi, todo, restart, asked, left, limit>>

HttpRestart ==
  /\ http = "restarting"
  /\ Restarted
  /\ UNCHANGED <<nvs, left, limit>>

-----------------------------------------------------------------------------
Main == \/ WriteDefault \/ LoadSettings \/ InitAp \/ InitSta \/ Started
        \/ ClearBits \/ Connect \/ Await \/ Again \/ Fallback \/ MainRestart
Httpd == WriteKey \/ Answer \/ HttpRestart

Next == \/ Main \/ Httpd
        \/ Join \/ Refuse \/ Leave \/ PowerLoss
        \/ \E r \in Request : Save(r)
        \/ FactoryReset

Spec == Init /\ [][Next]_vars

\* Both tasks run, and a wait of app_main ends, if only by its timeout.
Fairness == WF_vars(Main) /\ WF_vars(Httpd)
FairSpec == Spec /\ Fairness

-----------------------------------------------------------------------------
TypeOK ==
  /\ limit \in Limits
  /\ nvs \in [Keys -> Names \cup Words \cup {"AP", "SM", "none"}]
  /\ ram \in [mode : {"AP", "SM", "none"}, ssid : Names \cup {"none"},
              pass : Words \cup {"none"}, ports : {"default", "own", "none"}]
  /\ main \in {"settings", "start", "started", "clear", "connect", "wait", "again",
               "run", "failed", "restart"}
  /\ try \in 1 .. MaxRetry
  /\ bits \subseteq {"started", "connected", "disconnected"}
  /\ wifi \in {"off", "ap", "idle", "joining", "joined"}
  /\ http \in {"off", "idle", "saving", "restarting"}
  /\ restart \in BOOLEAN
  /\ todo \in Seq([key : Keys, value : Names \cup Words \cup {"AP", "SM", "none"}])
  /\ asked \in [DOMAIN Defaults -> Names \cup Words \cup {"AP", "SM", "unknown"}]
  /\ left \in [saves : Nat, losses : Nat, leaves : Nat]

\* Once a request has been answered, and unless it was cut short by a restart,
\* the device runs with what has been asked for since the last factory reset:
\* whatever the handler's comparisons left out had not changed.
Agrees(a, v) == a \in {"unknown", v}

RunsAsAsked ==
  main = "run" /\ http = "idle" =>
    /\ Agrees(asked.mode, ram.mode) /\ Agrees(asked.ports, ram.ports)
    /\ Agrees(asked[SsidKey(ram)], ram.ssid)
    /\ Agrees(asked[PassKey(ram)], ram.pass)

\* A restart in the middle of a request leaves a network to come back to:
\* with a password the access point accepts, and as long as the network it has
\* joined stays, the device can be reached again.
ReachableAgain == limit.leaves = 0 => []<>Reachable
=============================================================================
