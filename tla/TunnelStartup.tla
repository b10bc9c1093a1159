---------------------------- MODULE TunnelStartup ----------------------------
(***************************************************************************)
(* StartWireguard of src/unnamed/part_000, composed with the config        *)
(* compiler it consumes.  Its first call, CreateIPCRequest, is AwgConfig's *)
(* Emit, which the caller reaches only when ParseASecConfig accepted the   *)
(* section.  The calls into the engine follow, each returning early on an *)
(* error: netstack.CreateNetTUN, device.NewDevice (which cannot fail),     *)
(* dev.IpcSet and dev.Up.  The engine's answers are external and chosen    *)
(* nondeterministically.                                                   *)
(*                                                                         *)
(* `spc` is where StartWireguard is: "ipc" before CreateIPCRequest         *)
(* returned, then "tun", "ipcset", "up", and "returned" with a VirtualTun  *)
(* or "failed" with an error.  `dev` is the engine's side: whether the tun *)
(* exists, whether a device exists and is up, and the IPC lines it holds.  *)
(***************************************************************************)
EXTENDS AwgConfig

VARIABLES spc, dev

startupVars == <<spc, dev>>
allVars == <<vars, startupVars>>

NoDevice == [tun |-> FALSE, device |-> FALSE, up |-> FALSE, config |-> <<>>]

StartupInit ==
  /\ Init
  /\ spc = "ipc"
  /\ dev = NoDevice

\* The caller's ParseConfig, before StartWireguard is called.
StartCompile ==
  /\ Compile
  /\ UNCHANGED startupVars

\* CreateIPCRequest; it never returns an error, so the early return after
\* it is never taken.
StartIpc ==
  /\ spc = "ipc"
  /\ Emit
  /\ spc' = "tun"
  /\ UNCHANGED dev

\* netstack.CreateNetTUN, then device.NewDevice on the tun it returned.
StartTun ==
  /\ spc = "tun"
  /\ \/ /\ spc' = "failed"
        /\ UNCHANGED dev
     \/ /\ spc' = "ipcset"
        /\ dev' = [dev EXCEPT !.tun = TRUE, !.device = TRUE]
  /\ UNCHANGED vars

\* Fault variant of StartIpcSet: IpcSet's error is not checked.
StartIpcSetIgnoreError ==
  /\ spc = "ipcset"
  /\ spc' = "up"
  /\ \E n \in 0..Len(ipc) : dev' = [dev EXCEPT !.config = SubSeq(ipc, 1, n)]
  /\ UNCHANGED vars

\* dev.IpcSet(setting.IpcRequest): the engine applies the request line by
\* line, so on an error it holds some prefix of it.
StartIpcSet ==
  /\ spc = "ipcset"
  /\ \/ /\ spc' = "up"
        /\ dev' = [dev EXCEPT !.config = ipc]
     \/ /\ spc' = "failed"
        /\ \E n \in 0..(Len(ipc) - 1) : dev' = [dev EXCEPT !.config = SubSeq(ipc, 1, n)]
  /\ UNCHANGED vars

\* dev.Up(); on success the VirtualTun wrapping tnet and dev is returned.
StartUp ==
  /\ spc = "up"
  /\ \/ /\ spc' = "returned"
        /\ dev' = [dev EXCEPT !.up = TRUE]
     \/ /\ spc' = "failed"
        /\ UNCHANGED dev
  /\ UNCHANGED vars

StartupNext == StartCompile \/ StartIpc \/ StartTun \/ StartIpcSet \/ StartUp

StartupSpec == StartupInit /\ [][StartupNext]_allVars

(***************************************************************************)
(* StartWireguard checks the error of every engine call before the next:   *)
(* a VirtualTun is returned only for a device that is up and holds the     *)
(* whole IPC request CreateIPCRequest built from a section ParseASecConfig *)
(* accepted, and a device is never up when StartWireguard failed.          *)
(***************************************************************************)
EngineRunsAcceptedConfig ==
  /\ spc = "returned" => /\ outcome = OK
                         /\ dev.up
                         /\ dev.config = ipc /\ ipc # <<>>
  /\ dev.up => spc = "returned"
==============================================================================
