---------------------------- MODULE MCControlPlane ----------------------------
(***************************************************************************)
(* The two parts that keep the running system at what a configuration      *)
(* says: the router's watcher of its file, and the operator's controller   *)
(* of LoRA adapters.  They share nothing, so a behaviour is of one of them.*)
(***************************************************************************)
EXTENDS DynamicConfig, LoraAdapters

VARIABLE plane

controlVars == <<plane, configVars, loraVars>>

Plain == CHOOSE c \in Configs : Valid(c)

\* The valid discoveries are alike, so the command line may name any one of them.
ControlInit ==
  /\ ConfigInit /\ LoraInit
  /\ \/ /\ plane = "config" /\ args.discovery = Plain.discovery
        /\ podState = [p \in Pods |-> "absent"] /\ replicas = 0 /\ path = "set"
     \/ /\ plane = "lora"
        /\ file = Unreadable /\ args = Plain

ControlNext ==
  \/ plane = "config" /\ ConfigNext /\ UNCHANGED <<plane, loraVars>>
  \/ plane = "lora" /\ LoraNext /\ UNCHANGED <<plane, configVars>>

\* The threads of the router are scheduled; passes of the controller are repeated,
\* and each of their calls returns or never does.
ControlSpec ==
  /\ ControlInit /\ [][ControlNext]_controlVars
  /\ WF_configVars(plane = "config" /\ WatcherStep) /\ WF_configVars(plane = "config" /\ MainStep)
  /\ WF_loraVars(plane = "lora" /\ (ReconcileStep \/ \E p \in Pods : CallHangs(p)))

=============================================================================
