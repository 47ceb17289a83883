----------------------------- MODULE SharedFiles -----------------------------
(***************************************************************************)
(* What several processes or branches write: the references of artifacts,  *)
(* their registry and the branches merged into it, the targets and         *)
(* checkpoints of provisioning plans, the configuration files of AI        *)
(* clients, and that of the adapters.  They share no state: a behavior is  *)
(* one of the parts named in Parts, and the variables of the others keep   *)
(* one value.                                                              *)
(***************************************************************************)
EXTENDS ArtifactAllocation

CONSTANTS
    Parts,             \* the parts that are explored
    \* ArtifactRegistry
    Pulls, Refs, Registered, Aliases, PullEdits, MaxMerges, UpToDate,
    \* Provisioning
    Needed, Recipes, Foreign, Provisioners, ProvisionCalls,
    \* ClientIntegration
    Integrations, Integrators, Versions, Windows, FileEdits, IntegrationCalls, MaxPlans,
    \* RuntimeConfiguration
    Connections, Settings, Malformed, Editors, Overlap, MaxSaves, MaxCommands

VARIABLES
    part,
    \* ArtifactRegistry
    main, merges, pull,
    \* Provisioning
    expired, files, checkpoint, staging, lock, provisioner, installs, provisionings,
    \* ClientIntegration
    file, plans, manifest, backup, integrator, edits, integrations,
    \* RuntimeConfiguration
    document, record, editor, stamps, replaced, commands

allocationVars == vars
registryVars == <<main, merges, pull>>
provisionVars == <<expired, files, checkpoint, staging, lock, provisioner, installs,
                   provisionings>>
clientVars == <<file, plans, manifest, backup, integrator, edits, integrations>>
configurationVars == <<document, record, editor, stamps, replaced, commands>>
allVars == <<part, allocationVars, registryVars, provisionVars, clientVars,
             configurationVars>>

-----------------------------------------------------------------------------
(* The parts.  "at" and "calls" of each part are variables of their own.     *)
Registry == INSTANCE ArtifactRegistry WITH
    Uids <- Registered, Missing <- None, MaxEdits <- PullEdits
Provision == INSTANCE Provisioning WITH
    Requests <- Needed, Callers <- Provisioners, Nothing <- None,
    MaxCalls <- ProvisionCalls, at <- provisioner, calls <- provisionings
Integration == INSTANCE ClientIntegration WITH
    Requests <- Integrations, Callers <- Integrators, MaxEdits <- FileEdits,
    MaxCalls <- IntegrationCalls, at <- integrator, calls <- integrations
Configuration == INSTANCE RuntimeConfiguration WITH
    Ids <- Connections, at <- editor

ASSUME RegistryAssumption == Registry!RegistryAssumption
ASSUME ProvisionAssumption == Provision!ProvisionAssumption
ASSUME IntegrationAssumption == Integration!IntegrationAssumption
ASSUME ConfigurationAssumption == Configuration!ConfigurationAssumption

PartInit ==
    /\ part \in Parts
    /\ Init /\ Registry!Init /\ Provision!Init /\ Integration!Init /\ Configuration!Init
    /\ part # "provisioning" => files = [t \in DOMAIN files |-> None]
    /\ part # "integration" => ~file.exists
    /\ part # "configuration" => document.connections = [i \in Connections |-> "none"]

AllocationStep ==
    /\ part = "allocation" /\ Next
    /\ UNCHANGED <<part, registryVars, provisionVars, clientVars, configurationVars>>
RegistryStep ==
    /\ part = "registry" /\ Registry!Next
    /\ UNCHANGED <<part, allocationVars, provisionVars, clientVars, configurationVars>>
ProvisioningStep ==
    /\ part = "provisioning" /\ Provision!Next
    /\ UNCHANGED <<part, allocationVars, registryVars, clientVars, configurationVars>>
IntegrationStep ==
    /\ part = "integration" /\ Integration!Next
    /\ UNCHANGED <<part, allocationVars, registryVars, provisionVars, configurationVars>>
ConfigurationStep ==
    /\ part = "configuration" /\ Configuration!Next
    /\ UNCHANGED <<part, allocationVars, registryVars, provisionVars, clientVars>>

PartNext ==
    \/ AllocationStep \/ RegistryStep \/ ProvisioningStep \/ IntegrationStep
    \/ ConfigurationStep

PartSpec == PartInit /\ [][PartNext]_allVars

-----------------------------------------------------------------------------
(* The properties of the parts, stated and explained in their modules        *)

\* Every merge leaves a valid registry (registry_github.compare, validate).
MainStaysValid == Registry!MainStaysValid
\* A merge loses nothing of either side.
NothingIsLost == Registry!NothingIsLost
\* An installer that may not be repeated is not started twice (host_preparation.provision).
InstallerNeverReplayed == Provision!InstallerNeverReplayed
\* apply and rollback leave everybody else's entries alone (client_integration).
OthersAreUntouched == Integration!OthersAreUntouched
\* A rollback restores what the save replaced (ConfigurationStore.rollback).
RollbackUndoesTheSave == Configuration!RollbackUndoesTheSave
=============================================================================
