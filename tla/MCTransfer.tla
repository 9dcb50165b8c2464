------------------------------ MODULE MCTransfer ------------------------------
(* How files move between two peers, in two parts checked side by side: the   *)
(* `files` channel of two peers (FilesChannel), and what the downloads of one *)
(* content by several calls leave behind (Downloads).  A behaviour belongs to *)
(* the part its first state names and leaves the variables of the other as    *)
(* they began.                                                                *)
EXTENDS MCFiles, Downloads

VARIABLE part

partVars == <<part, channelVars, vars>>

PartsInit ==
    /\ part \in {"channel", "downloads"}
    /\ ChannelInit /\ Init
    /\ part # "channel" => wanted[p2] = {}

ChannelPart == part = "channel" /\ ChannelNext /\ UNCHANGED <<part, vars>>
DownloadsPart == part = "downloads" /\ Next /\ UNCHANGED <<part, channelVars>>

(* The fairness of each part, in the behaviours that are its own.             *)
PartsFairness ==
    /\ \A p \in Ends:
        /\ WF_channelVars(part = "channel" /\ PumpStep(p))
        /\ WF_channelVars(part = "channel" /\ ServerStep(p))
        /\ WF_channelVars(part = "channel" /\ ClientStep(p))
        /\ WF_channelVars(part = "channel" /\ Refill(p))
        /\ \A r \in Roles: WF_channelVars(part = "channel" /\ SendSegment(p, r))
    /\ \A o \in Opens:
        WF_vars(part = "downloads" /\ ~At(o, "idle") /\ (OpenStep(o) \/ RunStep(o)))
    /\ WF_vars(part = "downloads" /\ CancelToken)

PartsSpec ==
    /\ PartsInit
    /\ [][ChannelPart \/ DownloadsPart]_partVars
    /\ PartsFairness

(* FilesChannel: one of the downloads is completed over the channel, however  *)
(* the queues, the window and the token bucket hold it up, as long as nobody  *)
(* cancels, no end mixed its segments and no Hello came before its reader.    *)
ChannelDelivers == part = "channel" => DownloadArrives
=============================================================================
