------------------------------ MODULE Protocol ------------------------------
(* What crosses the wire to a device, side by side: the feedback of one       *)
(* control and the frames of its targets.  They share no variable.            *)
EXTENDS ControlFeedback

CONSTANTS
    Targets, Components, Parent, NoComponent, Labels, Scenes, Allowed, NoFrame, FrameRevisions,
    MaxSequence, MaxTime, MaxKey, FrameTimeout, MaxSkew  \* DeviceFrames

VARIABLES
    prod, past, since, gen, cat, key, seq, build, pend, base, net, now, offset, pin, dev, last,
    accepted

Frames == INSTANCE DeviceFrames
            WITH None <- NoFrame, MaxRevision <- FrameRevisions, Timeout <- FrameTimeout

ASSUME ProtocolAssumption == Frames!FramesAssumption

(* DeviceFrames: the device holds the controls of the revision it names. *)
ReplicaIsProduction == Frames!ReplicaIsProduction

(* DeviceFrames: a control shown as current was production's recently. *)
CurrentMeansRecent == Frames!CurrentMeansRecent
=============================================================================
