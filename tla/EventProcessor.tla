---------------------------- MODULE EventProcessor ----------------------------
(***************************************************************************)
(* process_events (src/src/lib.rs): takes the items of the event channel   *)
(* one by one, runs the fire tracker on them, and hands every alert it     *)
(* raises to the alarm channel, waiting a bounded time for room.           *)
(***************************************************************************)
EXTENDS FireTracker, BridgeState

CONSTANTS
    FireTypes,      \* event types the FireMatcher matches
    OtherTypes      \* event types it does not match

VARIABLE processor  \* the processor task

EventStates == {"Active", "Inactive", "Missing", "Unknown"}

(* CameraEvent; an event without a channel has the source "default".       *)
Event == [kind : {"Event"}, event_type : FireTypes \cup OtherTypes,
          source : Sources, state : EventStates]

StreamItem == Event \cup {StreamReset}

AlarmRequest == [source : Sources, alert : Alert]

NoRequest == [source |-> "none"]

ProcessorTypeOK ==
    /\ SlotsTyped
    /\ processor \in
          [phase : {"receive", "send", "sent", "dropped", "failing"},
           request : AlarmRequest \cup {NoRequest}]
    /\ events \in Seq(StreamItem)
    /\ alarms \in Seq(AlarmRequest)
    /\ Len(alarms) <= ALARM_QUEUE
    /\ health \in HealthSnapshot(OtherTypes)

Receiving == [phase |-> "receive", request |-> NoRequest]

ProcessorInit ==
    /\ TrackerInit
    /\ processor = Receiving

ProcessorAt(p) == "processor" \in running /\ processor.phase = p

(* The next item of the channel is the event or Reset `item`.              *)
Receives(item) ==
    /\ ProcessorAt("receive")
    /\ events # << >>
    /\ item = Head(events)
    /\ events' = Tail(events)

------------------------------------------------------------------------------
(* One item.                                                               *)

ProcessReset ==
    /\ Receives(StreamReset)
    /\ OnStreamReset
    /\ UNCHANGED <<processor, alarms, health, cancelled, running>>

ProcessUnmatched(event) ==
    /\ Receives(event)
    /\ event.event_type \in OtherTypes
    /\ health' = UnmatchedEventType(health, event.event_type)
    /\ UNCHANGED <<trackerVars, processor, alarms, cancelled, running>>

IsActive(event) == event.state \in {"Active", "Missing"}

(* A fire event without a state counts as active.                          *)
ProcessActive(event) ==
    /\ Receives(event)
    /\ event.event_type \in FireTypes
    /\ IsActive(event)
    /\ OnActive(event.source)
    /\ \/ raised' = {} /\ UNCHANGED processor
       \/ \E r \in raised' : processor' = [phase |-> "send", request |-> r]
    /\ UNCHANGED <<alarms, health, cancelled, running>>

ProcessInactive(event) ==
    /\ Receives(event)
    /\ event.event_type \in FireTypes
    /\ event.state = "Inactive"
    /\ OnInactive(event.source)
    /\ UNCHANGED <<processor, alarms, health, cancelled, running>>

ProcessUnknown(event) ==
    /\ Receives(event)
    /\ event.event_type \in FireTypes
    /\ event.state = "Unknown"
    /\ UNCHANGED <<trackerVars, processor, alarms, health, cancelled, running>>

ProcessEvent(event) ==
    \/ ProcessUnmatched(event)
    \/ ProcessActive(event)
    \/ ProcessInactive(event)
    \/ ProcessUnknown(event)

ProcessorReturns_OnEmpty ==
    /\ ProcessorAt("receive")
    /\ cancelled \/ events = << >>
    /\ Return("processor")
    /\ events' = << >>
    /\ UNCHANGED <<trackerVars, processor, alarms, health, cancelled>>
(* The task returns on a cancellation or when the channel has ended; what  *)
(* is still in the channel goes with it.                                   *)
ProcessorReturns ==
    /\ ProcessorAt("receive")
    /\ cancelled \/ (events = << >> /\ "supervisor" \notin running)
    /\ Return("processor")
    /\ events' = << >>
    /\ UNCHANGED <<trackerVars, processor, alarms, health, cancelled>>

------------------------------------------------------------------------------
(* The raised alert on its way to the alarm channel.  The tracker's return *)
(* value has become the request, and is gone when the send is over.        *)

AlarmRoom == "worker" \in running /\ Len(alarms) < ALARM_QUEUE

Advance(p) == processor' = [processor EXCEPT !.phase = p]

SendAlarm ==
    /\ ProcessorAt("send")
    /\ AlarmRoom
    /\ alarms' = Append(alarms, processor.request)
    /\ Advance("sent")
    /\ raised' = {}
    /\ UNCHANGED <<sources, events, health, cancelled, running>>

RecordSent ==
    /\ ProcessorAt("sent")
    /\ health' = AlertSent(health)
    /\ processor' = Receiving
    /\ UNCHANGED <<trackerVars, events, alarms, cancelled, running>>

SendTimesOut_ClosedOnly ==
    /\ ProcessorAt("send")
    /\ "worker" \notin running
    /\ Advance("dropped")
    /\ raised' = {}
    /\ UNCHANGED <<sources, events, alarms, health, cancelled, running>>
(* Two seconds on a full channel, or a closed one.                         *)
SendTimesOut ==
    /\ ProcessorAt("send")
    /\ ~AlarmRoom
    /\ Advance("dropped")
    /\ raised' = {}
    /\ UNCHANGED <<sources, events, alarms, health, cancelled, running>>

RecordDropped ==
    /\ ProcessorAt("dropped")
    /\ health' = AlertDropped(health)
    /\ Advance("failing")
    /\ UNCHANGED <<trackerVars, events, alarms, cancelled, running>>

RecordLoss_NotLatched ==
    /\ ProcessorAt("failing")
    /\ processor' = Receiving
    /\ UNCHANGED <<trackerVars, events, alarms, health, cancelled, running>>
RecordLoss ==
    /\ ProcessorAt("failing")
    /\ health' = WebhookFailure(health)
    /\ processor' = Receiving
    /\ UNCHANGED <<trackerVars, events, alarms, cancelled, running>>

ProcessorStep ==
    \/ ProcessReset
    \/ \E event \in Event : ProcessEvent(event)
    \/ ProcessorReturns
    \/ SendAlarm \/ RecordSent
    \/ SendTimesOut \/ RecordDropped \/ RecordLoss
==============================================================================
