--------------------------- MODULE MCTFileService ---------------------------
(***************************************************************************)
(* Small jobs for TFileService: two modules that make objects at different *)
(* times, over two input files with two runs and three subruns.            *)
(***************************************************************************)
EXTENDS TFileService

MCModules == {"calo", "muon"}

Loop ==
  <<"Construction", "BeginJob", "OpenInput", "BeginRun", "BeginSubRun", "Event", "Event", "EndSubRun",
    "CloseInput", "OpenInput", "BeginSubRun", "Event", "EndSubRun", "EndRun", "BeginRun",
    "BeginSubRun", "Event", "Event", "EndSubRun", "EndRun", "CloseInput", "EndJob">>

NoLimit == 99
Both(x) == [m \in MCModules |-> x]

(* Both modules register a callback and make their objects at construction *)
(* ("muon" in a directory below).                                          *)
Job == [loop |-> Loop, nthreads |-> 1, nschedules |-> 1, switching |-> TRUE,
        patternIsUnique |-> TRUE, granularity |-> "Event", aging |-> FALSE,
        max |-> [g \in Granularities |-> NoLimit],
        makes |-> Both({"Construction"}), registers |-> Both({"Construction"}),
        below |-> {"muon"}, catches |-> {}]

MaxEvents(n) == [Job EXCEPT !.max["Event"] = n]

(* "calo" makes its object when it is first asked for an event. *)
Late(j) == [j EXCEPT !.makes["calo"] = {"Event"}, !.registers["calo"] = {"BeginRun"}]
(* "calo" makes its object when the first run ends, after three events. *)
AtEndOfRun(j) == [j EXCEPT !.makes["calo"] = {"EndRun"}, !.registers["calo"] = {"EndRun"}]
(* "calo" has a callback from the start and no object until a subrun ends, *)
(* unless its callback makes one before.                                   *)
CallbackFirst(j) == [j EXCEPT !.makes["calo"] = {"EndSubRun"}]
(* "calo" does not register. *)
Unregistered(j) == [j EXCEPT !.registers["calo"] = {}]

MCJobs ==
  {[MaxEvents(n) EXCEPT !.granularity = g] : n \in 1..4, g \in Granularities}
  \cup {[Late(MaxEvents(2)) EXCEPT !.granularity = g] : g \in {"Event", "EndSubRun"}}
  \cup {[AtEndOfRun(MaxEvents(2)) EXCEPT !.granularity = g] : g \in {"Event", "EndSubRun", "EndRun"}}
  \cup {CallbackFirst(MaxEvents(n)) : n \in {1, 3}}
  \cup {[Job EXCEPT !.max["EndSubRun"] = 1], [Job EXCEPT !.max["EndRun"] = 1],
        [Job EXCEPT !.max["CloseInput"] = 1, !.granularity = "EndRun"]}
  \cup {[Job EXCEPT !.aging = TRUE, !.granularity = g] : g \in {"Event", "EndRun"}}
  \cup {[Unregistered(MaxEvents(2)) EXCEPT !.catches = c] : c \in {{}, {"calo"}}}
  \cup {[Unregistered(MaxEvents(2)) EXCEPT !.switching = FALSE, !.nthreads = n, !.nschedules = s] :
          n \in {1, 2}, s \in {1, 2}}
  \cup {[MaxEvents(2) EXCEPT !.nthreads = 2, !.nschedules = 2], [Job EXCEPT !.patternIsUnique = FALSE]}
=============================================================================
