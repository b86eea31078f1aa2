-------------------------------- MODULE Site --------------------------------
(***************************************************************************)
(* The catalogue with its pictures and its leads: the handlers of all      *)
(* three share the requests in flight and the rows of the properties.      *)
(***************************************************************************)
EXTENDS Images, Leads

siteVars == <<props, req, arrived, overlapped, imageVars, leadVars>>

SiteInit == CatalogueInit /\ ImagesInit /\ LeadsInit

SiteNext ==
    \/ CatalogueNext /\ UNCHANGED <<imageVars, leadVars>>
    \/ ImagesNext /\ UNCHANGED leadVars
    \/ LeadsNext /\ UNCHANGED imageVars

SiteSpec == SiteInit /\ [][SiteNext]_siteVars

IdleRequest == [pc : {"idle"}]

Handler ==
    [pc : CatalogueSteps \cup UploadSteps \cup DeleteSteps \cup AvatarSteps \cup LeadSteps,
     on : Properties \cup Users \cup {Null}, owner : Scopes,
     id : Pictures \cup (SUBSET Pictures) \cup LeadIds \cup Properties \cup {Undefined, Null},
     dto : PropertyDtos \cup LeadDtos \cup {Null},
     seen : {"published"} \cup MainPictures \cup LeadStatus]

\* The rows have the types of the schema, the handlers the locals they need.
SiteTypeOK ==
    /\ props \in [Properties -> PropertyRow \cup {Null}]
    /\ req \in [Requests -> IdleRequest \cup Handler]
    /\ arrived \in 0 .. MaxArrivals
    /\ overlapped \subseteq Properties \cup Users
    /\ files \subseteq used /\ used \subseteq Pictures /\ lost \subseteq used
    /\ gallery \in [Pictures -> Properties \cup {Null}]
    /\ avatar \in [Users -> MainPictures]
    /\ failed \subseteq Properties \cup Users
    /\ leads \in [LeadIds -> LeadRow \cup {Null}]
    /\ told \subseteq LeadNotice
=============================================================================
