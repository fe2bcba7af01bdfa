-------------------------------- MODULE Access ---------------------------------
(***************************************************************************)
(* Who may call what: the permissions of each role, what each route of the *)
(* controllers requires, and the guards that every request passes.         *)
(***************************************************************************)

CONSTANTS
  Users,   \* ids of user rows
  Role,    \* the role of each user, which the access token repeats
  Null     \* no user: what request.user?.sub gives on a public route

Permission ==
  {"AUTH_MANAGE_USERS", "AUTH_VIEW_USERS",
   "SHIPMENTS_CREATE", "SHIPMENTS_EDIT", "SHIPMENTS_VIEW_ALL",
   "SHIPMENTS_VIEW_OWN", "SHIPMENTS_VIEW_ASSIGNED", "SHIPMENTS_DELETE",
   "SHIPMENTS_BULK_UPDATE", "SHIPMENTS_ASSIGN_DRIVER", "SHIPMENTS_UPDATE_STATUS",
   "TRACKING_VIEW", "TRACKING_UPDATE_GPS",
   "WAREHOUSE_RECEIVE", "WAREHOUSE_SCAN", "WAREHOUSE_INVENTORY",
   "WAREHOUSE_OUTBOUND", "WAREHOUSE_REPORTS",
   "WALLET_VIEW_OWN", "WALLET_VIEW_ALL", "WALLET_TRANSFER", "WALLET_BONUS",
   "CUSTOMERS_CREATE", "CUSTOMERS_EDIT", "CUSTOMERS_VIEW_ALL",
   "CUSTOMERS_VIEW_OWN", "CUSTOMERS_NOTES", "CUSTOMERS_TICKETS",
   "NOTIFICATIONS_MANAGE", "NOTIFICATIONS_VIEW_OWN",
   "REPORTS_VIEW", "SETTINGS_MANAGE"}

Handling == {"WAREHOUSE_RECEIVE", "WAREHOUSE_SCAN", "WAREHOUSE_INVENTORY",
             "WAREHOUSE_OUTBOUND", "WAREHOUSE_REPORTS"}

ROLE_PERMISSIONS ==
  [SUPER_ADMIN |-> Permission,
   ADMIN       |-> Permission \ {"SHIPMENTS_VIEW_OWN", "SHIPMENTS_VIEW_ASSIGNED",
                                 "TRACKING_UPDATE_GPS", "WALLET_TRANSFER",
                                 "CUSTOMERS_VIEW_OWN"},
   MANAGER     |-> {"SHIPMENTS_CREATE", "SHIPMENTS_EDIT", "SHIPMENTS_VIEW_ALL",
                    "SHIPMENTS_ASSIGN_DRIVER", "SHIPMENTS_UPDATE_STATUS",
                    "TRACKING_VIEW", "CUSTOMERS_VIEW_ALL", "CUSTOMERS_NOTES",
                    "CUSTOMERS_TICKETS", "NOTIFICATIONS_VIEW_OWN", "REPORTS_VIEW"},
   WAREHOUSE   |-> Handling \cup {"SHIPMENTS_VIEW_ALL", "SHIPMENTS_UPDATE_STATUS",
                                  "NOTIFICATIONS_VIEW_OWN"},
   DRIVER      |-> {"SHIPMENTS_VIEW_ASSIGNED", "SHIPMENTS_UPDATE_STATUS",
                    "TRACKING_VIEW", "TRACKING_UPDATE_GPS",
                    "NOTIFICATIONS_VIEW_OWN"},
   CUSTOMER    |-> {"SHIPMENTS_CREATE", "SHIPMENTS_VIEW_OWN", "TRACKING_VIEW",
                    "WALLET_VIEW_OWN", "WALLET_TRANSFER", "CUSTOMERS_VIEW_OWN",
                    "CUSTOMERS_TICKETS", "NOTIFICATIONS_VIEW_OWN"}]

Roles == DOMAIN ROLE_PERMISSIONS

ASSUME AccessAssumption == Role \in [Users -> Roles] /\ Null \notin Users

-------------------------------------------------------------------------------
(* Routes, named for the method of the controller *)

Requires(method, permission) ==
  [method |-> method, permissions |-> {permission}, isPublic |-> FALSE]
LoggedIn(method) == [method |-> method, permissions |-> {}, isPublic |-> FALSE]
Public(method) == [method |-> method, permissions |-> {}, isPublic |-> TRUE]

ShipmentRoutes ==
  [create           |-> Requires("POST", "SHIPMENTS_CREATE"),
   findAll          |-> Requires("GET", "SHIPMENTS_VIEW_ALL"),
   getStats         |-> Requires("GET", "SHIPMENTS_VIEW_ALL"),
   bulkUpdateStatus |-> Requires("POST", "SHIPMENTS_BULK_UPDATE"),
   findOne          |-> Requires("GET", "SHIPMENTS_VIEW_ALL"),
   update           |-> Requires("PUT", "SHIPMENTS_EDIT"),
   updateStatus     |-> Requires("PATCH", "SHIPMENTS_UPDATE_STATUS"),
   remove           |-> Requires("DELETE", "SHIPMENTS_DELETE"),
   getHistory       |-> Requires("GET", "SHIPMENTS_VIEW_ALL"),
   uploadDocument   |-> Requires("POST", "SHIPMENTS_EDIT"),
   getLabel         |-> Requires("GET", "SHIPMENTS_VIEW_ALL"),
   getDocumentUrl   |-> Requires("GET", "SHIPMENTS_VIEW_ALL")]

WarehouseRoutes ==
  [receive        |-> Requires("POST", "WAREHOUSE_RECEIVE"),
   scan           |-> Requires("POST", "WAREHOUSE_SCAN"),
   getInventory   |-> Requires("GET", "WAREHOUSE_INVENTORY"),
   updateLocation |-> Requires("PATCH", "WAREHOUSE_SCAN"),
   outbound       |-> Requires("POST", "WAREHOUSE_OUTBOUND"),
   getReports     |-> Requires("GET", "WAREHOUSE_REPORTS")]

TrackingRoutes ==
  [getPublicTracking |-> Public("GET"),
   getTimeline       |-> Requires("GET", "TRACKING_VIEW"),
   updateGps         |-> Requires("POST", "TRACKING_UPDATE_GPS"),
   getGpsHistory     |-> Requires("GET", "TRACKING_VIEW"),
   getEta            |-> Requires("GET", "TRACKING_VIEW")]

UserRoutes ==
  [listDrivers    |-> Requires("GET", "AUTH_VIEW_USERS"),
   getDriver      |-> Requires("GET", "AUTH_VIEW_USERS"),
   assignDriver   |-> Requires("POST", "SHIPMENTS_ASSIGN_DRIVER"),
   unassignDriver |-> Requires("DELETE", "SHIPMENTS_ASSIGN_DRIVER")]

AuthRoutes ==
  [register       |-> Public("POST"),
   login          |-> Public("POST"),
   refresh        |-> Public("POST"),
   logout         |-> LoggedIn("POST"),
   getProfile     |-> LoggedIn("GET"),
   changePassword |-> LoggedIn("PUT"),
   forgotPassword |-> Public("POST"),
   resetPassword  |-> Public("POST")]

Controllers ==
  {ShipmentRoutes, WarehouseRoutes, TrackingRoutes, UserRoutes, AuthRoutes}
RouteNames == UNION {DOMAIN c : c \in Controllers}
Routes == [r \in RouteNames |-> (CHOOSE c \in Controllers : r \in DOMAIN c)[r]]

Mutates_NotPost(r) == Routes[r].method \notin {"GET", "POST"}

\* The routes that the audit log is about.
Mutates(r) == Routes[r].method \notin {"GET", "HEAD", "OPTIONS"}

-------------------------------------------------------------------------------
(* Guards: a caller is a user, or Null without an access token *)

Callers == Users \cup {Null}

\* A public route is let through before the token is looked at, so request.user
\* stays undefined even when the caller sent one.
JwtAuthGuard(u, r) == Routes[r].isPublic \/ u # Null
RequestUser(u, r) == IF Routes[r].isPublic THEN Null ELSE u

PermissionsGuard_AnyUser(u, r) == Routes[r].permissions = {} \/ u # Null

PermissionsGuard(u, r) ==
  \/ Routes[r].permissions = {}
  \/ /\ u # Null
     /\ \/ Role[u] = "SUPER_ADMIN"
        \/ Routes[r].permissions \subseteq ROLE_PERMISSIONS[Role[u]]

\* RolesGuard, between the two, lets everyone through: no route has @Roles.
CanActivate(u, r) == JwtAuthGuard(u, r) /\ PermissionsGuard(RequestUser(u, r), r)

===============================================================================
