CONSTANTS
  CreateOrder = CreateOrder
  OrderCreated = OrderCreated
  OrderFault = OrderFault
  Types = {CreateOrder, OrderCreated, OrderFault}
  Ids = {1, 2, 3, 4}
  Contract <- UniqueContract
  NoId = NoId
  NoType = NoType
SPECIFICATION Spec
INVARIANTS
  TypeOK
  TablesAgree
  DispatchSound
  FactorySound
PROPERTY
  TypeIdStable
