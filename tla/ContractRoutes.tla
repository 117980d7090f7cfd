-------------------------- MODULE ContractRoutes --------------------------
(*****************************************************************************)
(* The routes of the generated server (HandlerWithOptions): the method and the *)
(* path template, below the base URL, of each operation.                     *)
(*****************************************************************************)
EXTENDS TLC

\* The admin panel, up to the dictionaries.
Staff == [
  AdminListAdminUsers        |-> <<"GET", "/admin/admin-users">>,
  AdminCreateAdminUser       |-> <<"POST", "/admin/admin-users">>,
  AdminDeactivateAdminUser   |-> <<"DELETE", "/admin/admin-users/{adminUserId}">>,
  AdminGetAdminUser          |-> <<"GET", "/admin/admin-users/{adminUserId}">>,
  AdminUpdateAdminUser       |-> <<"PATCH", "/admin/admin-users/{adminUserId}">>,
  AdminLogin                 |-> <<"POST", "/admin/auth/login">>,
  AdminLogout                |-> <<"POST", "/admin/auth/logout">>,
  GetAdminMe                 |-> <<"GET", "/admin/auth/me">>,
  AdminRefresh               |-> <<"POST", "/admin/auth/refresh">>,
  AdminListCategories        |-> <<"GET", "/admin/categories">>,
  AdminCreateCategory        |-> <<"POST", "/admin/categories">>,
  AdminDeleteCategory        |-> <<"DELETE", "/admin/categories/{categoryId}">>,
  AdminGetCategory           |-> <<"GET", "/admin/categories/{categoryId}">>,
  AdminUpdateCategory        |-> <<"PATCH", "/admin/categories/{categoryId}">>,
  AdminListDeliveryMethods   |-> <<"GET", "/admin/delivery-methods">>,
  AdminCreateDeliveryMethod  |-> <<"POST", "/admin/delivery-methods">>,
  AdminDeleteDeliveryMethod  |-> <<"DELETE", "/admin/delivery-methods/{deliveryMethodId}">>,
  AdminGetDeliveryMethod     |-> <<"GET", "/admin/delivery-methods/{deliveryMethodId}">>,
  AdminUpdateDeliveryMethod  |-> <<"PATCH", "/admin/delivery-methods/{deliveryMethodId}">>,
  AdminListDictionaries      |-> <<"GET", "/admin/dictionaries">>,
  AdminCreateDictionary      |-> <<"POST", "/admin/dictionaries">>,
  AdminGetDictionary         |-> <<"GET", "/admin/dictionaries/{dictionaryId}">>,
  AdminUpdateDictionary      |-> <<"PATCH", "/admin/dictionaries/{dictionaryId}">>,
  AdminListDictionaryValues  |-> <<"GET", "/admin/dictionaries/{dictionaryId}/values">>,
  AdminCreateDictionaryValue |-> <<"POST", "/admin/dictionaries/{dictionaryId}/values">>,
  AdminGetDictionaryValue    |-> <<"GET", "/admin/dictionary-values/{valueId}">>,
  AdminUpdateDictionaryValue |-> <<"PATCH", "/admin/dictionary-values/{valueId}">>]

\* The admin panel, from field definitions to settings.
StaffShop == [
  AdminListFieldDefinitions  |-> <<"GET", "/admin/field-definitions">>,
  AdminCreateFieldDefinition |-> <<"POST", "/admin/field-definitions">>,
  AdminGetFieldDefinition    |-> <<"GET", "/admin/field-definitions/{fieldDefinitionId}">>,
  AdminUpdateFieldDefinition |-> <<"PATCH", "/admin/field-definitions/{fieldDefinitionId}">>,
  AdminListOrders            |-> <<"GET", "/admin/orders">>,
  AdminGetOrder              |-> <<"GET", "/admin/orders/{orderId}">>,
  AdminUpdateOrderStatus     |-> <<"PATCH", "/admin/orders/{orderId}/status">>,
  AdminListPaymentMethods    |-> <<"GET", "/admin/payment-methods">>,
  AdminCreatePaymentMethod   |-> <<"POST", "/admin/payment-methods">>,
  AdminDeletePaymentMethod   |-> <<"DELETE", "/admin/payment-methods/{paymentMethodId}">>,
  AdminGetPaymentMethod      |-> <<"GET", "/admin/payment-methods/{paymentMethodId}">>,
  AdminUpdatePaymentMethod   |-> <<"PATCH", "/admin/payment-methods/{paymentMethodId}">>,
  AdminListPosts             |-> <<"GET", "/admin/posts">>,
  AdminCreatePost            |-> <<"POST", "/admin/posts">>,
  AdminDeletePost            |-> <<"DELETE", "/admin/posts/{postId}">>,
  AdminGetPost               |-> <<"GET", "/admin/posts/{postId}">>,
  AdminUpdatePost            |-> <<"PATCH", "/admin/posts/{postId}">>,
  AdminListProducts          |-> <<"GET", "/admin/products">>,
  AdminCreateProduct         |-> <<"POST", "/admin/products">>,
  AdminDeleteProduct         |-> <<"DELETE", "/admin/products/{productId}">>,
  AdminGetProduct            |-> <<"GET", "/admin/products/{productId}">>,
  AdminUpdateProduct         |-> <<"PATCH", "/admin/products/{productId}">>,
  AdminListRoles             |-> <<"GET", "/admin/roles">>,
  AdminGetRole               |-> <<"GET", "/admin/roles/{roleId}">>,
  AdminUpdateRole            |-> <<"PATCH", "/admin/roles/{roleId}">>,
  AdminGetSettings           |-> <<"GET", "/admin/settings">>,
  AdminUpdateSettings        |-> <<"PATCH", "/admin/settings">>]

\* The storefront, media and the payment provider.
Storefront == [
  ClearCart             |-> <<"DELETE", "/cart">>,
  GetCart               |-> <<"GET", "/cart">>,
  AddCartItem           |-> <<"POST", "/cart/items">>,
  RemoveCartItem        |-> <<"DELETE", "/cart/items/{productId}">>,
  UpdateCartItem        |-> <<"PATCH", "/cart/items/{productId}">>,
  ListCategories        |-> <<"GET", "/categories">>,
  GetCategory           |-> <<"GET", "/categories/{categoryId}">>,
  GetCategoryFacets     |-> <<"GET", "/categories/{categoryId}/facets">>,
  ListDeliveryMethods   |-> <<"GET", "/delivery-methods">>,
  CreateDeliveryQuote   |-> <<"POST", "/delivery-quotes">>,
  GetMe                 |-> <<"GET", "/me">>,
  ConfirmMedia          |-> <<"POST", "/media">>,
  CreatePresignedUpload |-> <<"POST", "/media/presigned-uploads">>,
  DeleteMedia           |-> <<"DELETE", "/media/{mediaId}">>,
  GetMedia              |-> <<"GET", "/media/{mediaId}">>,
  ListMyOrders          |-> <<"GET", "/orders">>,
  CreateOrder           |-> <<"POST", "/orders">>,
  GetMyOrder            |-> <<"GET", "/orders/{orderId}">>,
  InitiatePayment       |-> <<"POST", "/orders/{orderId}/payments">>,
  PaymentWebhook        |-> <<"POST", "/payments/webhook/{provider}">>,
  GetPayment            |-> <<"GET", "/payments/{paymentId}">>,
  ListPosts             |-> <<"GET", "/posts">>,
  GetPost               |-> <<"GET", "/posts/{postId}">>,
  ListProducts          |-> <<"GET", "/products">>,
  GetProduct            |-> <<"GET", "/products/{productId}">>]

\* Every operation of the contract.
Routes ==
  Staff @@ StaffShop @@ Storefront

=============================================================================
